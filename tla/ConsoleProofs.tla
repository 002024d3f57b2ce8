--------------------------- MODULE ConsoleProofs ----------------------------
(***************************************************************************)
(* Proofs about Console: the optimistic concurrency of the console's write *)
(* routes, for any number of browsers, products, keys and environments.    *)
(*                                                                         *)
(* An operation depends on no more of the store than its plan expects, so  *)
(* a plan that still holds when it is committed is the plan the store of   *)
(* that instant would get (PlansAlike).  What lands is therefore judged    *)
(* where it lands: it is well formed, keeps products whole, validates, and *)
(* does what was confirmed, whatever the others did since the snapshot.    *)
(* That a save spares what its operator did not touch needs more: the page *)
(* was filled from an older store still.  Files only age (Ages), so what   *)
(* recalls a file either finds it unchanged or never lands (Remembered).   *)
(***************************************************************************)
EXTENDS Console, TLAPS

-----------------------------------------------------------------------------
(* Paths and functions.                                                    *)

(* Documents of different kinds, and of different products, have different *)
(* paths.                                                                  *)
LEMMA PathsDiffer ==
  ASSUME NEW p, NEW q, NEW e, NEW f
  PROVE  /\ Services # Flags /\ Services # SchemaOf(p) /\ Services # ArchiveOf(p)
         /\ Services # ConfigOf(p, e) /\ Flags # SchemaOf(p) /\ Flags # ArchiveOf(p)
         /\ Flags # ConfigOf(p, e) /\ SchemaOf(p) # ArchiveOf(q)
         /\ SchemaOf(p) # ConfigOf(q, e) /\ ArchiveOf(p) # ConfigOf(q, e)
         /\ SchemaOf(p) = SchemaOf(q) => p = q
         /\ ConfigOf(p, e) = ConfigOf(q, f) => p = q /\ e = f
  BY DEF Services, Flags, SchemaOf, ArchiveOf, ConfigOf

(* A record of fields for some keys is built from one with these keys,     *)
LEMMA FieldsIntro ==
  ASSUME NEW T, NEW K \in SUBSET Key, NEW f \in [K -> T]
  PROVE  f \in Fields(T)
  BY DEF Fields

(* and is one.                                                             *)
LEMMA FieldsElim ==
  ASSUME NEW T, NEW f \in Fields(T)
  PROVE  DOMAIN f \in SUBSET Key /\ f \in [DOMAIN f -> T]
  BY DEF Fields

(* No fields at all, fields changed, fields taken away, fields picked out. *)
LEMMA FieldsNothing ==
  ASSUME NEW T
  PROVE  Nothing \in Fields(T)
  BY Nothing \in [{} -> T], FieldsIntro DEF Nothing

(* Fields laid over fields are fields.                                     *)
LEMMA FieldsMerge ==
  ASSUME NEW T, NEW f \in Fields(T), NEW g \in Fields(T)
  PROVE  Merge(f, g) \in Fields(T)
<1>1. Merge(f, g) \in [DOMAIN f \cup DOMAIN g -> T]
  BY FieldsElim DEF Merge
<1> QED BY <1>1, FieldsElim, FieldsIntro

(* So are what is left when some are taken away,                           *)
LEMMA FieldsWithout ==
  ASSUME NEW T, NEW f \in Fields(T), NEW K
  PROVE  Without(f, K) \in Fields(T)
<1>1. Without(f, K) \in [DOMAIN f \ K -> T]
  BY FieldsElim DEF Without, Restrict
<1> QED BY <1>1, FieldsElim, FieldsIntro

(* and those that were picked.                                             *)
LEMMA FieldsRestrict ==
  ASSUME NEW T, NEW f \in Fields(T), NEW K \in SUBSET DOMAIN f
  PROVE  Restrict(f, K) \in Fields(T)
<1>1. Restrict(f, K) \in [K -> T]
  BY FieldsElim DEF Restrict
<1> QED BY <1>1, FieldsElim, FieldsIntro

(* The defaults of declared keys are texts: an absent default is no field. *)
LEMMA FieldsDefaults ==
  ASSUME NEW keys \in Fields(Definition)
  PROVE  DefaultsFor(keys) \in Fields(Text)
<1>1. DOMAIN keys \in SUBSET Key /\ keys \in [DOMAIN keys -> Definition]
  BY FieldsElim
<1>2. \A k \in Given(keys) : keys[k].default \in Text
  BY <1>1 DEF Given, Definition
<1>3. DefaultsFor(keys) \in [Given(keys) -> Text]
  BY <1>2 DEF DefaultsFor
<1>4. Given(keys) \in SUBSET Key
  BY <1>1 DEF Given
<1> QED BY <1>3, <1>4, FieldsIntro

(* What a merge holds: the second function where it is defined, the first  *)
(* elsewhere.                                                              *)
LEMMA MergeIs ==
  ASSUME NEW f, NEW g
  PROVE  /\ DOMAIN Merge(f, g) = DOMAIN f \cup DOMAIN g
         /\ \A x \in DOMAIN f \cup DOMAIN g :
              Merge(f, g)[x] = IF x \in DOMAIN g THEN g[x] ELSE f[x]
  BY DEF Merge

(* A merge has the fields of both,                                         *)
LEMMA MergeDomain ==
  ASSUME NEW f, NEW g
  PROVE  DOMAIN Merge(f, g) = DOMAIN f \cup DOMAIN g
  BY DEF Merge

(* those of the second as the second has them,                             *)
LEMMA MergeHas ==
  ASSUME NEW f, NEW g, NEW x \in DOMAIN g
  PROVE  Merge(f, g)[x] = g[x]
  BY DEF Merge

(* and the others as they were.                                            *)
LEMMA MergeKeeps ==
  ASSUME NEW f, NEW g, NEW x \in DOMAIN f, x \notin DOMAIN g
  PROVE  Merge(f, g)[x] = f[x]
  BY DEF Merge

(* A function of one point.                                                *)
LEMMA SoleIs ==
  ASSUME NEW x, NEW y
  PROVE  DOMAIN Sole(x, y) = {x} /\ Sole(x, y)[x] = y
  BY DEF Sole

-----------------------------------------------------------------------------
(* Serial plans.                                                           *)

(* What a store must hold for a plan to be committed on it.                *)
LEMMA PlanExpects ==
  ASSUME NEW s, NEW t, NEW p, NEW more, NEW writes, Still(t, Plan(s, p, more, writes))
  PROVE  /\ t[Services] = s[Services] /\ t[SchemaOf(p)] = s[SchemaOf(p)]
         /\ \A path \in more \cup DOMAIN writes : t[path] = s[path]
         /\ Environments(t, p) = Environments(s, p)
<1> DEFINE D == {Services, SchemaOf(p)} \cup more \cup DOMAIN writes
<1> DEFINE plan == Plan(s, p, more, writes)
<1>1. plan.expects = Restrict(s, D) /\ plan.collections = {<<p, Environments(s, p)>>}
  BY DEF Plan
<1>2. \A path \in D : Restrict(s, D)[path] = s[path]
  BY DEF Restrict
<1>3. DOMAIN Restrict(s, D) = D
  BY DEF Restrict
<1>4. \A path \in D : t[path] = s[path]
  BY <1>1, <1>2, <1>3 DEF Still
<1>5. <<p, Environments(s, p)>> \in plan.collections
  BY <1>1
<1>6. Environments(t, p) = Environments(s, p)
  BY <1>5 DEF Still
<1> QED BY <1>4, <1>6

(* A plan is accepted; a refusal says why.                                 *)
LEMMA PlanIs ==
  ASSUME NEW s, NEW p, NEW more, NEW writes
  PROVE  Plan(s, p, more, writes).verdict = "ok" /\ Plan(s, p, more, writes).writes = writes
  BY DEF Plan

(* A refusal has the verdict it is given.                                  *)
LEMMA RefusedIs ==
  ASSUME NEW code
  PROVE  Refused(code).verdict = code
  BY DEF Refused

(* What a change of values requires and writes.                            *)
Current(s, p, e, etag) == etag \in {Any, s[ConfigOf(p, e)]}

NextValues(s, p, e, changes) == Merge(Values(s, p, e), changes)

ValuesWritten(s, p, e, changes) ==
  IF s[ConfigOf(p, e)] # Absent /\ NextValues(s, p, e, changes) = Values(s, p, e) THEN Nothing
  ELSE Sole(ConfigOf(p, e), Document(s[ConfigOf(p, e)], NextValues(s, p, e, changes)))

(* A change of values that is current and valid is planned,                *)
LEMMA PlanValuesIs ==
  ASSUME NEW s, NEW p, NEW e, NEW changes, NEW etag, NEW more,
         Current(s, p, e, etag),
         Validates(s[SchemaOf(p)].keys, NextValues(s, p, e, changes))
  PROVE  PlanValues(s, p, e, changes, etag, more)
           = Plan(s, p, more \cup {ConfigOf(p, e)}, ValuesWritten(s, p, e, changes))
  BY DEF PlanValues, NextValues, ValuesWritten, Current

(* and no other is;                                                        *)
LEMMA PlanValuesOk ==
  ASSUME NEW s, NEW p, NEW e, NEW changes, NEW etag, NEW more,
         PlanValues(s, p, e, changes, etag, more).verdict = "ok"
  PROVE  /\ Current(s, p, e, etag)
         /\ Validates(s[SchemaOf(p)].keys, NextValues(s, p, e, changes))
<1>1. Current(s, p, e, etag)
  <2>1. SUFFICES ASSUME ~ Current(s, p, e, etag) PROVE FALSE
    OBVIOUS
  <2>2. PlanValues(s, p, e, changes, etag, more) = Refused("conflict")
    BY <2>1 DEF PlanValues, Current
  <2> QED BY <2>2, RefusedIs
<1>2. Validates(s[SchemaOf(p)].keys, NextValues(s, p, e, changes))
  <2>1. SUFFICES ASSUME ~ Validates(s[SchemaOf(p)].keys, NextValues(s, p, e, changes)) PROVE FALSE
    OBVIOUS
  <2>2. PlanValues(s, p, e, changes, etag, more) = Refused("invalid")
    BY <1>1, <2>1 DEF PlanValues, NextValues, Current
  <2> QED BY <2>2, RefusedIs
<1> QED BY <1>1, <1>2

(* it is planned alike on every store that still holds what it expects.    *)
LEMMA PlanValuesAlike ==
  ASSUME NEW s, NEW t, NEW p, NEW e, NEW changes, NEW etag, NEW more,
         PlanValues(s, p, e, changes, etag, more).verdict = "ok",
         Still(t, PlanValues(s, p, e, changes, etag, more))
  PROVE  /\ t[Services] = s[Services] /\ t[SchemaOf(p)] = s[SchemaOf(p)]
         /\ t[ConfigOf(p, e)] = s[ConfigOf(p, e)]
         /\ \A path \in more : t[path] = s[path]
         /\ PlanValues(t, p, e, changes, etag, more).verdict = "ok"
         /\ PlanValues(t, p, e, changes, etag, more).writes
              = PlanValues(s, p, e, changes, etag, more).writes
<1>1. PlanValues(s, p, e, changes, etag, more)
        = Plan(s, p, more \cup {ConfigOf(p, e)}, ValuesWritten(s, p, e, changes))
  BY PlanValuesOk, PlanValuesIs
<1>2. /\ t[Services] = s[Services] /\ t[SchemaOf(p)] = s[SchemaOf(p)]
      /\ t[ConfigOf(p, e)] = s[ConfigOf(p, e)]
      /\ \A path \in more : t[path] = s[path]
  BY <1>1, PlanExpects
<1>3. NextValues(t, p, e, changes) = NextValues(s, p, e, changes)
  BY <1>2 DEF NextValues, Values
<1>4. ValuesWritten(t, p, e, changes) = ValuesWritten(s, p, e, changes)
  BY <1>2, <1>3 DEF ValuesWritten, Values
<1>5. /\ Current(t, p, e, etag)
      /\ Validates(t[SchemaOf(p)].keys, NextValues(t, p, e, changes))
  <2>1. /\ Current(s, p, e, etag)
        /\ Validates(s[SchemaOf(p)].keys, NextValues(s, p, e, changes))
    BY PlanValuesOk
  <2> QED BY <2>1, <1>2, <1>3 DEF Current
<1>6. PlanValues(t, p, e, changes, etag, more)
        = Plan(t, p, more \cup {ConfigOf(p, e)}, ValuesWritten(t, p, e, changes))
  BY <1>5, PlanValuesIs
<1> QED BY <1>1, <1>2, <1>4, <1>6, PlanIs

(* Each operation decides the same, and writes the same, on every store    *)
(* that holds what its plan expects.                                       *)
LEMMA KnownAlike ==
  ASSUME NEW s, NEW t, NEW p, t[Services] = s[Services], t[SchemaOf(p)] = s[SchemaOf(p)]
  PROVE  /\ Known(t, p) <=> Known(s, p)
         /\ Keys(t, p) = Keys(s, p)
         /\ \A k : Secret(t, p, k) <=> Secret(s, p, k)
  BY DEF Known, Registered, Has, Keys, Declared, Secret

(* A save (writeEnvironment).                                              *)
LEMMA WriteValuesAlike ==
  ASSUME NEW s, NEW t, NEW r, WriteValues(s, r).verdict = "ok", Still(t, WriteValues(s, r))
  PROVE  WriteValues(t, r).verdict = "ok" /\ WriteValues(t, r).writes = WriteValues(s, r).writes
<1>1. Known(s, r.p)
  BY RefusedIs DEF WriteValues
<1>2. WriteValues(s, r) = PlanValues(s, r.p, r.e, r.changes, r.etag, {})
  BY <1>1 DEF WriteValues
<1>3. t[Services] = s[Services] /\ t[SchemaOf(r.p)] = s[SchemaOf(r.p)]
  BY <1>2, PlanValuesAlike
<1>4. Known(t, r.p)
  BY <1>1, <1>3, KnownAlike
<1>5. WriteValues(t, r) = PlanValues(t, r.p, r.e, r.changes, r.etag, {})
  BY <1>4 DEF WriteValues
<1> QED BY <1>2, <1>5, PlanValuesAlike

(* What a promotion requires.                                              *)
Promotable(s, r) ==
  /\ Known(s, r.p)
  /\ r.keys # {} /\ r.keys \subseteq Keys(s, r.p) \cap DOMAIN Values(s, r.p, r.e)
  /\ \A k \in r.keys : ~ Secret(s, r.p, k)
  /\ NextEnv(r.e) # Absent

PromotePlan(s, r) ==
  PlanValues(s, r.p, NextEnv(r.e), Restrict(Values(s, r.p, r.e), r.keys), Any, {ConfigOf(r.p, r.e)})

(* A promotion, when it is planned,                                        *)
LEMMA PromoteOk ==
  ASSUME NEW s, NEW r
  PROVE  /\ Promotable(s, r) => Promote(s, r) = PromotePlan(s, r)
         /\ Promote(s, r).verdict = "ok" => Promotable(s, r)
  BY RefusedIs DEF Promote, Promotable, PromotePlan

(* and alike.                                                              *)
LEMMA PromoteAlike ==
  ASSUME NEW s, NEW t, NEW r, Promote(s, r).verdict = "ok", Still(t, Promote(s, r))
  PROVE  Promote(t, r).verdict = "ok" /\ Promote(t, r).writes = Promote(s, r).writes
<1>1. Promotable(s, r) /\ Promote(s, r) = PromotePlan(s, r)
  BY PromoteOk
<1>2. /\ t[Services] = s[Services] /\ t[SchemaOf(r.p)] = s[SchemaOf(r.p)]
      /\ t[ConfigOf(r.p, r.e)] = s[ConfigOf(r.p, r.e)]
  BY <1>1, PlanValuesAlike DEF PromotePlan
<1>3. Values(t, r.p, r.e) = Values(s, r.p, r.e)
  BY <1>2 DEF Values
<1>4. Promotable(t, r)
  BY <1>1, <1>2, <1>3, KnownAlike DEF Promotable
<1>5. Promote(t, r) = PlanValues(t, r.p, NextEnv(r.e), Restrict(Values(s, r.p, r.e), r.keys), Any,
                                 {ConfigOf(r.p, r.e)})
  BY <1>3, <1>4, PromoteOk DEF PromotePlan
<1>6. Promote(s, r) = PlanValues(s, r.p, NextEnv(r.e), Restrict(Values(s, r.p, r.e), r.keys), Any,
                                 {ConfigOf(r.p, r.e)})
  BY <1>1 DEF PromotePlan
<1> QED BY <1>5, <1>6, PlanValuesAlike

(* What a creation requires and writes.                                    *)
FreshFile(r) == [version |-> 1, values |-> DefaultsFor(r.drafts)]

Creatable(s, r) ==
  /\ r.p \notin Registered(s)
  /\ \A q \in Registered(s) : s[Services][q] # r.uid
  /\ ~ Has(s, SchemaOf(r.p)) /\ Environments(s, r.p) = {}
  /\ r.envs # {} /\ r.envs \subseteq Env
  /\ Validates(r.drafts, FreshFile(r).values)
  /\ \A k \in DOMAIN FreshFile(r).values : ~ r.drafts[k].secret

CreateWrites(s, r) ==
  Merge([path \in {ConfigOf(r.p, e) : e \in r.envs} |-> FreshFile(r)],
  Merge(Sole(SchemaOf(r.p), [keys |-> r.drafts, retiring |-> FALSE]),
        Sole(Services, Merge(s[Services], Sole(r.p, r.uid)))))

(* A creation: the plan, and alike on a store with the same registry and   *)
(* no files.                                                               *)
LEMMA CreateOk ==
  ASSUME NEW s, NEW r
  PROVE  /\ Creatable(s, r) => CreateProduct(s, r) = Plan(s, r.p, {}, CreateWrites(s, r))
         /\ CreateProduct(s, r).verdict = "ok" => Creatable(s, r)
  BY RefusedIs DEF CreateProduct, Creatable, CreateWrites, FreshFile

(* A creation decides by the documents and sets it expects.                *)
LEMMA CreateAlike ==
  ASSUME NEW s, NEW t, NEW r, CreateProduct(s, r).verdict = "ok", Still(t, CreateProduct(s, r))
  PROVE  /\ CreateProduct(t, r).verdict = "ok"
         /\ CreateProduct(t, r).writes = CreateProduct(s, r).writes
<1>1. Creatable(s, r) /\ CreateProduct(s, r) = Plan(s, r.p, {}, CreateWrites(s, r))
  BY CreateOk
<1>2. /\ t[Services] = s[Services] /\ t[SchemaOf(r.p)] = s[SchemaOf(r.p)]
      /\ Environments(t, r.p) = Environments(s, r.p)
  BY <1>1, PlanExpects
<1>3. Creatable(t, r) /\ CreateWrites(t, r) = CreateWrites(s, r)
  BY <1>1, <1>2 DEF Creatable, CreateWrites, Registered, Has
<1> QED BY <1>1, <1>3, CreateOk, PlanIs

(* What the retiring of a product writes.                                  *)
RetireWrites(s, r) == Sole(SchemaOf(r.p), [s[SchemaOf(r.p)] EXCEPT !.retiring = r.retiring])

(* Retiring: the plan.                                                     *)
LEMMA RetireOk ==
  ASSUME NEW s, NEW r, SetRetiring(s, r).verdict = "ok"
  PROVE  Known(s, r.p) /\ SetRetiring(s, r) = Plan(s, r.p, {}, RetireWrites(s, r))
  BY RefusedIs DEF SetRetiring, RetireWrites

(* What an archive requires and writes.                                    *)
Archivable(s, r) ==
  /\ Confirmed(s, r) /\ Known(s, r.p) /\ s[SchemaOf(r.p)].retiring
  /\ ~ (Has(s, ArchiveOf(r.p)) /\ ~ r.force)

Removed(s, p) ==
  [path \in {SchemaOf(p)} \cup {ConfigOf(p, e) : e \in Environments(s, p)} |-> Absent]

ArchiveWrites(s, r) ==
  Merge(Removed(s, r.p),
  Merge(Sole(Services, Without(s[Services], {r.p})), Sole(ArchiveOf(r.p), Base(s, r.p))))

(* An archive: the plan, and alike on a store with the same product.       *)
LEMMA ArchiveOk ==
  ASSUME NEW s, NEW r
  PROVE  /\ Archivable(s, r) => ArchiveProduct(s, r) = Plan(s, r.p, {}, ArchiveWrites(s, r))
         /\ ArchiveProduct(s, r).verdict = "ok" => Archivable(s, r)
  BY RefusedIs DEF ArchiveProduct, Archivable, ArchiveWrites, Removed

(* The base is what a plan expects that expects every environment file.    *)
LEMMA BaseAlike ==
  ASSUME NEW s, NEW t, NEW p, t[Services] = s[Services], t[SchemaOf(p)] = s[SchemaOf(p)],
         Environments(t, p) = Environments(s, p),
         \A e \in Environments(s, p) : t[ConfigOf(p, e)] = s[ConfigOf(p, e)]
  PROVE  /\ \A e \in Env : t[ConfigOf(p, e)] = s[ConfigOf(p, e)]
         /\ Base(t, p) = Base(s, p)
<1>1. \A e \in Env : t[ConfigOf(p, e)] = s[ConfigOf(p, e)]
  BY DEF Environments, Has
<1>2. \A path \in ProductPaths(p) : t[path] = s[path]
  BY <1>1 DEF ProductPaths, ConfigPaths
<1> QED BY <1>1, <1>2 DEF Base, Restrict

(* So does an archive,                                                     *)
LEMMA ArchiveAlike ==
  ASSUME NEW s, NEW t, NEW r, ArchiveProduct(s, r).verdict = "ok", Still(t, ArchiveProduct(s, r))
  PROVE  /\ ArchiveProduct(t, r).verdict = "ok" /\ Base(t, r.p) = Base(s, r.p)
         /\ ArchiveProduct(t, r).writes = ArchiveProduct(s, r).writes
<1>1. Archivable(s, r) /\ ArchiveProduct(s, r) = Plan(s, r.p, {}, ArchiveWrites(s, r))
  BY ArchiveOk
<1>2. /\ t[Services] = s[Services] /\ t[SchemaOf(r.p)] = s[SchemaOf(r.p)]
      /\ Environments(t, r.p) = Environments(s, r.p)
      /\ \A path \in DOMAIN ArchiveWrites(s, r) : t[path] = s[path]
  BY <1>1, PlanExpects
<1>3. /\ ArchiveOf(r.p) \in DOMAIN ArchiveWrites(s, r)
      /\ \A e \in Environments(s, r.p) : ConfigOf(r.p, e) \in DOMAIN ArchiveWrites(s, r)
  BY DEF ArchiveWrites, Removed, Merge, Sole
<1>4. Base(t, r.p) = Base(s, r.p)
  BY <1>2, <1>3, BaseAlike
<1>5. Archivable(t, r)
  BY <1>1, <1>2, <1>3, <1>4, KnownAlike DEF Archivable, Confirmed, Has
<1>6. ArchiveWrites(t, r) = ArchiveWrites(s, r)
  BY <1>2, <1>4 DEF ArchiveWrites, Removed
<1> QED BY <1>1, <1>4, <1>5, <1>6, ArchiveOk, PlanIs

(* What the addition of keys requires and writes.                          *)
MoreKeys(s, r) == Merge(s[SchemaOf(r.p)].keys, r.drafts)
MoreValues(s, r) == Merge(Values(s, r.p, r.e), DefaultsFor(r.drafts))

Addable(s, r) ==
  /\ Known(s, r.p) /\ r.e = Lowest /\ r.drafts # Nothing
  /\ DOMAIN r.drafts \cap Keys(s, r.p) = {}
  /\ Has(s, ConfigOf(r.p, r.e)) /\ r.etag = s[ConfigOf(r.p, r.e)]
  /\ Validates(MoreKeys(s, r), MoreValues(s, r))
  /\ \A e \in Environments(s, r.p) \ {r.e} : Validates(MoreKeys(s, r), Values(s, r.p, e))

SchemaWith(s, p, keys) == Sole(SchemaOf(p), [s[SchemaOf(p)] EXCEPT !.keys = keys])

AddWrites(s, r) ==
  IF MoreValues(s, r) = Values(s, r.p, r.e) THEN SchemaWith(s, r.p, MoreKeys(s, r))
  ELSE Merge(SchemaWith(s, r.p, MoreKeys(s, r)),
             Sole(ConfigOf(r.p, r.e), Document(s[ConfigOf(r.p, r.e)], MoreValues(s, r))))

Files(s, p) == {ConfigOf(p, e) : e \in Environments(s, p)}

(* An addition of keys: the plan, and alike on a store with the same       *)
(* files.                                                                  *)
LEMMA AddOk ==
  ASSUME NEW s, NEW r
  PROVE  /\ Addable(s, r) => AddKeys(s, r) = Plan(s, r.p, Files(s, r.p), AddWrites(s, r))
         /\ AddKeys(s, r).verdict = "ok" => Addable(s, r)
<1>1. CASE Addable(s, r)
  <2>1. AddKeys(s, r) = Plan(s, r.p, Files(s, r.p), AddWrites(s, r))
    BY <1>1 DEF AddKeys, Addable, AddWrites, SchemaWith, Files, MoreKeys, MoreValues
  <2> QED BY <1>1, <2>1
<1>2. CASE ~ Addable(s, r)
  <2>1. AddKeys(s, r) \in {Refused("invalid"), Refused("conflict")}
    BY <1>2 DEF AddKeys, Addable, MoreKeys, MoreValues
  <2> QED BY <1>2, <2>1, RefusedIs
<1> QED BY <1>1, <1>2

(* the addition of keys,                                                   *)
LEMMA AddAlike ==
  ASSUME NEW s, NEW t, NEW r, AddKeys(s, r).verdict = "ok", Still(t, AddKeys(s, r))
  PROVE  AddKeys(t, r).verdict = "ok" /\ AddKeys(t, r).writes = AddKeys(s, r).writes
<1>1. Addable(s, r) /\ AddKeys(s, r) = Plan(s, r.p, Files(s, r.p), AddWrites(s, r))
  BY AddOk
<1>2. /\ t[Services] = s[Services] /\ t[SchemaOf(r.p)] = s[SchemaOf(r.p)]
      /\ Environments(t, r.p) = Environments(s, r.p)
      /\ \A e \in Environments(s, r.p) : t[ConfigOf(r.p, e)] = s[ConfigOf(r.p, e)]
  <2>1. \A path \in Files(s, r.p) : t[path] = s[path]
    BY <1>1, PlanExpects
  <2> QED BY <1>1, <2>1, PlanExpects DEF Files
<1>3. /\ \A e \in Environments(s, r.p) : Values(t, r.p, e) = Values(s, r.p, e)
      /\ t[ConfigOf(r.p, r.e)] = s[ConfigOf(r.p, r.e)]
  <2>1. r.e \in Env
    BY <1>1, OrderAssumption DEF Addable, Lowest, Env
  <2>2. r.e \in Environments(s, r.p)
    BY <1>1, <2>1 DEF Addable, Environments
  <2> QED BY <1>2, <2>2 DEF Values
<1>4. MoreKeys(t, r) = MoreKeys(s, r) /\ MoreValues(t, r) = MoreValues(s, r)
  BY <1>2, <1>3 DEF MoreKeys, MoreValues, Values
<1>5. Addable(t, r)
  BY <1>1, <1>2, <1>3, <1>4, KnownAlike DEF Addable, Has
<1>6. AddWrites(t, r) = AddWrites(s, r)
  BY <1>2, <1>3, <1>4 DEF AddWrites, SchemaWith, Values
<1> QED BY <1>1, <1>5, <1>6, AddOk, PlanIs

(* What a deletion of keys requires and writes.                            *)
FewerKeys(s, r) == Without(s[SchemaOf(r.p)].keys, r.keys)

Deletable(s, r) ==
  /\ Confirmed(s, r) /\ Known(s, r.p) /\ r.keys # {} /\ r.keys \subseteq Keys(s, r.p)
  /\ \A e \in Environments(s, r.p) :
       Validates(FewerKeys(s, r), Without(Values(s, r.p, e), r.keys))

DeleteWrites(s, r) == Merge(Stripped(s, r.p, r.keys), SchemaWith(s, r.p, FewerKeys(s, r)))

(* A deletion of keys: the plan, and alike on a store with the same files. *)
LEMMA DeleteOk ==
  ASSUME NEW s, NEW r
  PROVE  /\ Deletable(s, r) => DeleteKeys(s, r) = Plan(s, r.p, Files(s, r.p), DeleteWrites(s, r))
         /\ DeleteKeys(s, r).verdict = "ok" => Deletable(s, r)
<1>1. CASE Deletable(s, r)
  <2>1. DeleteKeys(s, r) = Plan(s, r.p, Files(s, r.p), DeleteWrites(s, r))
    BY <1>1 DEF DeleteKeys, Deletable, DeleteWrites, SchemaWith, Files, FewerKeys
  <2> QED BY <1>1, <2>1
<1>2. CASE ~ Deletable(s, r)
  <2>1. DeleteKeys(s, r) \in {Refused("invalid"), Refused("conflict"), Refused("would_orphan")}
    BY <1>2 DEF DeleteKeys, Deletable, FewerKeys
  <2> QED BY <1>2, <2>1, RefusedIs
<1> QED BY <1>1, <1>2

(* and their deletion.                                                     *)
LEMMA DeleteAlike ==
  ASSUME NEW s, NEW t, NEW r, DeleteKeys(s, r).verdict = "ok", Still(t, DeleteKeys(s, r))
  PROVE  /\ DeleteKeys(t, r).verdict = "ok" /\ Base(t, r.p) = Base(s, r.p)
         /\ DeleteKeys(t, r).writes = DeleteKeys(s, r).writes
<1>1. Deletable(s, r) /\ DeleteKeys(s, r) = Plan(s, r.p, Files(s, r.p), DeleteWrites(s, r))
  BY DeleteOk
<1>2. /\ t[Services] = s[Services] /\ t[SchemaOf(r.p)] = s[SchemaOf(r.p)]
      /\ Environments(t, r.p) = Environments(s, r.p)
      /\ \A e \in Environments(s, r.p) : t[ConfigOf(r.p, e)] = s[ConfigOf(r.p, e)]
  <2>1. \A path \in Files(s, r.p) : t[path] = s[path]
    BY <1>1, PlanExpects
  <2> QED BY <1>1, <2>1, PlanExpects DEF Files
<1>3. Base(t, r.p) = Base(s, r.p) /\ \A e \in Env : t[ConfigOf(r.p, e)] = s[ConfigOf(r.p, e)]
  BY <1>2, BaseAlike
<1>4. /\ \A e \in Env : Values(t, r.p, e) = Values(s, r.p, e)
      /\ FewerKeys(t, r) = FewerKeys(s, r)
  BY <1>2, <1>3 DEF Values, FewerKeys
<1>5. Deletable(t, r)
  <2>1. Environments(s, r.p) \subseteq Env
    BY DEF Environments
  <2> QED BY <1>1, <1>2, <1>3, <1>4, <2>1, KnownAlike DEF Deletable, Confirmed
<1>6. Stripped(t, r.p, r.keys) = Stripped(s, r.p, r.keys)
  <2> DEFINE hit == {e \in Environments(s, r.p) : DOMAIN Values(s, r.p, e) \cap r.keys # {}}
  <2>1. {e \in Environments(t, r.p) : DOMAIN Values(t, r.p, e) \cap r.keys # {}} = hit
    BY <1>2, <1>4 DEF Environments
  <2>2. \A path \in {ConfigOf(r.p, e) : e \in hit} : t[path] = s[path]
    BY <1>2
  <2> QED BY <2>1, <2>2 DEF Stripped
<1>7. DeleteWrites(t, r) = DeleteWrites(s, r)
  BY <1>2, <1>4, <1>6 DEF DeleteWrites, SchemaWith
<1> QED BY <1>1, <1>3, <1>5, <1>7, DeleteOk, PlanIs

-----------------------------------------------------------------------------
(* What the operations write is well formed.                               *)

Fits(w) ==
  /\ DOMAIN w \subseteq Path
  /\ Services \in DOMAIN w => w[Services] \in Registry
  /\ Flags \in DOMAIN w => w[Flags] \in FlagDocument \cup {Absent}
  /\ \A p \in Product :
       /\ SchemaOf(p) \in DOMAIN w => w[SchemaOf(p)] \in SchemaDocument \cup {Absent}
       /\ \A e \in Env : ConfigOf(p, e) \in DOMAIN w =>
                           w[ConfigOf(p, e)] \in ConfigDocument \cup {Absent}

(* Every kind of document has its path.                                    *)
LEMMA PathKinds ==
  /\ Services \in Path /\ Flags \in Path
  /\ \A p \in Product :
       SchemaOf(p) \in Path /\ ArchiveOf(p) \in Path /\ \A e \in Env : ConfigOf(p, e) \in Path
  BY DEF Path, ProductPaths, ConfigPaths

(* A store stays well formed when well-formed documents are written.       *)
LEMMA WellFormedMerge ==
  ASSUME NEW s, WellFormed(s), NEW w, Fits(w)
  PROVE  WellFormed(Merge(s, w))
<1>1. DOMAIN s = Path /\ DOMAIN w \subseteq Path
  BY DEF WellFormed, Fits
<1>2. Path = DOMAIN s \cup DOMAIN w
  BY <1>1
<1>3. DOMAIN Merge(s, w) = Path
  BY <1>2, MergeIs
<1>4. \A path \in Path : Merge(s, w)[path] = IF path \in DOMAIN w THEN w[path] ELSE s[path]
  BY <1>2, MergeIs
<1> QED BY <1>3, <1>4, PathKinds DEF WellFormed, Fits

(* Documents of one kind or another, written together and alone.           *)
LEMMA FitsMerge ==
  ASSUME NEW f, NEW g, Fits(f), Fits(g)
  PROVE  Fits(Merge(f, g))
<1>1. DOMAIN Merge(f, g) = DOMAIN f \cup DOMAIN g
  BY MergeIs
<1>2. \A path \in DOMAIN f \cup DOMAIN g :
        Merge(f, g)[path] = IF path \in DOMAIN g THEN g[path] ELSE f[path]
  BY MergeIs
<1> QED BY <1>1, <1>2 DEF Fits

(* No write is a write that fits.                                          *)
LEMMA FitsNothing == Fits(Nothing)
  BY DEF Fits, Nothing

(* One document fits if it is what its path holds;                         *)
LEMMA FitsSole ==
  ASSUME NEW path \in Path, NEW d,
         path = Services => d \in Registry,
         path = Flags => d \in FlagDocument,
         \A p \in Product : path = SchemaOf(p) => d \in SchemaDocument,
         \A p \in Product, e \in Env : path = ConfigOf(p, e) => d \in ConfigDocument
  PROVE  Fits(Sole(path, d))
<1>1. DOMAIN Sole(path, d) = {path} /\ Sole(path, d)[path] = d
  BY SoleIs
<1>2. \A x \in DOMAIN Sole(path, d) : x = path /\ Sole(path, d)[x] = d
  BY <1>1
<1> QED BY <1>1, <1>2 DEF Fits

(* an environment file,                                                    *)
LEMMA FitsConfig ==
  ASSUME NEW p \in Product, NEW e \in Env, NEW d \in ConfigDocument
  PROVE  Fits(Sole(ConfigOf(p, e), d))
  BY PathsDiffer, PathKinds, FitsSole

(* a schema,                                                               *)
LEMMA FitsSchema ==
  ASSUME NEW p \in Product, NEW d \in SchemaDocument
  PROVE  Fits(Sole(SchemaOf(p), d))
  BY PathsDiffer, PathKinds, FitsSole

(* the registry,                                                           *)
LEMMA FitsServices ==
  ASSUME NEW d \in Registry
  PROVE  Fits(Sole(Services, d))
  BY PathsDiffer, PathKinds, FitsSole

(* the flags,                                                              *)
LEMMA FitsFlags ==
  ASSUME NEW d \in FlagDocument
  PROVE  Fits(Sole(Flags, d))
  BY PathsDiffer, PathKinds, FitsSole

(* and an archive, which may be anything.                                  *)
LEMMA FitsArchive ==
  ASSUME NEW p \in Product, NEW d
  PROVE  Fits(Sole(ArchiveOf(p), d))
  BY PathsDiffer, PathKinds, FitsSole

(* Several environment files of a product.                                 *)
LEMMA FitsFiles ==
  ASSUME NEW p \in Product, NEW S \in SUBSET Env, NEW w, DOMAIN w = {ConfigOf(p, e) : e \in S},
         \A e \in S : w[ConfigOf(p, e)] \in ConfigDocument
  PROVE  Fits(w)
<1>1. DOMAIN w \subseteq Path
  BY PathKinds
<1>2. /\ Services \notin DOMAIN w /\ Flags \notin DOMAIN w
      /\ \A q \in Product : SchemaOf(q) \notin DOMAIN w
  BY PathsDiffer
<1>3. \A q \in Product, e \in Env :
        ConfigOf(q, e) \in DOMAIN w => w[ConfigOf(q, e)] \in ConfigDocument
  BY PathsDiffer
<1> QED BY <1>1, <1>2, <1>3 DEF Fits

(* The registry with one more product, and with one less.                  *)
LEMMA RegistryMerge ==
  ASSUME NEW f \in Registry, NEW p \in Product, NEW u \in Uid
  PROVE  Merge(f, Sole(p, u)) \in Registry
<1>1. DOMAIN f \in SUBSET Product /\ f \in [DOMAIN f -> Uid]
  BY DEF Registry
<1>2. Merge(f, Sole(p, u)) \in [DOMAIN f \cup {p} -> Uid]
  BY <1>1 DEF Merge, Sole
<1> QED BY <1>1, <1>2 DEF Registry

(* A registry with a product less is one.                                  *)
LEMMA RegistryWithout ==
  ASSUME NEW f \in Registry, NEW p
  PROVE  Without(f, {p}) \in Registry
<1>1. DOMAIN f \in SUBSET Product /\ f \in [DOMAIN f -> Uid]
  BY DEF Registry
<1>2. Without(f, {p}) \in [DOMAIN f \ {p} -> Uid]
  BY <1>1 DEF Without, Restrict
<1> QED BY <1>1, <1>2 DEF Registry

(* A new version of a file, the values of a file, the keys a schema        *)
(* declares.                                                               *)
LEMMA DocumentTyped ==
  ASSUME NEW old \in ConfigDocument \cup {Absent}, NEW values \in Fields(Text)
  PROVE  Document(old, values) \in ConfigDocument
  BY DEF Document, Bumped, ConfigDocument

(* The values of an environment are texts by key.                          *)
LEMMA ValuesTyped ==
  ASSUME NEW s, WellFormed(s), NEW p \in Product, NEW e \in Env
  PROVE  Values(s, p, e) \in Fields(Text)
  BY FieldsNothing DEF Values, ConfigOnly, WellFormed, ConfigDocument

(* What a schema declares are definitions by key.                          *)
LEMMA DeclaredTyped ==
  ASSUME NEW s, WellFormed(s), NEW p \in Product
  PROVE  /\ Declared(s, p) \in Fields(Definition)
         /\ Keys(s, p) \in SUBSET Key
         /\ Has(s, SchemaOf(p)) => /\ s[SchemaOf(p)] \in SchemaDocument
                                   /\ Declared(s, p) = s[SchemaOf(p)].keys
                                   /\ s[SchemaOf(p)].keys \in Fields(Definition)
<1>1. Declared(s, p) \in Fields(Definition)
  BY FieldsNothing DEF Declared, Has, WellFormed, SchemaDocument
<1>2. Has(s, SchemaOf(p)) => /\ s[SchemaOf(p)] \in SchemaDocument
                             /\ Declared(s, p) = s[SchemaOf(p)].keys
                             /\ s[SchemaOf(p)].keys \in Fields(Definition)
  BY DEF Declared, Has, WellFormed, SchemaDocument
<1> QED BY <1>1, <1>2, FieldsElim DEF Keys

(* A schema with other keys is a schema.                                   *)
LEMMA SchemaWithTyped ==
  ASSUME NEW s, WellFormed(s), NEW p \in Product, Has(s, SchemaOf(p)),
         NEW keys \in Fields(Definition)
  PROVE  /\ [s[SchemaOf(p)] EXCEPT !.keys = keys] \in SchemaDocument
         /\ [s[SchemaOf(p)] EXCEPT !.keys = keys].keys = keys
         /\ Fits(SchemaWith(s, p, keys))
<1>1. s[SchemaOf(p)] \in SchemaDocument
  BY DeclaredTyped
<1>2. /\ [s[SchemaOf(p)] EXCEPT !.keys = keys] \in SchemaDocument
      /\ [s[SchemaOf(p)] EXCEPT !.keys = keys].keys = keys
  BY <1>1 DEF SchemaDocument
<1> QED BY <1>2, FitsSchema DEF SchemaWith

(* The lowest environment and the next one are environments.               *)
LEMMA Environment ==
  /\ Lowest \in Env
  /\ \A e \in Env : NextEnv(e) # Absent => NextEnv(e) \in Env
<1>1. Lowest \in Env
  BY OrderAssumption DEF Lowest
<1>2. ASSUME NEW e \in Env, NextEnv(e) # Absent
      PROVE  NextEnv(e) \in Env
  <2> DEFINE i == CHOOSE j \in DOMAIN EnvOrder : EnvOrder[j] = e
  <2>1. i \in DOMAIN EnvOrder
    BY DEF Env
  <2>2. NextEnv(e) = IF i < Len(EnvOrder) THEN EnvOrder[i + 1] ELSE Absent
    BY DEF NextEnv
  <2>3. i < Len(EnvOrder) /\ NextEnv(e) = EnvOrder[i + 1]
    BY <1>2, <2>2
  <2> HIDE DEF i
  <2>4. i \in 1..Len(EnvOrder) /\ EnvOrder \in Seq(Env)
    BY <2>1, OrderAssumption
  <2> QED BY <2>3, <2>4
<1> QED BY <1>1, <1>2

(* The requests the routes post.                                           *)
Tag == ConfigDocument \cup {Absent}

SaveRequest ==
  [op : {"save"}, p : Product, e : Env, fields : Fields(Text), changes : Fields(Text), etag : Tag,
   again : BOOLEAN, touched : SUBSET Key]
PromoteRequest ==
  [op : {"promote"}, p : Product, e : Env, keys : SUBSET Key, fields : Fields(Text),
   touched : SUBSET Key]
DeleteRequest ==
  [op : {"delete"}, p : Product, e : Env, keys : SUBSET Key,
   base : UNION {Bases(p) : p \in Product}]
AddRequest == [op : {"add"}, p : Product, e : Env, drafts : Fields(Definition), etag : Tag]
RetireRequest == [op : {"retire"}, p : Product, e : Env, retiring : BOOLEAN, force : BOOLEAN]
ArchiveRequest ==
  [op : {"archive"}, p : Product, e : Env, base : UNION {Bases(p) : p \in Product},
   force : BOOLEAN]
NewRequest ==
  [op : {"new"}, p : Product, e : Env, uid : Uid, envs : SUBSET Env, drafts : Fields(Definition)]
FlagRequest ==
  [op : {"flag"}, flag : Flag, e : Env, value : BOOLEAN, etag : FlagDocument \cup {Absent, Any}]

Requests ==
  SaveRequest \cup PromoteRequest \cup DeleteRequest \cup AddRequest \cup RetireRequest
    \cup ArchiveRequest \cup NewRequest \cup FlagRequest

(* What each operation writes is well formed.                              *)
LEMMA ValuesWrittenFit ==
  ASSUME NEW s, WellFormed(s), NEW p \in Product, NEW e \in Env, NEW changes \in Fields(Text)
  PROVE  /\ Fits(ValuesWritten(s, p, e, changes))
         /\ NextValues(s, p, e, changes) \in Fields(Text)
<1>1. NextValues(s, p, e, changes) \in Fields(Text)
  BY ValuesTyped, FieldsMerge DEF NextValues
<1>2. s[ConfigOf(p, e)] \in ConfigDocument \cup {Absent}
  BY DEF WellFormed
<1>3. Document(s[ConfigOf(p, e)], NextValues(s, p, e, changes)) \in ConfigDocument
  BY <1>1, <1>2, DocumentTyped
<1> QED BY <1>1, <1>3, FitsConfig, FitsNothing DEF ValuesWritten

(* A save that is accepted: whence it was decided, and what it writes.     *)
LEMMA WriteValuesFit ==
  ASSUME NEW s, WellFormed(s), NEW r \in SaveRequest, WriteValues(s, r).verdict = "ok"
  PROVE  /\ Known(s, r.p) /\ Current(s, r.p, r.e, r.etag)
         /\ Validates(s[SchemaOf(r.p)].keys, NextValues(s, r.p, r.e, r.changes))
         /\ WriteValues(s, r).writes = ValuesWritten(s, r.p, r.e, r.changes)
         /\ Fits(WriteValues(s, r).writes)
<1>1. Known(s, r.p)
  BY RefusedIs DEF WriteValues
<1>2. WriteValues(s, r) = PlanValues(s, r.p, r.e, r.changes, r.etag, {})
  BY <1>1 DEF WriteValues
<1>3. PlanValues(s, r.p, r.e, r.changes, r.etag, {}).verdict = "ok"
  BY <1>2
<1>4. /\ Current(s, r.p, r.e, r.etag)
      /\ Validates(s[SchemaOf(r.p)].keys, NextValues(s, r.p, r.e, r.changes))
  BY <1>3, PlanValuesOk
<1>6. WriteValues(s, r).writes = ValuesWritten(s, r.p, r.e, r.changes)
  <2>1. PlanValues(s, r.p, r.e, r.changes, r.etag, {})
          = Plan(s, r.p, {} \cup {ConfigOf(r.p, r.e)}, ValuesWritten(s, r.p, r.e, r.changes))
    BY <1>4, PlanValuesIs
  <2> QED BY <1>2, <2>1, PlanIs
<1>5. r.p \in Product /\ r.e \in Env /\ r.changes \in Fields(Text)
  BY DEF SaveRequest
<1> QED BY <1>1, <1>4, <1>5, <1>6, ValuesWrittenFit

(* A promotion that is accepted.                                           *)
LEMMA PromoteFit ==
  ASSUME NEW s, WellFormed(s), NEW r \in PromoteRequest, Promote(s, r).verdict = "ok"
  PROVE  LET changes == Restrict(Values(s, r.p, r.e), r.keys) IN
         /\ Promotable(s, r) /\ NextEnv(r.e) \in Env /\ changes \in Fields(Text)
         /\ Validates(s[SchemaOf(r.p)].keys, NextValues(s, r.p, NextEnv(r.e), changes))
         /\ Promote(s, r).writes = ValuesWritten(s, r.p, NextEnv(r.e), changes)
         /\ Fits(Promote(s, r).writes)
<1> DEFINE changes == Restrict(Values(s, r.p, r.e), r.keys)
<1>1. Promotable(s, r) /\ Promote(s, r) = PromotePlan(s, r)
  BY PromoteOk
<1>2. r.p \in Product /\ r.e \in Env
  BY DEF PromoteRequest
<1>3. NextEnv(r.e) \in Env
  BY <1>1, <1>2, Environment DEF Promotable
<1>4. changes \in Fields(Text)
  BY <1>1, <1>2, ValuesTyped, FieldsRestrict DEF Promotable
<1>5. Promote(s, r) = PlanValues(s, r.p, NextEnv(r.e), changes, Any, {ConfigOf(r.p, r.e)})
  BY <1>1 DEF PromotePlan
<1>6. PlanValues(s, r.p, NextEnv(r.e), changes, Any, {ConfigOf(r.p, r.e)}).verdict = "ok"
  BY <1>5
<1>7. /\ Current(s, r.p, NextEnv(r.e), Any)
      /\ Validates(s[SchemaOf(r.p)].keys, NextValues(s, r.p, NextEnv(r.e), changes))
  BY <1>6, PlanValuesOk
<1>8. Promote(s, r).writes = ValuesWritten(s, r.p, NextEnv(r.e), changes)
  <2>1. Promote(s, r)
          = Plan(s, r.p, {ConfigOf(r.p, r.e)} \cup {ConfigOf(r.p, NextEnv(r.e))},
                 ValuesWritten(s, r.p, NextEnv(r.e), changes))
    BY <1>5, <1>7, PlanValuesIs
  <2> QED BY <2>1, PlanIs
<1> QED BY <1>1, <1>2, <1>3, <1>4, <1>7, <1>8, ValuesWrittenFit

(* An addition of keys that is accepted.                                   *)
LEMMA AddFit ==
  ASSUME NEW s, WellFormed(s), NEW r \in AddRequest, AddKeys(s, r).verdict = "ok"
  PROVE  /\ Addable(s, r) /\ AddKeys(s, r).writes = AddWrites(s, r)
         /\ Fits(AddWrites(s, r)) /\ r.e \in Environments(s, r.p)
         /\ MoreKeys(s, r) \in Fields(Definition)
<1>1. Addable(s, r) /\ AddKeys(s, r).writes = AddWrites(s, r)
  BY AddOk, PlanIs
<1>2. r.p \in Product /\ r.e \in Env /\ r.drafts \in Fields(Definition)
  BY DEF AddRequest
<1>3. Has(s, SchemaOf(r.p)) /\ Has(s, ConfigOf(r.p, r.e))
  BY <1>1 DEF Addable, Known
<1>4. r.e \in Environments(s, r.p)
  BY <1>2, <1>3 DEF Environments
<1>5. s[SchemaOf(r.p)].keys \in Fields(Definition)
  BY <1>2, <1>3, DeclaredTyped
<1>6. MoreKeys(s, r) \in Fields(Definition)
  BY <1>2, <1>5, FieldsMerge DEF MoreKeys
<1>7. Fits(SchemaWith(s, r.p, MoreKeys(s, r)))
  BY <1>2, <1>3, <1>6, SchemaWithTyped
<1>8. MoreValues(s, r) \in Fields(Text)
  <2>1. Values(s, r.p, r.e) \in Fields(Text) /\ DefaultsFor(r.drafts) \in Fields(Text)
    BY <1>2, ValuesTyped, FieldsDefaults
  <2> QED BY <2>1, FieldsMerge DEF MoreValues
<1>9. Document(s[ConfigOf(r.p, r.e)], MoreValues(s, r)) \in ConfigDocument
  <2>1. s[ConfigOf(r.p, r.e)] \in ConfigDocument \cup {Absent}
    BY <1>2 DEF WellFormed
  <2> QED BY <1>8, <2>1, DocumentTyped
<1>10. Fits(Sole(ConfigOf(r.p, r.e), Document(s[ConfigOf(r.p, r.e)], MoreValues(s, r))))
  BY <1>2, <1>9, FitsConfig
<1> QED BY <1>1, <1>4, <1>6, <1>7, <1>10, FitsMerge DEF AddWrites

(* The environments that hold one of the keys.                             *)
Hit(s, p, K) == {e \in Environments(s, p) : DOMAIN Values(s, p, e) \cap K # {}}

(* What a deletion makes of the files that hold one of its keys.           *)
Strips(s, p, K) ==
  /\ DOMAIN Stripped(s, p, K) = {ConfigOf(p, e) : e \in Hit(s, p, K)}
  /\ \A e \in Hit(s, p, K) :
       /\ Stripped(s, p, K)[ConfigOf(p, e)] \in ConfigDocument
       /\ Stripped(s, p, K)[ConfigOf(p, e)].values = Without(Values(s, p, e), K)

(* The files a deletion rewrites: those that hold one of the keys, without *)
(* them.                                                                   *)
LEMMA StrippedIs ==
  ASSUME NEW s, WellFormed(s), NEW p \in Product, NEW K
  PROVE  Strips(s, p, K)
<1>1. Stripped(s, p, K) = [path \in {ConfigOf(p, e) : e \in Hit(s, p, K)} |->
                             Document(s[path], Without(ConfigOnly(s[path]), K))]
  BY DEF Stripped, Hit
<1>2. ASSUME NEW e \in Hit(s, p, K)
      PROVE  /\ Stripped(s, p, K)[ConfigOf(p, e)] \in ConfigDocument
             /\ Stripped(s, p, K)[ConfigOf(p, e)].values = Without(Values(s, p, e), K)
  <2>1. e \in Env
    BY DEF Environments, Hit
  <2>2. s[ConfigOf(p, e)] \in ConfigDocument \cup {Absent}
    BY <2>1 DEF WellFormed
  <2>3. Without(Values(s, p, e), K) \in Fields(Text)
    BY <2>1, ValuesTyped, FieldsWithout
  <2>4. Document(s[ConfigOf(p, e)], Without(Values(s, p, e), K)) \in ConfigDocument
    BY <2>2, <2>3, DocumentTyped
  <2>5. Stripped(s, p, K)[ConfigOf(p, e)]
          = Document(s[ConfigOf(p, e)], Without(Values(s, p, e), K))
    BY <1>1 DEF Values
  <2> QED BY <2>4, <2>5 DEF Document
<1> QED BY <1>1, <1>2 DEF Strips

(* A deletion of keys that is accepted.                                    *)
LEMMA DeleteFit ==
  ASSUME NEW s, WellFormed(s), NEW r \in DeleteRequest, DeleteKeys(s, r).verdict = "ok"
  PROVE  /\ Deletable(s, r) /\ DeleteKeys(s, r).writes = DeleteWrites(s, r)
         /\ Fits(DeleteWrites(s, r)) /\ FewerKeys(s, r) \in Fields(Definition)
<1>1. Deletable(s, r) /\ DeleteKeys(s, r).writes = DeleteWrites(s, r)
  BY DeleteOk, PlanIs
<1>2. r.p \in Product
  BY DEF DeleteRequest
<1>3. Has(s, SchemaOf(r.p))
  BY <1>1 DEF Deletable, Known
<1>4. FewerKeys(s, r) \in Fields(Definition)
  BY <1>2, <1>3, DeclaredTyped, FieldsWithout DEF FewerKeys
<1>5. Fits(SchemaWith(s, r.p, FewerKeys(s, r)))
  BY <1>2, <1>3, <1>4, SchemaWithTyped
<1>6. Fits(Stripped(s, r.p, r.keys))
  <2>1. Hit(s, r.p, r.keys) \in SUBSET Env
    BY DEF Environments, Hit
  <2>2. DOMAIN Stripped(s, r.p, r.keys) = {ConfigOf(r.p, e) : e \in Hit(s, r.p, r.keys)}
    BY <1>2, StrippedIs, ZenonT(60) DEF Strips
  <2>3. \A e \in Hit(s, r.p, r.keys) : Stripped(s, r.p, r.keys)[ConfigOf(r.p, e)] \in ConfigDocument
    BY <1>2, StrippedIs DEF Strips
  <2> QED BY <1>2, <2>1, <2>2, <2>3, FitsFiles
<1> QED BY <1>1, <1>4, <1>5, <1>6, FitsMerge DEF DeleteWrites

(* A schema that is marked as retiring, or no more.                        *)
LEMMA RetireFit ==
  ASSUME NEW s, WellFormed(s), NEW r \in RetireRequest, Known(s, r.p)
  PROVE  /\ [s[SchemaOf(r.p)] EXCEPT !.retiring = r.retiring] \in SchemaDocument
         /\ Fits(RetireWrites(s, r))
<1>1. r.p \in Product /\ r.retiring \in BOOLEAN
  BY DEF RetireRequest
<1>2. s[SchemaOf(r.p)] \in SchemaDocument
  BY <1>1, DeclaredTyped DEF Known
<1>3. [s[SchemaOf(r.p)] EXCEPT !.retiring = r.retiring] \in SchemaDocument
  BY <1>1, <1>2 DEF SchemaDocument
<1> QED BY <1>1, <1>3, FitsSchema DEF RetireWrites

(* What an archive writes.                                                 *)
LEMMA ArchiveFit ==
  ASSUME NEW s, WellFormed(s), NEW r \in ArchiveRequest
  PROVE  Fits(ArchiveWrites(s, r))
<1>1. r.p \in Product
  BY DEF ArchiveRequest
<1>2. Fits(Sole(Services, Without(s[Services], {r.p})))
  BY RegistryWithout, FitsServices DEF WellFormed
<1>3. Fits(Sole(ArchiveOf(r.p), Base(s, r.p)))
  BY <1>1, FitsArchive
<1>4. Fits(Removed(s, r.p))
  <2>1. /\ DOMAIN Removed(s, r.p)
             = {SchemaOf(r.p)} \cup {ConfigOf(r.p, e) : e \in Environments(s, r.p)}
        /\ \A path \in DOMAIN Removed(s, r.p) : Removed(s, r.p)[path] = Absent
    BY DEF Removed
  <2>2. Environments(s, r.p) \subseteq Env
    BY DEF Environments
  <2>3. DOMAIN Removed(s, r.p) \subseteq Path
    BY <1>1, <2>1, <2>2, PathKinds
  <2>4. Services \notin DOMAIN Removed(s, r.p)
    BY <2>1, PathsDiffer
  <2> QED BY <2>1, <2>3, <2>4 DEF Fits
<1> QED BY <1>2, <1>3, <1>4, FitsMerge DEF ArchiveWrites

(* What a creation writes.                                                 *)
LEMMA CreateFit ==
  ASSUME NEW s, WellFormed(s), NEW r \in NewRequest, Creatable(s, r)
  PROVE  Fits(CreateWrites(s, r)) /\ FreshFile(r) \in ConfigDocument
<1>1. r.p \in Product /\ r.uid \in Uid /\ r.envs \in SUBSET Env /\ r.drafts \in Fields(Definition)
  BY DEF NewRequest
<1>2. FreshFile(r) \in ConfigDocument
  BY <1>1, FieldsDefaults DEF FreshFile, ConfigDocument
<1>3. Fits([path \in {ConfigOf(r.p, e) : e \in r.envs} |-> FreshFile(r)])
  <2> DEFINE w == [path \in {ConfigOf(r.p, e) : e \in r.envs} |-> FreshFile(r)]
  <2>1. DOMAIN w = {ConfigOf(r.p, e) : e \in r.envs}
    OBVIOUS
  <2>2. \A e \in r.envs : w[ConfigOf(r.p, e)] \in ConfigDocument
    BY <1>2
  <2> HIDE DEF w
  <2>3. Fits(w)
    BY <1>1, <2>1, <2>2, FitsFiles
  <2> QED BY <2>3 DEF w
<1>4. Fits(Sole(SchemaOf(r.p), [keys |-> r.drafts, retiring |-> FALSE]))
  BY <1>1, FitsSchema DEF SchemaDocument
<1>5. Fits(Sole(Services, Merge(s[Services], Sole(r.p, r.uid))))
  <2>1. s[Services] \in Registry
    BY DEF WellFormed
  <2>2. Merge(s[Services], Sole(r.p, r.uid)) \in Registry
    BY <1>1, <2>1, RegistryMerge
  <2> QED BY <2>2, FitsServices
<1>6. Fits(Merge(Sole(SchemaOf(r.p), [keys |-> r.drafts, retiring |-> FALSE]),
                 Sole(Services, Merge(s[Services], Sole(r.p, r.uid)))))
  BY <1>4, <1>5, FitsMerge
<1> QED BY <1>2, <1>3, <1>6, FitsMerge DEF CreateWrites

(* A flag is written to the flags and nowhere else.                        *)
LEMMA FlagFit ==
  ASSUME NEW s, WellFormed(s), NEW r \in FlagRequest
  PROVE  Fits(SetFlag(s, r).writes) /\ DOMAIN SetFlag(s, r).writes = {Flags}
<1> DEFINE held == IF Has(s, Flags) THEN s[Flags] ELSE Nothing
           next == Merge(held, Sole(<<r.flag, r.e>>, r.value))
<1>1. r.flag \in Flag /\ r.e \in Env /\ r.value \in BOOLEAN
  BY DEF FlagRequest
<1>2. held \in FlagDocument
  <2>1. CASE Has(s, Flags)
    BY <2>1 DEF WellFormed, Has
  <2>2. CASE ~ Has(s, Flags)
    <3>1. Nothing \in [{} -> BOOLEAN]
      BY DEF Nothing
    <3> QED BY <2>2, <3>1 DEF FlagDocument
  <2> QED BY <2>1, <2>2
<1>3. DOMAIN held \in SUBSET (Flag \X Env) /\ held \in [DOMAIN held -> BOOLEAN]
  BY <1>2 DEF FlagDocument
<1> HIDE DEF held
<1>4. next \in [DOMAIN held \cup {<<r.flag, r.e>>} -> BOOLEAN]
  BY <1>1, <1>3 DEF Merge, Sole
<1>5. DOMAIN held \cup {<<r.flag, r.e>>} \in SUBSET (Flag \X Env)
  BY <1>1, <1>3
<1>6. next \in FlagDocument
  BY <1>4, <1>5 DEF FlagDocument
<1>7. SetFlag(s, r).writes = Sole(Flags, next)
  BY DEF SetFlag, held
<1> QED BY <1>6, <1>7, FitsFlags, SoleIs, SMTT(30)

-----------------------------------------------------------------------------
(* What the operations leave.                                              *)

(* The store after a commit.                                               *)
LEMMA AfterMerge ==
  ASSUME NEW s, WellFormed(s), NEW w, Fits(w)
  PROVE  \A path \in Path : Merge(s, w)[path] = IF path \in DOMAIN w THEN w[path] ELSE s[path]
<1>1. DOMAIN s = Path /\ DOMAIN w \subseteq Path
  BY DEF WellFormed, Fits
<1>2. Path = DOMAIN s \cup DOMAIN w
  BY <1>1
<1> QED BY <1>2, MergeIs

(* The documents of one product, other than the registry.                  *)
Own(p) == {SchemaOf(p)} \cup ConfigPaths(p)

(* A change of one product leaves the documents of the others.             *)
LEMMA OthersKept ==
  ASSUME NEW s, WellFormed(s), NEW w, Fits(w), NEW p \in Product,
         DOMAIN w \subseteq Own(p) \cup {Services, ArchiveOf(p)}
  PROVE  \A q \in Product \ {p} :
           /\ Merge(s, w)[SchemaOf(q)] = s[SchemaOf(q)]
           /\ \A e \in Env : Merge(s, w)[ConfigOf(q, e)] = s[ConfigOf(q, e)]
           /\ Environments(Merge(s, w), q) = Environments(s, q)
<1> SUFFICES ASSUME NEW q \in Product \ {p}
             PROVE  /\ Merge(s, w)[SchemaOf(q)] = s[SchemaOf(q)]
                    /\ \A e \in Env : Merge(s, w)[ConfigOf(q, e)] = s[ConfigOf(q, e)]
                    /\ Environments(Merge(s, w), q) = Environments(s, q)
  OBVIOUS
<1>1. SchemaOf(q) \notin DOMAIN w
  BY PathsDiffer DEF Own, ConfigPaths
<1>2. \A e \in Env : ConfigOf(q, e) \notin DOMAIN w
  BY PathsDiffer DEF Own, ConfigPaths
<1>3. /\ Merge(s, w)[SchemaOf(q)] = s[SchemaOf(q)]
      /\ \A e \in Env : Merge(s, w)[ConfigOf(q, e)] = s[ConfigOf(q, e)]
  BY <1>1, <1>2, AfterMerge, PathKinds
<1> QED BY <1>3 DEF Environments, Has

(* A change to a product that is registered and stays so.                  *)
LEMMA EditKeepsWhole ==
  ASSUME NEW s, WellFormed(s), Whole(s), NEW w, Fits(w), NEW p \in Product, Known(s, p),
         DOMAIN w \subseteq Own(p),
         SchemaOf(p) \in DOMAIN w => w[SchemaOf(p)] # Absent
  PROVE  Whole(Merge(s, w))
<1> DEFINE t == Merge(s, w)
<1>1. Services \notin DOMAIN w
  BY PathsDiffer DEF Own, ConfigPaths
<1>2. t[Services] = s[Services]
  BY <1>1, AfterMerge, PathKinds
<1>3. Has(t, SchemaOf(p))
  BY AfterMerge, PathKinds DEF Has, Known
<1>4. \A q \in Product \ {p} :
        t[SchemaOf(q)] = s[SchemaOf(q)] /\ Environments(t, q) = Environments(s, q)
  BY OthersKept
<1>5. p \in Registered(s)
  BY DEF Known
<1> HIDE DEF t
<1>6. Whole(t)
  BY <1>2, <1>3, <1>4, <1>5 DEF Whole, Registered, Has
<1> QED BY <1>6 DEF t

(* A change of values writes one environment file at most.                 *)
LEMMA ValuesWrittenOwn ==
  ASSUME NEW s, NEW p, NEW e \in Env, NEW changes
  PROVE  /\ DOMAIN ValuesWritten(s, p, e, changes) \subseteq {ConfigOf(p, e)}
         /\ ConfigOf(p, e) \in Own(p)
         /\ SchemaOf(p) \notin DOMAIN ValuesWritten(s, p, e, changes)
<1>1. DOMAIN ValuesWritten(s, p, e, changes) \subseteq {ConfigOf(p, e)}
  BY SoleIs DEF ValuesWritten, Nothing
<1> QED BY <1>1, PathsDiffer DEF Own, ConfigPaths

(* The edits of a registered product keep products whole.                  *)
LEMMA SaveWhole ==
  ASSUME NEW s, WellFormed(s), Whole(s), NEW r \in SaveRequest, WriteValues(s, r).verdict = "ok"
  PROVE  Whole(Merge(s, WriteValues(s, r).writes))
<1>1. r.p \in Product /\ r.e \in Env
  BY DEF SaveRequest
<1> QED BY <1>1, WriteValuesFit, ValuesWrittenOwn, EditKeepsWhole

(* A promotion leaves the products whole.                                  *)
LEMMA PromoteWhole ==
  ASSUME NEW s, WellFormed(s), Whole(s), NEW r \in PromoteRequest, Promote(s, r).verdict = "ok"
  PROVE  Whole(Merge(s, Promote(s, r).writes))
<1> DEFINE changes == Restrict(Values(s, r.p, r.e), r.keys)
           w == ValuesWritten(s, r.p, NextEnv(r.e), changes)
<1>1. r.p \in Product
  BY DEF PromoteRequest
<1>2. /\ Known(s, r.p) /\ NextEnv(r.e) \in Env /\ Promote(s, r).writes = w /\ Fits(w)
  BY PromoteFit DEF Promotable
<1>3. DOMAIN w \subseteq Own(r.p) /\ SchemaOf(r.p) \notin DOMAIN w
  BY <1>2, ValuesWrittenOwn
<1> HIDE DEF w
<1> QED BY <1>1, <1>2, <1>3, EditKeepsWhole

(* The documents an addition writes.                                       *)
LEMMA AddWritesIs ==
  ASSUME NEW s, NEW r
  PROVE  /\ DOMAIN AddWrites(s, r) \subseteq {SchemaOf(r.p), ConfigOf(r.p, r.e)}
         /\ AddWrites(s, r)[SchemaOf(r.p)]
              = [s[SchemaOf(r.p)] EXCEPT !.keys = MoreKeys(s, r)]
         /\ SchemaOf(r.p) \in DOMAIN AddWrites(s, r)
         /\ ConfigOf(r.p, r.e) \in DOMAIN AddWrites(s, r) =>
              AddWrites(s, r)[ConfigOf(r.p, r.e)]
                = Document(s[ConfigOf(r.p, r.e)], MoreValues(s, r))
         /\ ConfigOf(r.p, r.e) \notin DOMAIN AddWrites(s, r) =>
              MoreValues(s, r) = Values(s, r.p, r.e)
<1> DEFINE file == SchemaWith(s, r.p, MoreKeys(s, r))
           more == Sole(ConfigOf(r.p, r.e), Document(s[ConfigOf(r.p, r.e)], MoreValues(s, r)))
<1>1. SchemaOf(r.p) # ConfigOf(r.p, r.e)
  BY PathsDiffer
<1>2. /\ DOMAIN file = {SchemaOf(r.p)}
      /\ file[SchemaOf(r.p)] = [s[SchemaOf(r.p)] EXCEPT !.keys = MoreKeys(s, r)]
  BY SoleIs DEF SchemaWith
<1>3. /\ DOMAIN more = {ConfigOf(r.p, r.e)}
      /\ more[ConfigOf(r.p, r.e)] = Document(s[ConfigOf(r.p, r.e)], MoreValues(s, r))
  BY SoleIs
<1>4. AddWrites(s, r) = IF MoreValues(s, r) = Values(s, r.p, r.e) THEN file ELSE Merge(file, more)
  BY DEF AddWrites
<1> HIDE DEF file, more
<1>5. CASE MoreValues(s, r) = Values(s, r.p, r.e)
  BY <1>1, <1>2, <1>4, <1>5
<1>6. CASE MoreValues(s, r) # Values(s, r.p, r.e)
  <2>1. DOMAIN Merge(file, more) = {SchemaOf(r.p), ConfigOf(r.p, r.e)}
    <3>1. DOMAIN Merge(file, more) = DOMAIN file \cup DOMAIN more
      BY MergeDomain
    <3> QED BY <3>1, <1>2, <1>3
  <2>2. /\ Merge(file, more)[SchemaOf(r.p)] = file[SchemaOf(r.p)]
        /\ Merge(file, more)[ConfigOf(r.p, r.e)] = more[ConfigOf(r.p, r.e)]
    BY <1>1, <1>2, <1>3, MergeHas, MergeKeeps
  <2> QED BY <1>2, <1>3, <1>4, <1>6, <2>1, <2>2
<1> QED BY <1>5, <1>6

(* So does an addition of keys,                                            *)
LEMMA AddWhole ==
  ASSUME NEW s, WellFormed(s), Whole(s), NEW r \in AddRequest, AddKeys(s, r).verdict = "ok"
  PROVE  Whole(Merge(s, AddKeys(s, r).writes))
<1>1. r.p \in Product /\ r.e \in Env
  BY DEF AddRequest
<1>2. /\ Known(s, r.p) /\ AddKeys(s, r).writes = AddWrites(s, r)
      /\ Fits(AddWrites(s, r)) /\ MoreKeys(s, r) \in Fields(Definition)
  BY AddFit DEF Addable
<1>3. DOMAIN AddWrites(s, r) \subseteq Own(r.p)
  BY <1>1, AddWritesIs, ZenonT(30) DEF Own, ConfigPaths
<1>4. AddWrites(s, r)[SchemaOf(r.p)] # Absent
  <2>1. [s[SchemaOf(r.p)] EXCEPT !.keys = MoreKeys(s, r)] \in SchemaDocument
    BY <1>1, <1>2, SchemaWithTyped DEF Known
  <2> QED BY <2>1, AddWritesIs, DataAssumption
<1> QED BY <1>1, <1>2, <1>3, <1>4, EditKeepsWhole

(* The documents a deletion writes.                                        *)
LEMMA DeleteWritesIs ==
  ASSUME NEW s, WellFormed(s), NEW r, r.p \in Product
  PROVE  /\ DOMAIN DeleteWrites(s, r)
              = {ConfigOf(r.p, e) : e \in Hit(s, r.p, r.keys)} \cup {SchemaOf(r.p)}
         /\ DeleteWrites(s, r)[SchemaOf(r.p)]
              = [s[SchemaOf(r.p)] EXCEPT !.keys = FewerKeys(s, r)]
         /\ \A e \in Hit(s, r.p, r.keys) :
              /\ DeleteWrites(s, r)[ConfigOf(r.p, e)] \in ConfigDocument
              /\ DeleteWrites(s, r)[ConfigOf(r.p, e)].values
                   = Without(Values(s, r.p, e), r.keys)
<1> DEFINE f == Stripped(s, r.p, r.keys)
           g == SchemaWith(s, r.p, FewerKeys(s, r))
<1>1. /\ DOMAIN f = {ConfigOf(r.p, e) : e \in Hit(s, r.p, r.keys)}
      /\ \A e \in Hit(s, r.p, r.keys) :
           /\ f[ConfigOf(r.p, e)] \in ConfigDocument
           /\ f[ConfigOf(r.p, e)].values = Without(Values(s, r.p, e), r.keys)
  <2>1. Strips(s, r.p, r.keys)
    BY StrippedIs
  <2> QED BY <2>1 DEF Strips
<1>2. /\ DOMAIN g = {SchemaOf(r.p)}
      /\ g[SchemaOf(r.p)] = [s[SchemaOf(r.p)] EXCEPT !.keys = FewerKeys(s, r)]
  BY SoleIs DEF SchemaWith
<1>3. DeleteWrites(s, r) = Merge(f, g)
  BY DEF DeleteWrites
<1> HIDE DEF f, g
<1>4. DOMAIN Merge(f, g) = DOMAIN f \cup DOMAIN g
  BY MergeDomain
<1>5. Merge(f, g)[SchemaOf(r.p)] = g[SchemaOf(r.p)]
  BY <1>2, MergeHas
<1>6. \A e \in Hit(s, r.p, r.keys) : Merge(f, g)[ConfigOf(r.p, e)] = f[ConfigOf(r.p, e)]
  BY <1>1, <1>2, PathsDiffer, MergeKeeps
<1> QED BY <1>1, <1>2, <1>3, <1>4, <1>5, <1>6

(* a deletion of keys,                                                     *)
LEMMA DeleteWhole ==
  ASSUME NEW s, WellFormed(s), Whole(s), NEW r \in DeleteRequest, DeleteKeys(s, r).verdict = "ok"
  PROVE  Whole(Merge(s, DeleteKeys(s, r).writes))
<1>1. r.p \in Product
  BY DEF DeleteRequest
<1>2. /\ Known(s, r.p) /\ DeleteKeys(s, r).writes = DeleteWrites(s, r)
      /\ Fits(DeleteWrites(s, r)) /\ FewerKeys(s, r) \in Fields(Definition)
  BY DeleteFit DEF Deletable
<1>3. DOMAIN DeleteWrites(s, r) \subseteq Own(r.p)
  <2>1. Hit(s, r.p, r.keys) \subseteq Env
    BY DEF Hit, Environments
  <2>2. DOMAIN DeleteWrites(s, r)
          = {ConfigOf(r.p, e) : e \in Hit(s, r.p, r.keys)} \cup {SchemaOf(r.p)}
    BY <1>1, DeleteWritesIs
  <2> QED BY <2>1, <2>2 DEF Own, ConfigPaths
<1>4. DeleteWrites(s, r)[SchemaOf(r.p)] # Absent
  <2>1. [s[SchemaOf(r.p)] EXCEPT !.keys = FewerKeys(s, r)] \in SchemaDocument
    BY <1>1, <1>2, SchemaWithTyped DEF Known
  <2> QED BY <1>1, <2>1, DeleteWritesIs, DataAssumption
<1> QED BY <1>1, <1>2, <1>3, <1>4, EditKeepsWhole

(* and the mark of retiring.                                               *)
LEMMA RetireWhole ==
  ASSUME NEW s, WellFormed(s), Whole(s), NEW r \in RetireRequest, Known(s, r.p)
  PROVE  Whole(Merge(s, RetireWrites(s, r)))
<1>1. r.p \in Product
  BY DEF RetireRequest
<1>2. /\ DOMAIN RetireWrites(s, r) = {SchemaOf(r.p)}
      /\ RetireWrites(s, r)[SchemaOf(r.p)]
           = [s[SchemaOf(r.p)] EXCEPT !.retiring = r.retiring]
  BY SoleIs DEF RetireWrites
<1>3. Fits(RetireWrites(s, r)) /\ RetireWrites(s, r)[SchemaOf(r.p)] # Absent
  BY <1>2, RetireFit, DataAssumption
<1>4. DOMAIN RetireWrites(s, r) \subseteq Own(r.p)
  BY <1>2 DEF Own
<1> QED BY <1>1, <1>3, <1>4, EditKeepsWhole

(* A change that leaves the products alone.                                *)
LEMMA FlagWhole ==
  ASSUME NEW s, WellFormed(s), Whole(s), NEW w, Fits(w), DOMAIN w = {Flags}
  PROVE  Whole(Merge(s, w))
<1> DEFINE t == Merge(s, w)
<1>2. \A path \in Path : path # Flags => t[path] = s[path]
  BY AfterMerge
<1>3. t[Services] = s[Services] /\ \A p \in Product :
        t[SchemaOf(p)] = s[SchemaOf(p)] /\ \A e \in Env : t[ConfigOf(p, e)] = s[ConfigOf(p, e)]
  BY <1>2, PathKinds, PathsDiffer
<1> HIDE DEF t
<1>4. Whole(t)
  BY <1>3 DEF Whole, Registered, Has, Environments
<1> QED BY <1>4 DEF t

(* The documents an archive writes.                                        *)
LEMMA ArchiveWritesIs ==
  ASSUME NEW s, NEW r
  PROVE  /\ DOMAIN ArchiveWrites(s, r)
              = {SchemaOf(r.p)} \cup {ConfigOf(r.p, e) : e \in Environments(s, r.p)}
                  \cup {Services, ArchiveOf(r.p)}
         /\ ArchiveWrites(s, r)[Services] = Without(s[Services], {r.p})
         /\ ArchiveWrites(s, r)[ArchiveOf(r.p)] = Base(s, r.p)
         /\ ArchiveWrites(s, r)[SchemaOf(r.p)] = Absent
         /\ \A e \in Environments(s, r.p) : ArchiveWrites(s, r)[ConfigOf(r.p, e)] = Absent
<1> DEFINE f == Removed(s, r.p)
           g == Sole(Services, Without(s[Services], {r.p}))
           h == Sole(ArchiveOf(r.p), Base(s, r.p))
<1>1. /\ DOMAIN f = {SchemaOf(r.p)} \cup {ConfigOf(r.p, e) : e \in Environments(s, r.p)}
      /\ \A path \in DOMAIN f : f[path] = Absent
  BY DEF Removed
<1>2. DOMAIN g = {Services} /\ g[Services] = Without(s[Services], {r.p})
  BY SoleIs
<1>3. DOMAIN h = {ArchiveOf(r.p)} /\ h[ArchiveOf(r.p)] = Base(s, r.p)
  BY SoleIs
<1>4. ArchiveWrites(s, r) = Merge(f, Merge(g, h))
  BY DEF ArchiveWrites
<1> HIDE DEF f, g, h
<1> DEFINE m == Merge(g, h)
<1>5. DOMAIN m = DOMAIN g \cup DOMAIN h
  BY MergeDomain
<1>6. m[Services] = g[Services]
  BY <1>2, <1>3, PathsDiffer, MergeKeeps
<1>7. m[ArchiveOf(r.p)] = h[ArchiveOf(r.p)]
  BY <1>3, MergeHas
<1>8. ArchiveWrites(s, r) = Merge(f, m)
  BY <1>4
<1> HIDE DEF m
<1>9. DOMAIN Merge(f, m) = DOMAIN f \cup DOMAIN m
  BY MergeDomain
<1>10. /\ Merge(f, m)[Services] = m[Services]
       /\ Merge(f, m)[ArchiveOf(r.p)] = m[ArchiveOf(r.p)]
  BY <1>2, <1>3, <1>5, MergeHas
<1>11. \A path \in DOMAIN f : path \notin DOMAIN m
  BY <1>1, <1>2, <1>3, <1>5, PathsDiffer
<1>12. \A path \in DOMAIN f : Merge(f, m)[path] = Absent
  BY <1>1, <1>11, MergeKeeps
<1>13. DOMAIN m = {Services, ArchiveOf(r.p)}
  BY <1>2, <1>3, <1>5
<1>14. /\ SchemaOf(r.p) \in DOMAIN f
       /\ \A e \in Environments(s, r.p) : ConfigOf(r.p, e) \in DOMAIN f
  BY <1>1
<1>15. DOMAIN Merge(f, m)
         = {SchemaOf(r.p)} \cup {ConfigOf(r.p, e) : e \in Environments(s, r.p)}
             \cup {Services, ArchiveOf(r.p)}
  BY <1>1, <1>9, <1>13
<1> QED BY <1>2, <1>3, <1>6, <1>7, <1>8, <1>10, <1>12, <1>14, <1>15

(* The other products stay, the archived one leaves nothing behind.        *)
LEMMA ArchiveOwn ==
  ASSUME NEW s, NEW r
  PROVE  DOMAIN ArchiveWrites(s, r) \subseteq Own(r.p) \cup {Services, ArchiveOf(r.p)}
<1>1. Environments(s, r.p) \subseteq Env
  BY DEF Environments
<1>2. DOMAIN ArchiveWrites(s, r)
        = {SchemaOf(r.p)} \cup {ConfigOf(r.p, e) : e \in Environments(s, r.p)}
            \cup {Services, ArchiveOf(r.p)}
  BY ArchiveWritesIs
<1> QED BY <1>1, <1>2 DEF Own, ConfigPaths

(* An archive leaves the other products alone,                             *)
LEMMA ArchiveOthers ==
  ASSUME NEW s, WellFormed(s), NEW r \in ArchiveRequest
  PROVE  \A q \in Product \ {r.p} :
           /\ Merge(s, ArchiveWrites(s, r))[SchemaOf(q)] = s[SchemaOf(q)]
           /\ \A e \in Env : Merge(s, ArchiveWrites(s, r))[ConfigOf(q, e)] = s[ConfigOf(q, e)]
           /\ Environments(Merge(s, ArchiveWrites(s, r)), q) = Environments(s, q)
<1>1. r.p \in Product /\ Fits(ArchiveWrites(s, r))
  BY ArchiveFit DEF ArchiveRequest
<1> QED BY <1>1, ArchiveOwn, OthersKept

(* and nothing of its own.                                                 *)
LEMMA ArchiveLeaves ==
  ASSUME NEW s, WellFormed(s), NEW r \in ArchiveRequest
  PROVE  /\ Merge(s, ArchiveWrites(s, r))[Services] = Without(s[Services], {r.p})
         /\ Merge(s, ArchiveWrites(s, r))[SchemaOf(r.p)] = Absent
         /\ Environments(Merge(s, ArchiveWrites(s, r)), r.p) = {}
<1> DEFINE w == ArchiveWrites(s, r)
           t == Merge(s, w)
<1>1. r.p \in Product
  BY DEF ArchiveRequest
<1>2. Fits(w)
  BY ArchiveFit
<1>3. /\ DOMAIN w = {SchemaOf(r.p)} \cup {ConfigOf(r.p, e) : e \in Environments(s, r.p)}
                      \cup {Services, ArchiveOf(r.p)}
      /\ w[Services] = Without(s[Services], {r.p})
      /\ w[SchemaOf(r.p)] = Absent
      /\ \A e \in Environments(s, r.p) : w[ConfigOf(r.p, e)] = Absent
  BY ArchiveWritesIs, ZenonT(30)
<1> HIDE DEF w
<1>6. t[Services] = Without(s[Services], {r.p}) /\ t[SchemaOf(r.p)] = Absent
  BY <1>1, <1>2, <1>3, AfterMerge, PathKinds
<1>7. Environments(t, r.p) = {}
  <2>1. ASSUME NEW e \in Env
        PROVE  t[ConfigOf(r.p, e)] = Absent
    <3>1. ConfigOf(r.p, e) \in Path
      BY <1>1, PathKinds
    <3>2. CASE e \in Environments(s, r.p)
      BY <1>2, <1>3, <3>1, <3>2, AfterMerge
    <3>3. CASE e \notin Environments(s, r.p)
      <4>1. ConfigOf(r.p, e) \notin DOMAIN w
        BY <1>3, <3>3, PathsDiffer
      <4> QED BY <1>2, <3>1, <3>3, <4>1, AfterMerge DEF Environments, Has
    <3> QED BY <3>2, <3>3
  <2> QED BY <2>1 DEF Environments, Has
<1> QED BY <1>6, <1>7 DEF t, w

(* An archive takes the registration, the schema and every file together.  *)
LEMMA ArchiveWhole ==
  ASSUME NEW s, WellFormed(s), Whole(s), NEW r \in ArchiveRequest
  PROVE  Whole(Merge(s, ArchiveWrites(s, r)))
<1> DEFINE t == Merge(s, ArchiveWrites(s, r))
<1>1. r.p \in Product /\ s[Services] \in Registry
  BY DEF ArchiveRequest, WellFormed
<1>5. \A q \in Product \ {r.p} :
        t[SchemaOf(q)] = s[SchemaOf(q)] /\ Environments(t, q) = Environments(s, q)
  BY ArchiveOthers
<1>6. /\ t[Services] = Without(s[Services], {r.p}) /\ t[SchemaOf(r.p)] = Absent
      /\ Environments(t, r.p) = {}
  BY ArchiveLeaves
<1>8. /\ DOMAIN t[Services] = Registered(s) \ {r.p}
      /\ \A q \in Registered(s) \ {r.p} : t[Services][q] = s[Services][q]
  BY <1>6 DEF Without, Restrict, Registered
<1> HIDE DEF t
<1>9. Whole(t)
  BY <1>1, <1>5, <1>6, <1>8, SMTT(30) DEF Whole, Has, Registered
<1> QED BY <1>9 DEF t

(* The documents a creation writes.                                        *)
LEMMA CreateWritesIs ==
  ASSUME NEW s, NEW r
  PROVE  /\ DOMAIN CreateWrites(s, r)
              = {ConfigOf(r.p, e) : e \in r.envs} \cup {SchemaOf(r.p), Services}
         /\ CreateWrites(s, r)[Services] = Merge(s[Services], Sole(r.p, r.uid))
         /\ CreateWrites(s, r)[SchemaOf(r.p)] = [keys |-> r.drafts, retiring |-> FALSE]
         /\ \A e \in r.envs : CreateWrites(s, r)[ConfigOf(r.p, e)] = FreshFile(r)
<1> DEFINE f == [path \in {ConfigOf(r.p, e) : e \in r.envs} |-> FreshFile(r)]
           g == Sole(SchemaOf(r.p), [keys |-> r.drafts, retiring |-> FALSE])
           h == Sole(Services, Merge(s[Services], Sole(r.p, r.uid)))
<1>1. DOMAIN f = {ConfigOf(r.p, e) : e \in r.envs} /\ \A path \in DOMAIN f : f[path] = FreshFile(r)
  OBVIOUS
<1>2. /\ DOMAIN g = {SchemaOf(r.p)}
      /\ g[SchemaOf(r.p)] = [keys |-> r.drafts, retiring |-> FALSE]
  BY SoleIs
<1>3. DOMAIN h = {Services} /\ h[Services] = Merge(s[Services], Sole(r.p, r.uid))
  BY SoleIs
<1>4. CreateWrites(s, r) = Merge(f, Merge(g, h))
  BY DEF CreateWrites
<1> HIDE DEF f, g, h
<1> DEFINE m == Merge(g, h)
<1>5. DOMAIN m = DOMAIN g \cup DOMAIN h
  BY MergeDomain
<1>6. m[SchemaOf(r.p)] = g[SchemaOf(r.p)]
  BY <1>2, <1>3, PathsDiffer, MergeKeeps
<1>7. m[Services] = h[Services]
  BY <1>3, MergeHas
<1>8. CreateWrites(s, r) = Merge(f, m)
  BY <1>4
<1> HIDE DEF m
<1>9. DOMAIN Merge(f, m) = DOMAIN f \cup DOMAIN m
  BY MergeDomain
<1>10. /\ Merge(f, m)[Services] = m[Services]
       /\ Merge(f, m)[SchemaOf(r.p)] = m[SchemaOf(r.p)]
  BY <1>2, <1>3, <1>5, MergeHas
<1>11. \A path \in DOMAIN f : path \notin DOMAIN m
  BY <1>1, <1>2, <1>3, <1>5, PathsDiffer
<1>12. \A path \in DOMAIN f : Merge(f, m)[path] = FreshFile(r)
  BY <1>1, <1>11, MergeKeeps
<1>13. DOMAIN m = {SchemaOf(r.p), Services}
  BY <1>2, <1>3, <1>5
<1>14. \A e \in r.envs : ConfigOf(r.p, e) \in DOMAIN f
  BY <1>1
<1>15. DOMAIN Merge(f, m) = {ConfigOf(r.p, e) : e \in r.envs} \cup {SchemaOf(r.p), Services}
  BY <1>1, <1>9, <1>13
<1> QED BY <1>2, <1>3, <1>6, <1>7, <1>8, <1>10, <1>12, <1>14, <1>15

(* A creation registers a free name with a free uid, and a schema.         *)
LEMMA CreateWhole ==
  ASSUME NEW s, WellFormed(s), Whole(s), NEW r \in NewRequest, Creatable(s, r)
  PROVE  Whole(Merge(s, CreateWrites(s, r)))
<1> DEFINE w == CreateWrites(s, r)
           t == Merge(s, w)
<1>1. r.p \in Product /\ r.envs \in SUBSET Env
  BY DEF NewRequest
<1>2. Fits(w)
  BY CreateFit
<1>3. /\ DOMAIN w = {ConfigOf(r.p, e) : e \in r.envs} \cup {SchemaOf(r.p), Services}
      /\ w[Services] = Merge(s[Services], Sole(r.p, r.uid))
      /\ w[SchemaOf(r.p)] = [keys |-> r.drafts, retiring |-> FALSE]
  BY CreateWritesIs
<1>4. DOMAIN w \subseteq Own(r.p) \cup {Services, ArchiveOf(r.p)}
  BY <1>1, <1>3 DEF Own, ConfigPaths
<1>5. [keys |-> r.drafts, retiring |-> FALSE] # Absent
  <2>1. [keys |-> r.drafts, retiring |-> FALSE] \in SchemaDocument
    BY DEF SchemaDocument, NewRequest
  <2> QED BY <2>1, DataAssumption
<1> HIDE DEF w
<1>6. \A q \in Product \ {r.p} :
        t[SchemaOf(q)] = s[SchemaOf(q)] /\ Environments(t, q) = Environments(s, q)
  BY <1>1, <1>2, <1>4, OthersKept
<1>7. t[Services] = Merge(s[Services], Sole(r.p, r.uid)) /\ Has(t, SchemaOf(r.p))
  BY <1>1, <1>2, <1>3, <1>5, AfterMerge, PathKinds DEF Has
<1>8. /\ DOMAIN t[Services] = Registered(s) \cup {r.p}
      /\ t[Services][r.p] = r.uid
      /\ \A q \in Registered(s) \ {r.p} : t[Services][q] = s[Services][q]
  BY <1>7 DEF Merge, Sole, Registered
<1>9. r.p \notin Registered(s) /\ \A q \in Registered(s) : s[Services][q] # r.uid
  BY DEF Creatable
<1>10. Registered(t) = Registered(s) \cup {r.p}
  BY <1>8 DEF Registered
<1> HIDE DEF t
<1>11. \A p \in Product : p \in Registered(t) <=> Has(t, SchemaOf(p))
  BY <1>6, <1>7, <1>10 DEF Whole, Has
<1>12. \A p \in Product : Environments(t, p) # {} => p \in Registered(t)
  BY <1>6, <1>10 DEF Whole
<1>13. \A p, q \in Registered(t) : t[Services][p] = t[Services][q] => p = q
  <2>1. \A p \in Registered(s) : t[Services][p] = s[Services][p]
    BY <1>8, <1>9
  <2> QED BY <1>8, <1>9, <1>10, <2>1 DEF Whole
<1>14. Whole(t)
  BY <1>11, <1>12, <1>13 DEF Whole
<1> QED BY <1>14 DEF t, w

-----------------------------------------------------------------------------
(* What lands validates.                                                   *)

Sound(s, t, p) ==
  \A e \in Environments(t, p) :
    \/ t[ConfigOf(p, e)] = s[ConfigOf(p, e)] /\ t[SchemaOf(p)] = s[SchemaOf(p)]
    \/ Validates(t[SchemaOf(p)].keys, Values(t, p, e))

(* The values of a file that is there.                                     *)
LEMMA ValuesOfDocument ==
  ASSUME NEW s, NEW p, NEW e, s[ConfigOf(p, e)] \in ConfigDocument
  PROVE  Values(s, p, e) = s[ConfigOf(p, e)].values
  BY DataAssumption DEF Values, ConfigOnly

(* A change of values was validated against the schema it read.            *)
LEMMA SoundValues ==
  ASSUME NEW s, WellFormed(s), NEW p \in Product, NEW x \in Env, NEW changes \in Fields(Text),
         Validates(s[SchemaOf(p)].keys, NextValues(s, p, x, changes))
  PROVE  Sound(s, Merge(s, ValuesWritten(s, p, x, changes)), p)
<1> DEFINE w == ValuesWritten(s, p, x, changes)
           t == Merge(s, w)
           d == Document(s[ConfigOf(p, x)], NextValues(s, p, x, changes))
<1>1. Fits(w) /\ NextValues(s, p, x, changes) \in Fields(Text)
  BY ValuesWrittenFit
<1>2. DOMAIN w \subseteq {ConfigOf(p, x)}
  BY ValuesWrittenOwn
<1>3. ConfigOf(p, x) \in DOMAIN w => w[ConfigOf(p, x)] = d
  BY SoleIs DEF ValuesWritten, Nothing
<1>4. d \in ConfigDocument /\ d.values = NextValues(s, p, x, changes)
  <2>1. s[ConfigOf(p, x)] \in ConfigDocument \cup {Absent}
    BY DEF WellFormed
  <2>2. d \in ConfigDocument
    BY <1>1, <2>1, DocumentTyped
  <2> QED BY <2>2 DEF Document
<1> HIDE DEF w, d
<1>5. t[SchemaOf(p)] = s[SchemaOf(p)]
  BY <1>1, <1>2, AfterMerge, PathKinds, PathsDiffer
<1>6. ASSUME NEW e \in Env
      PROVE  \/ t[ConfigOf(p, e)] = s[ConfigOf(p, e)]
             \/ Values(t, p, e) = NextValues(s, p, x, changes)
  <2>1. ConfigOf(p, e) \in Path
    BY PathKinds
  <2>2. CASE ConfigOf(p, e) \notin DOMAIN w
    BY <1>1, <2>1, <2>2, AfterMerge
  <2>3. CASE ConfigOf(p, e) \in DOMAIN w
    <3>1. ConfigOf(p, e) = ConfigOf(p, x)
      BY <1>2, <2>3
    <3>2. t[ConfigOf(p, e)] = d
      BY <1>1, <1>3, <2>1, <2>3, <3>1, AfterMerge
    <3> QED BY <1>4, <3>2, ValuesOfDocument
  <2> QED BY <2>2, <2>3
<1> HIDE DEF t
<1>7. Sound(s, t, p)
  BY <1>5, <1>6 DEF Sound, Environments
<1> QED BY <1>7 DEF t, w

(* What a save leaves validates.                                           *)
LEMMA SaveSound ==
  ASSUME NEW s, WellFormed(s), NEW r \in SaveRequest, WriteValues(s, r).verdict = "ok"
  PROVE  Sound(s, Merge(s, WriteValues(s, r).writes), r.p)
<1>1. r.p \in Product /\ r.e \in Env /\ r.changes \in Fields(Text)
  BY DEF SaveRequest
<1>2. /\ Validates(s[SchemaOf(r.p)].keys, NextValues(s, r.p, r.e, r.changes))
      /\ WriteValues(s, r).writes = ValuesWritten(s, r.p, r.e, r.changes)
  BY WriteValuesFit
<1> QED BY <1>1, <1>2, SoundValues

(* So does what a promotion leaves.                                        *)
LEMMA PromoteSound ==
  ASSUME NEW s, WellFormed(s), NEW r \in PromoteRequest, Promote(s, r).verdict = "ok"
  PROVE  Sound(s, Merge(s, Promote(s, r).writes), r.p)
<1> DEFINE changes == Restrict(Values(s, r.p, r.e), r.keys)
<1>1. r.p \in Product
  BY DEF PromoteRequest
<1>2. /\ NextEnv(r.e) \in Env /\ changes \in Fields(Text)
      /\ Validates(s[SchemaOf(r.p)].keys, NextValues(s, r.p, NextEnv(r.e), changes))
      /\ Promote(s, r).writes = ValuesWritten(s, r.p, NextEnv(r.e), changes)
  BY PromoteFit
<1> HIDE DEF changes
<1> QED BY <1>1, <1>2, SoundValues

(* An addition of keys validates every file of the product against the new *)
(* schema,                                                                 *)
LEMMA AddSound ==
  ASSUME NEW s, WellFormed(s), NEW r \in AddRequest, AddKeys(s, r).verdict = "ok"
  PROVE  Sound(s, Merge(s, AddKeys(s, r).writes), r.p)
<1> DEFINE w == AddWrites(s, r)
           t == Merge(s, w)
           path == ConfigOf(r.p, r.e)
<1>1. r.p \in Product /\ r.e \in Env
  BY DEF AddRequest
<1>2. /\ Addable(s, r) /\ AddKeys(s, r).writes = w /\ Fits(w)
      /\ MoreKeys(s, r) \in Fields(Definition)
  BY AddFit
<1>3. /\ DOMAIN w \subseteq {SchemaOf(r.p), path} /\ SchemaOf(r.p) \in DOMAIN w
      /\ w[SchemaOf(r.p)] = [s[SchemaOf(r.p)] EXCEPT !.keys = MoreKeys(s, r)]
      /\ path \in DOMAIN w => w[path] = Document(s[path], MoreValues(s, r))
      /\ path \notin DOMAIN w => MoreValues(s, r) = Values(s, r.p, r.e)
  BY AddWritesIs
<1>4. [s[SchemaOf(r.p)] EXCEPT !.keys = MoreKeys(s, r)].keys = MoreKeys(s, r)
  BY <1>1, <1>2, SchemaWithTyped DEF Addable, Known
<1> HIDE DEF w
<1>5. t[SchemaOf(r.p)].keys = MoreKeys(s, r)
  BY <1>1, <1>2, <1>3, <1>4, AfterMerge, PathKinds
<1>6. Values(t, r.p, r.e) = MoreValues(s, r)
  <2>1. path \in Path
    BY <1>1, PathKinds
  <2>2. CASE path \notin DOMAIN w
    <3>1. t[path] = s[path]
      BY <1>2, <2>1, <2>2, AfterMerge
    <3> QED BY <1>3, <2>2, <3>1 DEF Values
  <2>3. CASE path \in DOMAIN w
    <3>1. t[path] = Document(s[path], MoreValues(s, r))
      BY <1>2, <1>3, <2>1, <2>3, AfterMerge
    <3>2. t[path] \in ConfigDocument
      <4>1. t[path] \in ConfigDocument \cup {Absent}
        BY <1>1, <1>2, WellFormedMerge DEF WellFormed
      <4>2. MoreValues(s, r) \in Fields(Text)
        <5>1. r.drafts \in Fields(Definition)
          BY DEF AddRequest
        <5>2. Values(s, r.p, r.e) \in Fields(Text) /\ DefaultsFor(r.drafts) \in Fields(Text)
          BY <1>1, <5>1, ValuesTyped, FieldsDefaults
        <5> QED BY <5>2, FieldsMerge DEF MoreValues
      <4>3. s[path] \in ConfigDocument \cup {Absent}
        BY <1>1 DEF WellFormed
      <4> QED BY <3>1, <4>2, <4>3, DocumentTyped
    <3>3. Values(t, r.p, r.e) = t[path].values
      BY <3>2, ValuesOfDocument
    <3> QED BY <3>1, <3>3 DEF Document
  <2> QED BY <2>2, <2>3
<1>7. ASSUME NEW e \in Env, e # r.e
      PROVE  t[ConfigOf(r.p, e)] = s[ConfigOf(r.p, e)]
  <2>1. ConfigOf(r.p, e) \notin DOMAIN w /\ ConfigOf(r.p, e) \in Path
    BY <1>1, <1>3, <1>7, PathsDiffer, PathKinds
  <2> QED BY <1>2, <2>1, AfterMerge
<1> HIDE DEF t, path
<1>8. ASSUME NEW e \in Environments(t, r.p)
      PROVE  Validates(t[SchemaOf(r.p)].keys, Values(t, r.p, e))
  <2>1. CASE e = r.e
    BY <1>2, <1>5, <1>6, <2>1 DEF Addable
  <2>2. CASE e # r.e
    <3>1. e \in Env /\ t[ConfigOf(r.p, e)] = s[ConfigOf(r.p, e)]
      BY <1>7, <2>2 DEF Environments
    <3>2. e \in Environments(s, r.p) \ {r.e} /\ Values(t, r.p, e) = Values(s, r.p, e)
      BY <2>2, <3>1 DEF Environments, Has, Values
    <3> QED BY <1>2, <1>5, <3>2 DEF Addable
  <2> QED BY <2>1, <2>2
<1> QED BY <1>2, <1>8 DEF Sound, t

(* a deletion what it leaves of each,                                      *)
LEMMA DeleteSound ==
  ASSUME NEW s, WellFormed(s), NEW r \in DeleteRequest, DeleteKeys(s, r).verdict = "ok"
  PROVE  Sound(s, Merge(s, DeleteKeys(s, r).writes), r.p)
<1> DEFINE w == DeleteWrites(s, r)
           t == Merge(s, w)
<1>1. r.p \in Product
  BY DEF DeleteRequest
<1>2. /\ Deletable(s, r) /\ DeleteKeys(s, r).writes = w /\ Fits(w)
      /\ FewerKeys(s, r) \in Fields(Definition)
  BY DeleteFit
<1>3. /\ DOMAIN w = {ConfigOf(r.p, e) : e \in Hit(s, r.p, r.keys)} \cup {SchemaOf(r.p)}
      /\ w[SchemaOf(r.p)] = [s[SchemaOf(r.p)] EXCEPT !.keys = FewerKeys(s, r)]
      /\ \A e \in Hit(s, r.p, r.keys) :
           /\ w[ConfigOf(r.p, e)] \in ConfigDocument
           /\ w[ConfigOf(r.p, e)].values = Without(Values(s, r.p, e), r.keys)
  BY <1>1, DeleteWritesIs, ZenonT(30)
<1>4. [s[SchemaOf(r.p)] EXCEPT !.keys = FewerKeys(s, r)].keys = FewerKeys(s, r)
  BY <1>1, <1>2, SchemaWithTyped DEF Deletable, Known
<1> HIDE DEF w
<1>5. t[SchemaOf(r.p)].keys = FewerKeys(s, r)
  BY <1>1, <1>2, <1>3, <1>4, AfterMerge, PathKinds
<1>6. ASSUME NEW e \in Hit(s, r.p, r.keys)
      PROVE  Values(t, r.p, e) = Without(Values(s, r.p, e), r.keys) /\ e \in Environments(s, r.p)
  <2>1. e \in Environments(s, r.p) /\ e \in Env
    BY DEF Hit, Environments
  <2>2. ConfigOf(r.p, e) \in Path /\ ConfigOf(r.p, e) \in DOMAIN w
    BY <1>1, <1>3, <2>1, PathKinds
  <2>3. t[ConfigOf(r.p, e)] = w[ConfigOf(r.p, e)]
    BY <1>2, <2>2, AfterMerge
  <2> QED BY <1>3, <2>1, <2>3, ValuesOfDocument
<1>7. ASSUME NEW e \in Env \ Hit(s, r.p, r.keys)
      PROVE  t[ConfigOf(r.p, e)] = s[ConfigOf(r.p, e)]
  <2>1. ConfigOf(r.p, e) \notin DOMAIN w /\ ConfigOf(r.p, e) \in Path
    BY <1>1, <1>3, PathsDiffer, PathKinds
  <2> QED BY <1>2, <2>1, AfterMerge
<1> HIDE DEF t
<1>8. ASSUME NEW e \in Environments(t, r.p)
      PROVE  Validates(t[SchemaOf(r.p)].keys, Values(t, r.p, e))
  <2>1. CASE e \in Hit(s, r.p, r.keys)
    BY <1>2, <1>5, <1>6, <2>1 DEF Deletable
  <2>2. CASE e \notin Hit(s, r.p, r.keys)
    <3>1. e \in Env /\ t[ConfigOf(r.p, e)] = s[ConfigOf(r.p, e)]
      BY <1>7, <2>2 DEF Environments
    <3>2. e \in Environments(s, r.p) /\ Values(t, r.p, e) = Values(s, r.p, e)
      BY <3>1 DEF Environments, Has, Values
    <3>3. DOMAIN Values(s, r.p, e) \cap r.keys = {}
      BY <2>2, <3>2 DEF Hit
    <3>4. Validates(FewerKeys(s, r), Without(Values(s, r.p, e), r.keys))
      BY <1>2, <3>2 DEF Deletable
    <3>5. /\ DOMAIN Without(Values(s, r.p, e), r.keys) = DOMAIN Values(s, r.p, e)
          /\ \A k \in DOMAIN Values(s, r.p, e) :
               Without(Values(s, r.p, e), r.keys)[k] = Values(s, r.p, e)[k]
      BY <3>3 DEF Without, Restrict
    <3>6. Validates(FewerKeys(s, r), Values(s, r.p, e))
      BY <3>4, <3>5 DEF Validates
    <3> QED BY <1>5, <3>2, <3>6
  <2> QED BY <2>1, <2>2
<1> QED BY <1>2, <1>8 DEF Sound, t

(* a creation the defaults it writes.                                      *)
LEMMA CreateSound ==
  ASSUME NEW s, WellFormed(s), NEW r \in NewRequest, Creatable(s, r)
  PROVE  Sound(s, Merge(s, CreateWrites(s, r)), r.p)
<1> DEFINE w == CreateWrites(s, r)
           t == Merge(s, w)
<1>1. r.p \in Product /\ r.envs \in SUBSET Env
  BY DEF NewRequest
<1>2. Fits(w) /\ FreshFile(r) \in ConfigDocument
  BY CreateFit
<1>3. /\ DOMAIN w = {ConfigOf(r.p, e) : e \in r.envs} \cup {SchemaOf(r.p), Services}
      /\ w[SchemaOf(r.p)] = [keys |-> r.drafts, retiring |-> FALSE]
      /\ \A e \in r.envs : w[ConfigOf(r.p, e)] = FreshFile(r)
  BY CreateWritesIs
<1> HIDE DEF w
<1>4. t[SchemaOf(r.p)].keys = r.drafts
  <2>1. t[SchemaOf(r.p)] = [keys |-> r.drafts, retiring |-> FALSE]
    BY <1>1, <1>2, <1>3, AfterMerge, PathKinds
  <2> QED BY <2>1
<1>5. ASSUME NEW e \in r.envs
      PROVE  Values(t, r.p, e) = FreshFile(r).values
  <2>1. ConfigOf(r.p, e) \in Path /\ ConfigOf(r.p, e) \in DOMAIN w
    BY <1>1, <1>3, PathKinds
  <2>2. t[ConfigOf(r.p, e)] = FreshFile(r)
    BY <1>2, <1>3, <2>1, AfterMerge
  <2> QED BY <1>2, <2>2, ValuesOfDocument
<1>6. Environments(t, r.p) \subseteq r.envs
  <2> SUFFICES ASSUME NEW e \in Environments(t, r.p), e \notin r.envs PROVE FALSE
    OBVIOUS
  <2>1. e \in Env /\ t[ConfigOf(r.p, e)] # Absent
    BY DEF Environments, Has
  <2>2. ConfigOf(r.p, e) \notin DOMAIN w /\ ConfigOf(r.p, e) \in Path
    BY <1>1, <1>3, <2>1, PathsDiffer, PathKinds
  <2>3. t[ConfigOf(r.p, e)] = s[ConfigOf(r.p, e)]
    BY <1>2, <2>2, AfterMerge
  <2> QED BY <2>1, <2>3 DEF Creatable, Environments, Has
<1>7. Validates(r.drafts, FreshFile(r).values)
  BY DEF Creatable
<1> HIDE DEF t
<1>8. Sound(s, t, r.p)
  BY <1>4, <1>5, <1>6, <1>7 DEF Sound
<1> QED BY <1>8 DEF t, w

-----------------------------------------------------------------------------
(* All operations.                                                         *)

(* A request is of the kind its operation names, and gets that operation's *)
(* plan.                                                                   *)
LEMMA RequestKinds ==
  ASSUME NEW r \in Requests
  PROVE  /\ r.op = "save" <=> r \in SaveRequest
         /\ r.op = "promote" <=> r \in PromoteRequest
         /\ r.op = "delete" <=> r \in DeleteRequest
         /\ r.op = "add" <=> r \in AddRequest
         /\ r.op = "retire" <=> r \in RetireRequest
         /\ r.op = "archive" <=> r \in ArchiveRequest
         /\ r.op = "new" <=> r \in NewRequest
         /\ r.op = "flag" <=> r \in FlagRequest
         /\ r.op \in {"save", "promote", "delete", "add", "retire", "archive", "new", "flag"}
  BY DEF Requests, SaveRequest, PromoteRequest, DeleteRequest, AddRequest, RetireRequest,
         ArchiveRequest, NewRequest, FlagRequest

(* The plan of a request is that of its operation.                         *)
LEMMA PlanOfIs ==
  ASSUME NEW s, NEW r
  PROVE  /\ r.op = "save" => PlanOf(s, r) = WriteValues(s, r)
         /\ r.op = "promote" => PlanOf(s, r) = Promote(s, r)
         /\ r.op = "delete" => PlanOf(s, r) = DeleteKeys(s, r)
         /\ r.op = "add" => PlanOf(s, r) = AddKeys(s, r)
         /\ r.op = "retire" => PlanOf(s, r) = SetRetiring(s, r)
         /\ r.op = "archive" => PlanOf(s, r) = ArchiveProduct(s, r)
         /\ r.op = "new" => PlanOf(s, r) = CreateProduct(s, r)
         /\ r.op = "flag" => PlanOf(s, r) = SetFlag(s, r)
  BY DEF PlanOf

(* A plan holds on every store that holds what it expects, the archive a   *)
(* retiring looked for and the flags that were read apart.                 *)
LEMMA PlansAlike ==
  ASSUME NEW s, NEW t, NEW r \in Requests, r.op \notin {"retire", "flag"},
         PlanOf(s, r).verdict = "ok", Still(t, PlanOf(s, r))
  PROVE  PlanOf(t, r).verdict = "ok" /\ PlanOf(t, r).writes = PlanOf(s, r).writes
<1>1. CASE r.op = "save"
  BY <1>1, PlanOfIs, WriteValuesAlike
<1>2. CASE r.op = "promote"
  BY <1>2, PlanOfIs, PromoteAlike
<1>3. CASE r.op = "delete"
  BY <1>3, PlanOfIs, DeleteAlike
<1>4. CASE r.op = "add"
  BY <1>4, PlanOfIs, AddAlike
<1>5. CASE r.op = "archive"
  BY <1>5, PlanOfIs, ArchiveAlike
<1>6. CASE r.op = "new"
  BY <1>6, PlanOfIs, CreateAlike
<1> QED BY <1>1, <1>2, <1>3, <1>4, <1>5, <1>6, RequestKinds

(* What a plan does to a well-formed store that it was decided on.         *)
LEMMA PlansFit ==
  ASSUME NEW s, WellFormed(s), NEW r \in Requests, r.op \notin {"retire", "flag"},
         PlanOf(s, r).verdict = "ok"
  PROVE  Fits(PlanOf(s, r).writes)
<1>1. CASE r.op = "save"
  BY <1>1, RequestKinds, PlanOfIs, WriteValuesFit
<1>2. CASE r.op = "promote"
  BY <1>2, RequestKinds, PlanOfIs, PromoteFit
<1>3. CASE r.op = "delete"
  BY <1>3, RequestKinds, PlanOfIs, DeleteFit
<1>4. CASE r.op = "add"
  BY <1>4, RequestKinds, PlanOfIs, AddFit
<1>5. CASE r.op = "archive"
  <2>1. PlanOf(s, r).writes = ArchiveWrites(s, r)
    BY <1>5, PlanOfIs, ArchiveOk, PlanIs
  <2> QED BY <1>5, <2>1, RequestKinds, ArchiveFit
<1>6. CASE r.op = "new"
  <2>1. Creatable(s, r) /\ PlanOf(s, r).writes = CreateWrites(s, r)
    BY <1>6, PlanOfIs, CreateOk, PlanIs
  <2> QED BY <1>6, <2>1, RequestKinds, CreateFit
<1> QED BY <1>1, <1>2, <1>3, <1>4, <1>5, <1>6, RequestKinds

(* What any operation that was accepted leaves is whole,                   *)
LEMMA PlansWhole ==
  ASSUME NEW s, WellFormed(s), Whole(s), NEW r \in Requests, r.op \notin {"retire", "flag"},
         PlanOf(s, r).verdict = "ok"
  PROVE  Whole(Merge(s, PlanOf(s, r).writes))
<1>1. CASE r.op = "save"
  BY <1>1, RequestKinds, PlanOfIs, SaveWhole
<1>2. CASE r.op = "promote"
  BY <1>2, RequestKinds, PlanOfIs, PromoteWhole
<1>3. CASE r.op = "delete"
  BY <1>3, RequestKinds, PlanOfIs, DeleteWhole
<1>4. CASE r.op = "add"
  BY <1>4, RequestKinds, PlanOfIs, AddWhole
<1>5. CASE r.op = "archive"
  <2>1. PlanOf(s, r).writes = ArchiveWrites(s, r)
    BY <1>5, PlanOfIs, ArchiveOk, PlanIs
  <2> QED BY <1>5, <2>1, RequestKinds, ArchiveWhole
<1>6. CASE r.op = "new"
  <2>1. Creatable(s, r) /\ PlanOf(s, r).writes = CreateWrites(s, r)
    BY <1>6, PlanOfIs, CreateOk, PlanIs
  <2> QED BY <1>6, <2>1, RequestKinds, CreateWhole
<1> QED BY <1>1, <1>2, <1>3, <1>4, <1>5, <1>6, RequestKinds

(* and validates.                                                          *)
LEMMA PlansSound ==
  ASSUME NEW s, WellFormed(s), NEW r \in Requests,
         r.op \in {"save", "promote", "add", "delete", "new"}, PlanOf(s, r).verdict = "ok"
  PROVE  Sound(s, Merge(s, PlanOf(s, r).writes), r.p)
<1>1. CASE r.op = "save"
  BY <1>1, RequestKinds, PlanOfIs, SaveSound
<1>2. CASE r.op = "promote"
  BY <1>2, RequestKinds, PlanOfIs, PromoteSound
<1>3. CASE r.op = "delete"
  BY <1>3, RequestKinds, PlanOfIs, DeleteSound
<1>4. CASE r.op = "add"
  BY <1>4, RequestKinds, PlanOfIs, AddSound
<1>5. CASE r.op = "new"
  <2>1. Creatable(s, r) /\ PlanOf(s, r).writes = CreateWrites(s, r)
    BY <1>5, PlanOfIs, CreateOk, PlanIs
  <2> QED BY <1>5, <2>1, RequestKinds, CreateSound
<1> QED BY <1>1, <1>2, <1>3, <1>4, <1>5

-----------------------------------------------------------------------------
(* Pages and calls.                                                        *)

FlagsPage == [kind : {"flags"}, etag : FlagDocument \cup {Absent}]

EditPage ==
  [kind : {"product"}, p : Product, e : Env, etag : Tag, shown : Fields(Text), hidden : SUBSET Key,
   again : BOOLEAN, touched : SUBSET Key, ask : BOOLEAN]

ConfirmPage ==
  [kind : {"create", "delete", "archive"}, p : Product, e : Env, keys : SUBSET Key,
   base : UNION {Bases(p) : p \in Product}, force : BOOLEAN]

Pages == {NoPage} \cup FlagsPage \cup EditPage \cup ConfirmPage

(* A plan was decided on some well-formed store.                           *)
CallTyped(c) ==
  \/ c = Idle
  \/ c.stage = "posted" /\ c.r \in Requests
  \/ /\ c.stage = "planned" /\ c.r \in Requests
     /\ \E s : WellFormed(s) /\ PlanOf(s, c.r).verdict = "ok" /\ c.plan = PlanOf(s, c.r)
  \/ c.stage = "refused" /\ c.r \in Requests

Consistent ==
  /\ WellFormed(store)
  /\ posts \in 0..MaxPosts
  /\ page \in [Browser -> Pages]
  /\ DOMAIN call = Browser
  /\ \A b \in Browser : CallTyped(call[b])

(* A page is of the kind it says.                                          *)
LEMMA PageKinds ==
  ASSUME NEW g \in Pages
  PROVE  /\ g.kind = "flags" => g \in FlagsPage
         /\ g.kind = "product" => g \in EditPage
         /\ g.kind \in {"create", "delete", "archive"} => g \in ConfirmPage
         /\ g.kind \in {"none", "flags", "product", "create", "delete", "archive"}
  BY DEF Pages, NoPage, FlagsPage, EditPage, ConfirmPage

(* Each page the server builds is a page.                                  *)
LEMMA ProductPageTyped ==
  ASSUME WellFormed(store), NEW p \in Product, NEW e \in Env, NEW typed \in Fields(Text),
         NEW touched \in SUBSET Key, NEW ask \in BOOLEAN
  PROVE  ProductPage(p, e, typed, touched, ask) \in Pages
<1>1. CASE ~ Known(store, p)
  BY <1>1 DEF ProductPage, Pages
<1>2. CASE Known(store, p)
  <2> DEFINE shown == [k \in Keys(store, p) |->
                         IF k \in DOMAIN typed THEN typed[k]
                         ELSE IF k \in DOMAIN Values(store, p, e) /\ ~ Secret(store, p, k)
                              THEN Values(store, p, e)[k] ELSE Blank]
             hidden == {k \in Keys(store, p) : Secret(store, p, k)}
  <2>1. Keys(store, p) \in SUBSET Key
    BY DeclaredTyped
  <2>2. /\ \A k \in DOMAIN typed : typed[k] \in Text
        /\ \A k \in DOMAIN Values(store, p, e) : Values(store, p, e)[k] \in Text
    BY ValuesTyped, FieldsElim
  <2>3. Blank \in Text
    BY DEF Text
  <2>4. shown \in [Keys(store, p) -> Text]
    BY <2>2, <2>3
  <2>5. shown \in Fields(Text)
    BY <2>1, <2>4, FieldsIntro
  <2>6. hidden \in SUBSET Key
    BY <2>1
  <2>7. store[ConfigOf(p, e)] \in Tag
    BY DEF WellFormed, Tag
  <2>8. ProductPage(p, e, typed, touched, ask)
          = [kind |-> "product", p |-> p, e |-> e, etag |-> store[ConfigOf(p, e)],
             shown |-> shown, hidden |-> hidden, again |-> typed # Nothing,
             touched |-> touched, ask |-> ask]
    BY <1>2 DEF ProductPage
  <2> HIDE DEF shown, hidden
  <2>9. ProductPage(p, e, typed, touched, ask) \in EditPage
    BY <2>5, <2>6, <2>7, <2>8 DEF EditPage
  <2> QED BY <2>9 DEF Pages
<1> QED BY <1>1, <1>2

(* The base of a confirmation is one a page may carry.                     *)
LEMMA BaseTyped ==
  ASSUME NEW s, WellFormed(s), NEW p \in Product
  PROVE  Base(s, p) \in Bases(p)
<1>1. \A path \in ProductPaths(p) :
        s[path] \in Registry \cup SchemaDocument \cup ConfigDocument \cup {Absent}
  BY DEF WellFormed, ProductPaths, ConfigPaths
<1> QED BY <1>1 DEF Base, Restrict, Bases

(* So is the page that carries it.                                         *)
LEMMA ConfirmTyped ==
  ASSUME WellFormed(store), NEW what \in {"create", "delete", "archive"}, NEW p \in Product,
         NEW e \in Env, NEW keys \in SUBSET Key, NEW force \in BOOLEAN
  PROVE  Confirm(what, p, e, keys, force) \in Pages
<1>1. Base(store, p) \in UNION {Bases(q) : q \in Product}
  BY BaseTyped
<1>2. Confirm(what, p, e, keys, force) \in ConfirmPage
  BY <1>1 DEF Confirm, ConfirmPage
<1> QED BY <1>2 DEF Pages

(* A step of one browser that shows it a page, and one that sends a        *)
(* request.                                                                *)
LEMMA ShowTyped ==
  ASSUME Consistent, NEW b \in Browser, NEW g \in Pages, Show(b, g),
         UNCHANGED <<store, call, posts>>
  PROVE  Consistent'
  BY DEF Consistent, Show

(* A request that is sent keeps Consistent.                                *)
LEMMA SendTyped ==
  ASSUME Consistent, NEW b \in Browser, NEW r \in Requests, Send(b, r)
  PROVE  Consistent'
<1>1. posts' \in 0..MaxPosts /\ UNCHANGED <<store, page>>
  BY ConsoleAssumption DEF Send, Consistent
<1>2. call' = [call EXCEPT ![b] = [stage |-> "posted", r |-> r]]
  BY DEF Send
<1>3. DOMAIN call' = Browser /\ \A c \in Browser : CallTyped(call'[c])
  <2>1. ASSUME NEW c \in Browser, c # b
        PROVE  CallTyped(call'[c])
    BY <1>2, <2>1 DEF Consistent
  <2>2. call'[b] = [stage |-> "posted", r |-> r]
    BY <1>2 DEF Consistent
  <2>3. CallTyped(call'[b])
    BY <2>2 DEF CallTyped
  <2> QED BY <1>2, <2>1, <2>3 DEF Consistent
<1> QED BY <1>1, <1>3 DEF Consistent, CallTyped

(* The page a browser acts on.                                             *)
LEMMA OnPage ==
  ASSUME Consistent, NEW b \in Browser, NEW kind, On(b, kind)
  PROVE  /\ page[b] \in Pages /\ page[b].kind = kind
         /\ kind = "flags" => page[b] \in FlagsPage
         /\ kind = "product" => page[b] \in EditPage
         /\ kind \in {"create", "delete", "archive"} => page[b] \in ConfirmPage
<1>1. page[b] \in Pages /\ page[b].kind = kind
  BY DEF Consistent, On
<1> QED BY <1>1, PageKinds

(* What an operator does is typed: looking at pages, and asking.           *)
LEMMA PagesStep ==
  ASSUME Consistent, NEW b \in Browser,
         \/ Open(b) \/ OpenFlags(b) \/ AskCreate(b) \/ AskDelete(b) \/ AskArchive(b)
  PROVE  Consistent'
<1>0. WellFormed(store)
  BY DEF Consistent
<1>1. CASE Open(b)
  <2>1. PICK p \in Product, e \in Env : Show(b, ProductPage(p, e, Nothing, {}, FALSE))
    BY <1>1 DEF Open
  <2>2. ProductPage(p, e, Nothing, {}, FALSE) \in Pages
    BY <1>0, FieldsNothing, ProductPageTyped
  <2> QED BY <1>1, <2>1, <2>2, ShowTyped DEF Open
<1>2. CASE OpenFlags(b)
  <2>1. store[Flags] \in FlagDocument \cup {Absent}
    BY <1>0 DEF WellFormed
  <2>2. [kind |-> "flags", etag |-> store[Flags]] \in Pages
    BY <2>1 DEF Pages, FlagsPage
  <2> QED BY <1>2, <2>2, ShowTyped DEF OpenFlags
<1>3. CASE AskCreate(b)
  <2>1. page[b] \in EditPage
    BY <1>3, OnPage DEF AskCreate
  <2>2. page[b].p \in Product /\ page[b].e \in Env
    BY <2>1 DEF EditPage
  <2>3. Confirm("create", page[b].p, page[b].e, {}, FALSE) \in Pages
    BY <1>0, <2>2, ConfirmTyped
  <2> QED BY <1>3, <2>3, ShowTyped DEF AskCreate
<1>4. CASE AskDelete(b)
  <2>1. page[b] \in EditPage
    BY <1>4, OnPage DEF AskDelete
  <2>2. page[b].p \in Product /\ page[b].e \in Env
    BY <2>1 DEF EditPage
  <2>3. PICK K : K \subseteq Keys(store, page[b].p)
                 /\ Show(b, Confirm("delete", page[b].p, page[b].e, K, FALSE))
    BY <1>4 DEF AskDelete
  <2>4. K \in SUBSET Key
    BY <1>0, <2>2, <2>3, DeclaredTyped
  <2>5. Confirm("delete", page[b].p, page[b].e, K, FALSE) \in Pages
    BY <1>0, <2>2, <2>4, ConfirmTyped
  <2> QED BY <1>4, <2>3, <2>5, ShowTyped DEF AskDelete
<1>5. CASE AskArchive(b)
  <2>1. PICK p \in Product : Show(b, Confirm("archive", p, Lowest, {}, FALSE))
    BY <1>5 DEF AskArchive
  <2>2. Confirm("archive", p, Lowest, {}, FALSE) \in Pages
    BY <1>0, Environment, ConfirmTyped
  <2> QED BY <1>5, <2>1, <2>2, ShowTyped DEF AskArchive
<1> QED BY <1>1, <1>2, <1>3, <1>4, <1>5

(* The fields a save posts.                                                *)
FieldsPosted(g, K, v) == [k \in DOMAIN g.shown |-> IF k \in K THEN v ELSE g.shown[k]]

SaveOf(g, K, v) ==
  [op |-> "save", p |-> g.p, e |-> g.e, fields |-> FieldsPosted(g, K, v),
   changes |-> Asked(g.p, FieldsPosted(g, K, v)), etag |-> g.etag,
   again |-> g.again, touched |-> g.touched \cup K]

(* A save sends the fields of the page it is on,                           *)
LEMMA SaveSends ==
  ASSUME NEW b \in Browser, Save(b)
  PROVE  /\ On(b, "product") /\ page[b].etag # Absent
         /\ \E K \in SUBSET DOMAIN page[b].shown, v \in Typed \cup {Bad} :
              Send(b, SaveOf(page[b], K, v))
<1>1. /\ On(b, "product") /\ page[b].etag # Absent
      /\ \E K \in {{}} \cup {{k} : k \in DOMAIN page[b].shown}, v \in Typed \cup {Bad} :
           Send(b, SaveOf(page[b], K, v))
  BY DEF Save, SaveOf, FieldsPosted
<1> QED BY <1>1

(* which are texts for keys.                                               *)
LEMMA FieldsPostedTyped ==
  ASSUME NEW g \in EditPage, NEW K \in SUBSET DOMAIN g.shown, NEW v \in Typed \cup {Bad}
  PROVE  FieldsPosted(g, K, v) \in Fields(Text) /\ SaveOf(g, K, v) \in Requests
<1>1. /\ g.p \in Product /\ g.e \in Env /\ g.etag \in Tag /\ g.shown \in Fields(Text)
      /\ g.again \in BOOLEAN /\ g.touched \in SUBSET Key
  BY DEF EditPage
<1>2. DOMAIN g.shown \in SUBSET Key /\ g.shown \in [DOMAIN g.shown -> Text]
  BY <1>1, FieldsElim
<1>3. FieldsPosted(g, K, v) \in [DOMAIN g.shown -> Text]
  BY <1>2 DEF FieldsPosted, Text
<1>4. FieldsPosted(g, K, v) \in Fields(Text)
  BY <1>2, <1>3, FieldsIntro
<1>5. Asked(g.p, FieldsPosted(g, K, v)) \in Fields(Text)
  BY <1>4, FieldsWithout DEF Asked
<1>6. SaveOf(g, K, v) \in SaveRequest
  BY <1>1, <1>2, <1>4, <1>5 DEF SaveOf, SaveRequest
<1> QED BY <1>4, <1>6 DEF Requests

(* Each post is of a typed request.                                        *)
LEMMA SaveStep ==
  ASSUME Consistent, NEW b \in Browser, Save(b)
  PROVE  Consistent'
<1>1. page[b] \in EditPage
  BY SaveSends, OnPage
<1>2. PICK K \in SUBSET DOMAIN page[b].shown, v \in Typed \cup {Bad} :
        Send(b, SaveOf(page[b], K, v))
  BY SaveSends
<1>3. SaveOf(page[b], K, v) \in Requests
  BY <1>1, FieldsPostedTyped
<1> QED BY <1>2, <1>3, SendTyped

(* The page of a new product keeps it.                                     *)
LEMMA CreateStep ==
  ASSUME Consistent, NEW b \in Browser, Create(b)
  PROVE  Consistent'
<1>0. WellFormed(store)
  BY DEF Consistent
<1>1. page[b] \in ConfirmPage
  BY OnPage DEF Create
<1>2. page[b].p \in Product /\ page[b].e \in Env
  BY <1>1 DEF ConfirmPage
<1>3. CASE page[b].base = Base(store, page[b].p)
  <2> DEFINE r == [op |-> "save", p |-> page[b].p, e |-> page[b].e, fields |-> Nothing,
                   changes |-> DefaultsFor(Declared(store, page[b].p)), etag |-> Absent,
                   again |-> FALSE, touched |-> {}]
  <2>1. Send(b, r)
    BY <1>3 DEF Create
  <2>2. Nothing \in Fields(Text) /\ DefaultsFor(Declared(store, page[b].p)) \in Fields(Text)
    BY <1>0, <1>2, FieldsNothing, DeclaredTyped, FieldsDefaults
  <2>3. Absent \in Tag
    BY DEF Tag
  <2>4. r \in SaveRequest
    BY <1>2, <2>2, <2>3 DEF SaveRequest
  <2>5. r \in Requests
    BY <2>4 DEF Requests
  <2> HIDE DEF r
  <2> QED BY <2>1, <2>5, SendTyped
<1>4. CASE page[b].base # Base(store, page[b].p)
  <2>1. ProductPage(page[b].p, page[b].e, Nothing, {}, FALSE) \in Pages
    BY <1>0, <1>2, FieldsNothing, ProductPageTyped
  <2> QED BY <1>4, <2>1, ShowTyped DEF Create
<1> QED BY <1>3, <1>4

(* So do the posts that carry no fields,                                   *)
LEMMA PostsStep ==
  ASSUME Consistent, NEW b \in Browser,
         \/ PostPromote(b) \/ PostDelete(b) \/ PostAddKeys(b) \/ PostRetire(b) \/ PostArchive(b)
         \/ PostNew(b) \/ Click(b)
  PROVE  Consistent'
<1>1. CASE PostPromote(b)
  <2>1. page[b] \in EditPage
    BY <1>1, OnPage DEF PostPromote
  <2>2. PICK K \in SUBSET DOMAIN page[b].shown :
          Send(b, [op |-> "promote", p |-> page[b].p, e |-> page[b].e, keys |-> K,
                   fields |-> page[b].shown, touched |-> page[b].touched])
    BY <1>1 DEF PostPromote
  <2>3. /\ page[b].p \in Product /\ page[b].e \in Env /\ page[b].shown \in Fields(Text)
        /\ page[b].touched \in SUBSET Key
    BY <2>1 DEF EditPage
  <2>4. K \in SUBSET Key
    BY <2>3, FieldsElim
  <2>5. [op |-> "promote", p |-> page[b].p, e |-> page[b].e, keys |-> K,
         fields |-> page[b].shown, touched |-> page[b].touched] \in Requests
    BY <2>3, <2>4 DEF Requests, PromoteRequest
  <2> QED BY <2>2, <2>5, SendTyped
<1>2. CASE PostDelete(b)
  <2>1. page[b] \in ConfirmPage
    BY <1>2, OnPage DEF PostDelete
  <2>2. [op |-> "delete", p |-> page[b].p, e |-> page[b].e, keys |-> page[b].keys,
         base |-> page[b].base] \in Requests
    BY <2>1 DEF Requests, DeleteRequest, ConfirmPage
  <2> QED BY <1>2, <2>2, SendTyped DEF PostDelete
<1>3. CASE PostAddKeys(b)
  <2>1. page[b] \in EditPage
    BY <1>3, OnPage DEF PostAddKeys
  <2>2. PICK drafts \in Drafts :
          Send(b, [op |-> "add", p |-> page[b].p, e |-> page[b].e, drafts |-> drafts,
                   etag |-> page[b].etag])
    BY <1>3 DEF PostAddKeys
  <2>3. drafts \in Fields(Definition)
    BY ConsoleAssumption
  <2>4. [op |-> "add", p |-> page[b].p, e |-> page[b].e, drafts |-> drafts,
         etag |-> page[b].etag] \in Requests
    BY <2>1, <2>3 DEF Requests, AddRequest, EditPage
  <2> QED BY <2>2, <2>4, SendTyped
<1>4. CASE PostRetire(b)
  <2>1. page[b] \in EditPage
    BY <1>4, OnPage DEF PostRetire
  <2>2. PICK retiring \in BOOLEAN :
          Send(b, [op |-> "retire", p |-> page[b].p, e |-> page[b].e, retiring |-> retiring,
                   force |-> page[b].ask])
    BY <1>4 DEF PostRetire
  <2>3. [op |-> "retire", p |-> page[b].p, e |-> page[b].e, retiring |-> retiring,
         force |-> page[b].ask] \in Requests
    BY <2>1 DEF Requests, RetireRequest, EditPage
  <2> QED BY <2>2, <2>3, SendTyped
<1>5. CASE PostArchive(b)
  <2>1. page[b] \in ConfirmPage
    BY <1>5, OnPage DEF PostArchive
  <2>2. [op |-> "archive", p |-> page[b].p, e |-> page[b].e, base |-> page[b].base,
         force |-> page[b].force] \in Requests
    BY <2>1 DEF Requests, ArchiveRequest, ConfirmPage
  <2> QED BY <1>5, <2>2, SendTyped DEF PostArchive
<1>6. CASE PostNew(b)
  <2>1. PICK p \in Product, uid \in Uid, E \in SUBSET Env \ {{}}, drafts \in Drafts :
          Send(b, [op |-> "new", p |-> p, e |-> Lowest, uid |-> uid, envs |-> E,
                   drafts |-> drafts])
    BY <1>6, SMTT(30) DEF PostNew
  <2>2. drafts \in Fields(Definition) /\ Lowest \in Env
    BY ConsoleAssumption, Environment
  <2>3. [op |-> "new", p |-> p, e |-> Lowest, uid |-> uid, envs |-> E, drafts |-> drafts]
          \in Requests
    BY <2>2 DEF Requests, NewRequest
  <2> QED BY <2>1, <2>3, SendTyped
<1>7. CASE Click(b)
  <2>1. PICK f \in Flag, e \in Env, value \in BOOLEAN :
          \/ /\ On(b, "none")
             /\ Send(b, [op |-> "flag", flag |-> f, e |-> e, value |-> value, etag |-> Any])
          \/ /\ On(b, "flags") /\ page[b].etag # Absent
             /\ Send(b, [op |-> "flag", flag |-> f, e |-> e, value |-> value,
                         etag |-> page[b].etag])
    BY <1>7 DEF Click
  <2>2. [op |-> "flag", flag |-> f, e |-> e, value |-> value, etag |-> Any] \in Requests
    BY DEF Requests, FlagRequest
  <2>3. ASSUME On(b, "flags")
        PROVE  [op |-> "flag", flag |-> f, e |-> e, value |-> value, etag |-> page[b].etag]
                 \in Requests
    <3>1. page[b] \in FlagsPage
      BY <2>3, OnPage
    <3> QED BY <3>1 DEF Requests, FlagRequest, FlagsPage
  <2> QED BY <2>1, <2>2, <2>3, SendTyped
<1> QED BY <1>1, <1>2, <1>3, <1>4, <1>5, <1>6, <1>7

(* The server decides on a well-formed store, or refuses.                  *)
LEMMA DecideStep ==
  ASSUME Consistent, NEW b \in Browser, Decide(b)
  PROVE  Consistent'
<1> DEFINE plan == PlanOf(store, call[b].r)
<1>1. /\ call[b].stage = "posted" /\ UNCHANGED <<store, page, posts>>
      /\ call' = [call EXCEPT ![b] =
           IF plan.verdict = "ok" THEN [stage |-> "planned", r |-> call[b].r, plan |-> plan]
           ELSE [stage |-> "refused", r |-> call[b].r, code |-> plan.verdict]]
  BY DEF Decide, At
<1>2. call[b].r \in Requests
  BY <1>1 DEF Consistent, CallTyped, Idle
<1>3. CallTyped(call'[b])
  <2>1. CASE plan.verdict = "ok"
    <3>1. call'[b] = [stage |-> "planned", r |-> call[b].r, plan |-> plan]
      BY <1>1, <2>1 DEF Consistent
    <3>2. WellFormed(store) /\ PlanOf(store, call'[b].r).verdict = "ok"
          /\ call'[b].plan = PlanOf(store, call'[b].r)
      BY <2>1, <3>1 DEF Consistent
    <3>3. call'[b].stage = "planned" /\ call'[b].r \in Requests
      BY <1>2, <3>1
    <3> QED BY <3>2, <3>3 DEF CallTyped
  <2>2. CASE plan.verdict # "ok"
    <3>1. call'[b] = [stage |-> "refused", r |-> call[b].r, code |-> plan.verdict]
      BY <1>1, <2>2 DEF Consistent
    <3> QED BY <1>2, <3>1 DEF CallTyped
  <2> QED BY <2>1, <2>2
<1>4. DOMAIN call' = Browser /\ \A c \in Browser : c # b => call'[c] = call[c]
  BY <1>1 DEF Consistent
<1>5. \A c \in Browser : CallTyped(call'[c])
  BY <1>3, <1>4 DEF Consistent
<1> QED BY <1>1, <1>4, <1>5 DEF Consistent

(* a conflict,                                                             *)
LEMMA ConflictStep ==
  ASSUME Consistent, NEW b \in Browser, Conflict(b)
  PROVE  Consistent'
<1>1. /\ call[b].stage = "planned" /\ UNCHANGED <<store, page, posts>>
      /\ call' = [call EXCEPT ![b] = [stage |-> "refused", r |-> call[b].r, code |-> "conflict"]]
  BY DEF Conflict, At
<1>2. call[b].r \in Requests
  BY <1>1 DEF Consistent, CallTyped, Idle
<1>3. CallTyped(call'[b])
  <2>1. call'[b] = [stage |-> "refused", r |-> call[b].r, code |-> "conflict"]
    BY <1>1 DEF Consistent
  <2> QED BY <1>2, <2>1 DEF CallTyped
<1>4. DOMAIN call' = Browser /\ \A c \in Browser : c # b => call'[c] = call[c]
  BY <1>1 DEF Consistent
<1>5. \A c \in Browser : CallTyped(call'[c])
  BY <1>3, <1>4 DEF Consistent
<1> QED BY <1>1, <1>4, <1>5 DEF Consistent

(* The answer to a refusal is a page.                                      *)
LEMMA PageAfterTyped ==
  ASSUME WellFormed(store), NEW b, page[b] \in Pages, NEW r \in Requests, NEW code
  PROVE  PageAfter(b, r, code) \in Pages
<1>1. CASE r.op \in {"save", "promote"}
  <2>1. /\ r.p \in Product /\ r.e \in Env /\ r.fields \in Fields(Text) /\ r.touched \in SUBSET Key
    BY <1>1, RequestKinds DEF SaveRequest, PromoteRequest
  <2>2. PageAfter(b, r, code) = ProductPage(r.p, r.e, r.fields, r.touched, FALSE)
    BY <1>1 DEF PageAfter
  <2> QED BY <2>1, <2>2, ProductPageTyped
<1>2. CASE r.op \in {"delete", "add"}
  <2>1. r.p \in Product /\ r.e \in Env
    BY <1>2, RequestKinds DEF DeleteRequest, AddRequest
  <2>2. PageAfter(b, r, code) = ProductPage(r.p, r.e, Nothing, {}, FALSE)
    BY <1>2 DEF PageAfter
  <2> QED BY <2>1, <2>2, FieldsNothing, ProductPageTyped
<1>3. CASE r.op = "retire"
  <2>1. r.p \in Product /\ r.e \in Env
    BY <1>3, RequestKinds DEF RetireRequest
  <2>2. PageAfter(b, r, code) = ProductPage(r.p, r.e, Nothing, {}, code = "exists")
    BY <1>3 DEF PageAfter
  <2>3. (code = "exists") \in BOOLEAN
    OBVIOUS
  <2>4. ProductPage(r.p, r.e, Nothing, {}, code = "exists") \in Pages
    BY <2>1, <2>3, FieldsNothing, ProductPageTyped
  <2> QED BY <2>2, <2>4
<1>4. CASE r.op = "archive" /\ code = "exists"
  <2>1. PageAfter(b, r, code) = [page[b] EXCEPT !.force = TRUE]
    BY <1>4 DEF PageAfter
  <2>2. [page[b] EXCEPT !.force = TRUE] \in Pages
    <3>1. CASE page[b] = NoPage
      <4>1. [page[b] EXCEPT !.force = TRUE] = NoPage
        BY <3>1 DEF NoPage
      <4> QED BY <4>1 DEF Pages
    <3>2. CASE page[b] \in FlagsPage
      <4>1. [page[b] EXCEPT !.force = TRUE] \in FlagsPage
        BY <3>2 DEF FlagsPage
      <4> QED BY <4>1 DEF Pages
    <3>3. CASE page[b] \in EditPage
      <4>1. [page[b] EXCEPT !.force = TRUE] \in EditPage
        BY <3>3 DEF EditPage
      <4> QED BY <4>1 DEF Pages
    <3>4. CASE page[b] \in ConfirmPage
      <4>1. [page[b] EXCEPT !.force = TRUE] \in ConfirmPage
        BY <3>4 DEF ConfirmPage
      <4> QED BY <4>1 DEF Pages
    <3> QED BY <3>1, <3>2, <3>3, <3>4 DEF Pages
  <2> QED BY <2>1, <2>2
<1>5. CASE (r.op = "archive" /\ code # "exists") \/ r.op \in {"new", "flag"}
  BY <1>5 DEF PageAfter, Pages
<1> QED BY <1>1, <1>2, <1>3, <1>4, <1>5, RequestKinds

(* and the page that follows it.                                           *)
LEMMA RerenderStep ==
  ASSUME Consistent, NEW b \in Browser, Rerender(b)
  PROVE  Consistent'
<1>1. /\ call[b].stage = "refused" /\ UNCHANGED <<store, posts>>
      /\ call' = [call EXCEPT ![b] = Idle]
      /\ page' = [page EXCEPT ![b] = PageAfter(b, call[b].r, call[b].code)]
  BY DEF Rerender, At, Show
<1>2. call[b].r \in Requests
  BY <1>1 DEF Consistent, CallTyped, Idle
<1>3. PageAfter(b, call[b].r, call[b].code) \in Pages
  BY <1>2, PageAfterTyped DEF Consistent
<1>4. page' \in [Browser -> Pages]
  BY <1>1, <1>3 DEF Consistent
<1>5. DOMAIN call' = Browser /\ \A c \in Browser : CallTyped(call'[c])
  BY <1>1 DEF Consistent, CallTyped
<1> QED BY <1>1, <1>4, <1>5 DEF Consistent

(* The commit of a plan: what was planned on an older store is what would  *)
(* be planned on this one.                                                 *)
LEMMA RetireAlike ==
  ASSUME NEW s, NEW t, NEW r, SetRetiring(s, r).verdict = "ok", Still(t, SetRetiring(s, r))
  PROVE  Known(t, r.p) /\ SetRetiring(s, r).writes = RetireWrites(t, r)
<1>1. Known(s, r.p) /\ SetRetiring(s, r) = Plan(s, r.p, {}, RetireWrites(s, r))
  BY RetireOk
<1>2. t[Services] = s[Services] /\ t[SchemaOf(r.p)] = s[SchemaOf(r.p)]
  BY <1>1, PlanExpects
<1>3. Known(t, r.p) /\ RetireWrites(t, r) = RetireWrites(s, r)
  BY <1>1, <1>2, KnownAlike DEF RetireWrites
<1> QED BY <1>1, <1>3, PlanIs

(* A flag decides by the flags it read.                                    *)
LEMMA FlagAlike ==
  ASSUME NEW s, WellFormed(s), NEW t, NEW r, Still(t, SetFlag(s, r)), r.etag = SetFlag(s, r).read
  PROVE  SetFlag(t, r).verdict = "ok" /\ SetFlag(t, r).writes = SetFlag(s, r).writes
<1>1. r.etag = s[Flags] /\ r.etag # Any
  BY DataAssumption DEF SetFlag, WellFormed
<1>2. SetFlag(s, r).expects = Sole(Flags, r.etag)
  BY <1>1 DEF SetFlag
<1>3. t[Flags] = r.etag
  <2>1. /\ DOMAIN SetFlag(s, r).expects = {Flags}
        /\ SetFlag(s, r).expects[Flags] = r.etag
    BY <1>2, SoleIs
  <2> QED BY <2>1 DEF Still
<1> QED BY <1>1, <1>3 DEF SetFlag, Has

(* What lands is what the operation would do where it lands.               *)
LEMMA CommitIs ==
  ASSUME Consistent, NEW b \in Browser, Commit(b)
  PROVE  /\ call[b].r \in Requests /\ store' = Merge(store, call[b].plan.writes)
         /\ call[b].r.op \notin {"retire", "flag"} \/ Optimistic(b) =>
              /\ PlanOf(store, call[b].r).verdict = "ok"
              /\ PlanOf(store, call[b].r).writes = call[b].plan.writes
         /\ call[b].r.op = "retire" =>
              /\ Known(store, call[b].r.p)
              /\ call[b].plan.writes = RetireWrites(store, call[b].r)
         /\ call[b].r.op = "flag" =>
              Fits(call[b].plan.writes) /\ DOMAIN call[b].plan.writes = {Flags}
<1> DEFINE r == call[b].r
<1>1. /\ call[b].stage = "planned" /\ Still(store, call[b].plan)
      /\ store' = Merge(store, call[b].plan.writes)
  BY DEF Commit, At
<1>2. r \in Requests
  BY <1>1 DEF Consistent, CallTyped, Idle
<1>3. PICK s : WellFormed(s) /\ PlanOf(s, r).verdict = "ok" /\ call[b].plan = PlanOf(s, r)
  BY <1>1 DEF Consistent, CallTyped, Idle
<1>4. ASSUME r.op \notin {"retire", "flag"}
      PROVE  PlanOf(store, r).verdict = "ok" /\ PlanOf(store, r).writes = call[b].plan.writes
  BY <1>1, <1>2, <1>3, <1>4, PlansAlike
<1>5. ASSUME r.op = "flag", Optimistic(b)
      PROVE  PlanOf(store, r).verdict = "ok" /\ PlanOf(store, r).writes = call[b].plan.writes
  <2>1. r.etag = call[b].plan.read
    BY <1>5 DEF Optimistic
  <2> QED BY <1>1, <1>3, <1>5, <2>1, PlanOfIs, FlagAlike
<1>6. ASSUME r.op = "retire"
      PROVE  /\ ~ Optimistic(b) /\ Known(store, r.p)
             /\ call[b].plan.writes = RetireWrites(store, r)
  BY <1>1, <1>3, <1>6, PlanOfIs, RetireAlike DEF Optimistic
<1>7. ASSUME r.op = "flag"
      PROVE  Fits(call[b].plan.writes) /\ DOMAIN call[b].plan.writes = {Flags}
  BY <1>2, <1>3, <1>7, RequestKinds, PlanOfIs, FlagFit
<1> QED BY <1>1, <1>2, <1>4, <1>5, <1>6, <1>7

(* The commit keeps the documents well formed and the products whole.      *)
LEMMA CommitFits ==
  ASSUME Consistent, NEW b \in Browser, Commit(b)
  PROVE  /\ Fits(call[b].plan.writes)
         /\ Whole(store) => Whole(store')
<1>0. WellFormed(store)
  BY DEF Consistent
<1>1. CASE call[b].r.op \notin {"retire", "flag"}
  BY <1>0, <1>1, CommitIs, PlansFit, PlansWhole
<1>2. CASE call[b].r.op = "retire"
  <2>1. call[b].r \in RetireRequest
    BY <1>2, CommitIs, RequestKinds
  <2> QED BY <1>0, <1>2, <2>1, CommitIs, RetireFit, RetireWhole
<1>3. CASE call[b].r.op = "flag"
  BY <1>0, <1>3, CommitIs, FlagWhole
<1> QED BY <1>1, <1>2, <1>3

(* A commit keeps Consistent.                                              *)
LEMMA CommitStep ==
  ASSUME Consistent, NEW b \in Browser, Commit(b)
  PROVE  Consistent'
<1>1. /\ page' = [page EXCEPT ![b] = NoPage] /\ call' = [call EXCEPT ![b] = Idle]
      /\ posts' = posts
  BY DEF Commit, Show
<1>2. WellFormed(store')
  BY CommitFits, CommitIs, WellFormedMerge DEF Consistent
<1>3. page' \in [Browser -> Pages]
  BY <1>1 DEF Consistent, Pages
<1>4. DOMAIN call' = Browser /\ \A c \in Browser : CallTyped(call'[c])
  BY <1>1 DEF Consistent, CallTyped
<1>5. WellFormed(store)'
  BY <1>2 DEF WellFormed, Path, ProductPaths, ConfigPaths, Services, Flags
<1> QED BY <1>1, <1>3, <1>4, <1>5 DEF Consistent

(* The stores a run starts from are well formed and whole.                 *)
LEMMA ConsistentInit == Init => Consistent /\ Whole(store)
<1> SUFFICES ASSUME Init PROVE Consistent /\ Whole(store)
  OBVIOUS
<1>1. WellFormed(store) /\ Whole(store) /\ posts \in 0..MaxPosts
  BY ConsoleAssumption DEF Init
<1>2. page \in [Browser -> Pages] /\ DOMAIN call = Browser /\ \A b \in Browser : CallTyped(call[b])
  BY DEF Init, Pages, CallTyped
<1> QED BY <1>1, <1>2 DEF Consistent

(* Consistency is inductive, and only a commit changes the store.          *)
LEMMA ConsistentStep == Consistent /\ [Next]_vars => Consistent'
<1> SUFFICES ASSUME Consistent, [Next]_vars PROVE Consistent'
  OBVIOUS
<1>1. CASE UNCHANGED vars
  BY <1>1 DEF vars, Consistent
<1>2. ASSUME NEW b \in Browser,
             \/ Open(b) \/ OpenFlags(b) \/ AskCreate(b) \/ AskDelete(b) \/ AskArchive(b)
             \/ Save(b) \/ Create(b) \/ PostPromote(b) \/ PostDelete(b) \/ PostAddKeys(b)
             \/ PostRetire(b) \/ PostArchive(b) \/ PostNew(b) \/ Click(b)
             \/ Decide(b) \/ Commit(b) \/ Conflict(b) \/ Rerender(b)
      PROVE  Consistent'
  BY <1>2, PagesStep, SaveStep, CreateStep, PostsStep, DecideStep, CommitStep, ConflictStep,
     RerenderStep
<1> QED BY <1>1, <1>2 DEF Next

(* All steps but a commit leave the store alone, and none but a commit     *)
(* takes a planned call away.                                              *)
LEMMA OnlyCommits ==
  ASSUME Consistent, NEW b \in Browser,
         \/ Open(b) \/ OpenFlags(b) \/ AskCreate(b) \/ AskDelete(b) \/ AskArchive(b)
         \/ Save(b) \/ Create(b) \/ PostPromote(b) \/ PostDelete(b) \/ PostAddKeys(b)
         \/ PostRetire(b) \/ PostArchive(b) \/ PostNew(b) \/ Click(b)
         \/ Decide(b) \/ Conflict(b) \/ Rerender(b)
  PROVE  UNCHANGED store /\ \A c \in Browser : ~ Landed(c)
<1>1. CASE \/ Open(b) \/ OpenFlags(b) \/ AskCreate(b) \/ AskDelete(b) \/ AskArchive(b)
  <2>1. UNCHANGED <<store, call>>
    BY <1>1 DEF Open, OpenFlags, AskCreate, AskDelete, AskArchive
  <2> QED BY <2>1 DEF Landed, At, Idle
<1>2. ASSUME NEW r, Send(b, r)
      PROVE  UNCHANGED store /\ \A c \in Browser : ~ Landed(c)
  <2>1. UNCHANGED store /\ call' = [call EXCEPT ![b] = [stage |-> "posted", r |-> r]]
    BY <1>2 DEF Send
  <2> QED BY <2>1 DEF Landed, At, Idle, Consistent
<1>3. CASE \/ Save(b) \/ PostPromote(b) \/ PostDelete(b) \/ PostAddKeys(b)
           \/ PostRetire(b) \/ PostArchive(b) \/ PostNew(b) \/ Click(b)
  BY <1>2, <1>3
  DEF Save, PostPromote, PostDelete, PostAddKeys, PostRetire, PostArchive, PostNew, Click
<1>4. CASE Create(b)
  <2>1. CASE page[b].base = Base(store, page[b].p)
    BY <1>2, <1>4, <2>1 DEF Create
  <2>2. CASE page[b].base # Base(store, page[b].p)
    <3>1. UNCHANGED <<store, call>>
      BY <1>4, <2>2 DEF Create
    <3> QED BY <3>1 DEF Landed, At, Idle
  <2> QED BY <2>1, <2>2
<1>5. CASE Decide(b)
  <2>1. /\ UNCHANGED store
        /\ \A c \in Browser : c # b => call'[c] = call[c]
        /\ call[b].stage = "posted"
    BY <1>5 DEF Decide, At, Consistent
  <2> QED BY <2>1 DEF Landed, At, Idle
<1>6. CASE Conflict(b)
  <2>1. /\ UNCHANGED store
        /\ \A c \in Browser : c # b => call'[c] = call[c]
        /\ call'[b] = [stage |-> "refused", r |-> call[b].r, code |-> "conflict"]
    BY <1>6 DEF Conflict, Consistent
  <2> QED BY <2>1 DEF Landed, At, Idle
<1>7. CASE Rerender(b)
  <2>1. /\ UNCHANGED store
        /\ \A c \in Browser : c # b => call'[c] = call[c]
        /\ call[b].stage = "refused"
    BY <1>7 DEF Rerender, At, Consistent
  <2> QED BY <2>1 DEF Landed, At, Idle
<1> QED BY <1>1, <1>3, <1>4, <1>5, <1>6, <1>7

(* A plan lands by its own commit.                                         *)
LEMMA LandedIsCommit ==
  ASSUME Consistent, [Next]_vars, NEW b \in Browser, Landed(b)
  PROVE  Commit(b)
<1>1. CASE UNCHANGED vars
  BY <1>1 DEF vars, Landed, At, Idle
<1>2. PICK c \in Browser : Commit(c)
  BY <1>1, OnlyCommits DEF Next
<1>3. c = b
  BY <1>2 DEF Commit, Landed, At, Idle, Consistent
<1> QED BY <1>2, <1>3

(* Wholeness is inductive together with consistency.                       *)
LEMMA WholeStep == Consistent /\ Whole(store) /\ [Next]_vars => Whole(store')
<1> SUFFICES ASSUME Consistent, Whole(store), [Next]_vars PROVE Whole(store')
  OBVIOUS
<1>1. CASE UNCHANGED vars
  BY <1>1 DEF vars
<1>2. CASE \E b \in Browser : Commit(b)
  BY <1>2, CommitFits
<1>3. CASE Next /\ ~ \E b \in Browser : Commit(b)
  <2>1. UNCHANGED store
    BY <1>3, OnlyCommits DEF Next
  <2> QED BY <2>1
<1> QED BY <1>1, <1>2, <1>3

(* Consistency is more than type correctness.                              *)
LEMMA ConsistentMeansTypeOK == Consistent => TypeOK
<1> SUFFICES ASSUME Consistent PROVE TypeOK
  OBVIOUS
<1>1. ASSUME NEW b \in Browser
      PROVE  /\ call[b].stage \in {"idle", "posted", "planned", "refused"}
             /\ page[b].kind \in {"none", "product", "flags", "create", "delete", "archive"}
  BY PageKinds DEF Consistent, CallTyped, Idle
<1> QED BY <1>1 DEF Consistent, TypeOK

-----------------------------------------------------------------------------
(* Theorems.                                                               *)

(* Consistent is an invariant.                                             *)
LEMMA AlwaysConsistent == Spec => []Consistent
<1> QED BY ConsistentInit, ConsistentStep, PTL DEF Spec

(* The documents and the calls keep their shape: whatever is committed,    *)
(* the schemas, files, flags and the registry stay well formed, and every  *)
(* request is at a stage of its own.                                       *)
THEOREM TypeCorrect == Spec => []TypeOK
<1> QED BY AlwaysConsistent, ConsistentMeansTypeOK, PTL

(* However batches of creations, archives and edits overlap, a product is  *)
(* registered exactly while it has a schema, no file outlives its product, *)
(* and no two products share a uid.                                        *)
THEOREM ProductsStayWhole == Spec => []ProductsAreWhole
<1>1. Init => ProductsAreWhole
  BY ConsistentInit DEF ProductsAreWhole
<1>2. Consistent /\ ProductsAreWhole /\ [Next]_vars => ProductsAreWhole'
  BY WholeStep DEF ProductsAreWhole, Whole, Registered, Has, Environments, Services
<1> QED BY <1>1, <1>2, AlwaysConsistent, PTL DEF Spec

(* Optimistic concurrency is serializable: what a commit writes is what    *)
(* the operation would decide on the store it lands on.                    *)
THEOREM CommitsAreSerial == Spec => CommitIsSerial
<1>1. Consistent /\ [Next]_vars =>
        \A b \in Browser :
          Landed(b) /\ Optimistic(b) =>
            /\ PlanOf(store, call[b].r).verdict = "ok"
            /\ PlanOf(store, call[b].r).writes = call[b].plan.writes
  BY LandedIsCommit, CommitIs
<1> QED BY <1>1, AlwaysConsistent, PTL DEF Spec, CommitIsSerial

(* Every write validates against the schema that is there when it lands:   *)
(* a plan made on an older schema does not land on a newer one.            *)
THEOREM LandedWritesValidate == Spec => WhatLandsValidates
<1>1. ASSUME Consistent, [Next]_vars, NEW b \in Browser, Landed(b),
             call[b].r.op \in {"save", "promote", "add", "delete", "new"}
      PROVE  Sound(store, store', call[b].r.p)
  <2>1. /\ call[b].r \in Requests /\ store' = Merge(store, call[b].plan.writes)
        /\ PlanOf(store, call[b].r).verdict = "ok"
        /\ PlanOf(store, call[b].r).writes = call[b].plan.writes
    BY <1>1, LandedIsCommit, CommitIs
  <2> QED BY <1>1, <2>1, PlansSound DEF Consistent
<1>2. Consistent /\ [Next]_vars =>
        \A b \in Browser :
          Landed(b) /\ call[b].r.op \in {"save", "promote", "add", "delete", "new"} =>
            LET p == call[b].r.p IN
            \A e \in Environments(store', p) :
              \/ /\ store'[ConfigOf(p, e)] = store[ConfigOf(p, e)]
                 /\ store'[SchemaOf(p)] = store[SchemaOf(p)]
              \/ Validates(store'[SchemaOf(p)].keys, Values(store', p, e))
  BY <1>1 DEF Sound
<1> QED BY <1>2, AlwaysConsistent, PTL DEF Spec, WhatLandsValidates

(* A confirmed plan is one for the very state the page named.              *)
LEMMA ConfirmedBase ==
  ASSUME NEW s, WellFormed(s), NEW r, r.p \in Product, r.base \in UNION {Bases(p) : p \in Product},
         Confirmed(s, r)
  PROVE  r.base = Base(s, r.p)
<1>1. r.base # Any
  BY DataAssumption
<1> QED BY <1>1 DEF Confirmed

(* A deletion and an archive destroy what their page showed, and nothing   *)
(* that changed behind it; an archive holds all that leaves.               *)
THEOREM ConfirmedIsDone == Spec => ConfirmedIsWhatHappens
<1>1. ASSUME Consistent, [Next]_vars, NEW b \in Browser, Landed(b),
             call[b].r.op \in {"delete", "archive"}
      PROVE  /\ call[b].r.base = Base(store, call[b].r.p)
             /\ call[b].r.op = "archive" =>
                  store'[ArchiveOf(call[b].r.p)] = Base(store, call[b].r.p)
  <2> DEFINE r == call[b].r
  <2>1. /\ r \in Requests /\ store' = Merge(store, call[b].plan.writes)
        /\ PlanOf(store, r).verdict = "ok"
        /\ PlanOf(store, r).writes = call[b].plan.writes
    BY <1>1, LandedIsCommit, CommitIs
  <2>2. WellFormed(store)
    BY <1>1 DEF Consistent
  <2>3. CASE r.op = "delete"
    <3>1. r \in DeleteRequest /\ DeleteKeys(store, r).verdict = "ok"
      BY <2>1, <2>3, RequestKinds, PlanOfIs
    <3>2. Confirmed(store, r)
      BY <3>1, DeleteOk DEF Deletable
    <3>3. r.p \in Product /\ r.base \in UNION {Bases(p) : p \in Product}
      BY <3>1 DEF DeleteRequest
    <3> HIDE DEF r
    <3>4. r.base = Base(store, r.p)
      BY <2>2, <3>2, <3>3, ConfirmedBase
    <3> QED BY <2>3, <3>4 DEF r
  <2>4. CASE r.op = "archive"
    <3>1. r \in ArchiveRequest /\ ArchiveProduct(store, r).verdict = "ok"
      BY <2>1, <2>4, RequestKinds, PlanOfIs
    <3>2. Archivable(store, r) /\ ArchiveProduct(store, r).writes = ArchiveWrites(store, r)
      BY <3>1, ArchiveOk, PlanIs
    <3>3. r.p \in Product /\ r.base \in UNION {Bases(p) : p \in Product}
      BY <3>1 DEF ArchiveRequest
    <3>4. store' = Merge(store, ArchiveWrites(store, r))
      BY <2>1, <3>1, <3>2, <2>4, PlanOfIs
    <3> HIDE DEF r
    <3>5. r.base = Base(store, r.p)
      BY <2>2, <3>2, <3>3, ConfirmedBase DEF Archivable
    <3>6. store'[ArchiveOf(r.p)] = Base(store, r.p)
      <4>1. ArchiveOf(r.p) \in DOMAIN ArchiveWrites(store, r)
        BY ArchiveWritesIs, ZenonT(30)
      <4>2. ArchiveWrites(store, r)[ArchiveOf(r.p)] = Base(store, r.p)
        BY ArchiveWritesIs
      <4>3. Merge(store, ArchiveWrites(store, r))[ArchiveOf(r.p)] = Base(store, r.p)
        BY <4>1, <4>2, MergeHas
      <4> QED BY <3>4, <4>3
    <3> QED BY <3>5, <3>6 DEF r
  <2> QED BY <1>1, <2>3, <2>4
<1>2. Consistent /\ [Next]_vars =>
        \A b \in Browser :
          Landed(b) /\ call[b].r.op \in {"delete", "archive"} =>
            /\ call[b].r.base = Base(store, call[b].r.p)
            /\ call[b].r.op = "archive" =>
                 store'[ArchiveOf(call[b].r.p)] = Base(store, call[b].r.p)
  BY <1>1
<1> QED BY <1>2, AlwaysConsistent, PTL DEF Spec, ConfirmedIsWhatHappens

-----------------------------------------------------------------------------
(* Files only age: a commit keeps a file, and the secrecy of what it       *)
(* holds, or leaves a later version, or takes the whole product away.      *)

(* The file has moved past version n, or the product into its archive, and *)
(* unless the product is created again the file never comes back to n.     *)
Archived(s, p) == p \notin Registered(s) /\ Has(s, ArchiveOf(p))

Gone(s, p, e, n) ==
  IF Has(s, ConfigOf(p, e)) THEN s[ConfigOf(p, e)].version > n ELSE Archived(s, p)

SecretsStay(s, t, p, e) ==
  \A k \in DOMAIN Values(s, p, e) : Secret(s, p, k) => Secret(t, p, k)

Ages(s, t) ==
  \A p \in Product, e \in Env :
    /\ Has(s, ConfigOf(p, e)) =>
         \/ t[ConfigOf(p, e)] = s[ConfigOf(p, e)] /\ SecretsStay(s, t, p, e)
         \/ Gone(t, p, e, s[ConfigOf(p, e)].version)
    /\ Archived(s, p) => Archived(t, p) /\ t[ConfigOf(p, e)] = s[ConfigOf(p, e)]

(* An archive may be replaced by another, and is never removed.            *)
LEMMA ArchivesStay ==
  ASSUME NEW s, WellFormed(s), NEW w, Fits(w), NEW p \in Product, Has(s, ArchiveOf(p)),
         ArchiveOf(p) \in DOMAIN w => w[ArchiveOf(p)] # Absent
  PROVE  Has(Merge(s, w), ArchiveOf(p))
<1>1. ArchiveOf(p) \in Path
  BY PathKinds
<1>2. Merge(s, w)[ArchiveOf(p)]
        = IF ArchiveOf(p) \in DOMAIN w THEN w[ArchiveOf(p)] ELSE s[ArchiveOf(p)]
  BY <1>1, AfterMerge
<1> QED BY <1>2 DEF Has

(* A change of a product that bumps every file it writes.                  *)
LEMMA EditAges ==
  ASSUME NEW s, WellFormed(s), NEW w, Fits(w), NEW p \in Product, Known(s, p),
         DOMAIN w \subseteq Own(p),
         \A e \in Env : ConfigOf(p, e) \in DOMAIN w =>
           /\ w[ConfigOf(p, e)] # Absent
           /\ w[ConfigOf(p, e)].version = Bumped(s[ConfigOf(p, e)]),
         \A e \in Env : ConfigOf(p, e) \notin DOMAIN w => SecretsStay(s, Merge(s, w), p, e)
  PROVE  Ages(s, Merge(s, w))
<1> DEFINE t == Merge(s, w)
<1>1. Services \notin DOMAIN w
  BY PathsDiffer DEF Own, ConfigPaths
<1>2. t[Services] = s[Services]
  BY <1>1, AfterMerge, PathKinds
<1>3. \A q \in Product \ {p} :
        t[SchemaOf(q)] = s[SchemaOf(q)] /\ \A e \in Env : t[ConfigOf(q, e)] = s[ConfigOf(q, e)]
  BY OthersKept
<1>4. p \in Registered(s) /\ Registered(t) = Registered(s)
  BY <1>2 DEF Known, Registered
<1>5. ASSUME NEW e \in Env
      PROVE  IF ConfigOf(p, e) \in DOMAIN w THEN t[ConfigOf(p, e)] = w[ConfigOf(p, e)]
             ELSE t[ConfigOf(p, e)] = s[ConfigOf(p, e)] /\ SecretsStay(s, t, p, e)
  BY AfterMerge, PathKinds
<1>9. ASSUME NEW q \in Product, Has(s, ArchiveOf(q)) PROVE Has(t, ArchiveOf(q))
  <2>1. ArchiveOf(q) # SchemaOf(p) /\ \A e \in Env : ArchiveOf(q) # ConfigOf(p, e)
    BY PathsDiffer
  <2>2. ArchiveOf(q) \notin Own(p)
    BY <2>1 DEF Own, ConfigPaths
  <2> QED BY <1>9, <2>2, ArchivesStay
<1> HIDE DEF t
<1>6. ASSUME NEW q \in Product \ {p}, NEW e \in Env
      PROVE  t[ConfigOf(q, e)] = s[ConfigOf(q, e)] /\ SecretsStay(s, t, q, e)
  BY <1>3 DEF SecretsStay, Secret, Keys, Declared, Has
<1>7. ASSUME NEW e \in Env, Has(s, ConfigOf(p, e)), ConfigOf(p, e) \in DOMAIN w
      PROVE  Gone(t, p, e, s[ConfigOf(p, e)].version)
  <2>1. s[ConfigOf(p, e)].version \in Nat
    BY <1>7 DEF WellFormed, Has, ConfigDocument
  <2> QED BY <1>5, <1>7, <2>1 DEF Gone, Has, Bumped
<1>8. Ages(s, t)
  BY <1>4, <1>5, <1>6, <1>7, <1>9 DEF Ages, Archived
<1> QED BY <1>8 DEF t

(* A save and a promotion.                                                 *)
LEMMA ValuesAge ==
  ASSUME NEW s, WellFormed(s), NEW p \in Product, NEW x \in Env, NEW changes \in Fields(Text),
         Known(s, p)
  PROVE  Ages(s, Merge(s, ValuesWritten(s, p, x, changes)))
<1> DEFINE w == ValuesWritten(s, p, x, changes)
           d == Document(s[ConfigOf(p, x)], NextValues(s, p, x, changes))
<1>1. Fits(w) /\ NextValues(s, p, x, changes) \in Fields(Text)
  BY ValuesWrittenFit
<1>2. /\ DOMAIN w \subseteq {ConfigOf(p, x)} /\ DOMAIN w \subseteq Own(p)
      /\ SchemaOf(p) \notin DOMAIN w
  BY ValuesWrittenOwn
<1>3. ConfigOf(p, x) \in DOMAIN w => w[ConfigOf(p, x)] = d
  BY SoleIs DEF ValuesWritten, Nothing
<1>4. d # Absent /\ d.version = Bumped(s[ConfigOf(p, x)])
  <2>1. d \in ConfigDocument
    BY <1>1, DocumentTyped DEF WellFormed
  <2> QED BY <2>1, DataAssumption DEF Document
<1> HIDE DEF w, d
<1>5. Merge(s, w)[SchemaOf(p)] = s[SchemaOf(p)]
  BY <1>1, <1>2, AfterMerge, PathKinds
<1>6. \A e \in Env : SecretsStay(s, Merge(s, w), p, e)
  BY <1>5 DEF SecretsStay, Secret, Keys, Declared, Has
<1>7. \A e \in Env : ConfigOf(p, e) \in DOMAIN w =>
        w[ConfigOf(p, e)] # Absent /\ w[ConfigOf(p, e)].version = Bumped(s[ConfigOf(p, e)])
  BY <1>2, <1>3, <1>4
<1>8. Ages(s, Merge(s, w))
  BY <1>1, <1>2, <1>6, <1>7, EditAges
<1> QED BY <1>8 DEF w

(* An addition of keys declares none that is there already.                *)
LEMMA AddAges ==
  ASSUME NEW s, WellFormed(s), NEW r \in AddRequest, AddKeys(s, r).verdict = "ok"
  PROVE  Ages(s, Merge(s, AddKeys(s, r).writes))
<1> DEFINE w == AddWrites(s, r)
<1>1. r.p \in Product /\ r.e \in Env
  BY DEF AddRequest
<1>2. /\ Addable(s, r) /\ AddKeys(s, r).writes = w /\ Fits(w)
      /\ MoreKeys(s, r) \in Fields(Definition)
  BY AddFit
<1>3. /\ DOMAIN w \subseteq {SchemaOf(r.p), ConfigOf(r.p, r.e)}
      /\ w[SchemaOf(r.p)] = [s[SchemaOf(r.p)] EXCEPT !.keys = MoreKeys(s, r)]
      /\ SchemaOf(r.p) \in DOMAIN w
      /\ ConfigOf(r.p, r.e) \in DOMAIN w =>
           w[ConfigOf(r.p, r.e)] = Document(s[ConfigOf(r.p, r.e)], MoreValues(s, r))
  BY AddWritesIs
<1>4. DOMAIN w \subseteq Own(r.p)
  BY <1>1, <1>3 DEF Own, ConfigPaths
<1>5. /\ [s[SchemaOf(r.p)] EXCEPT !.keys = MoreKeys(s, r)] \in SchemaDocument
      /\ [s[SchemaOf(r.p)] EXCEPT !.keys = MoreKeys(s, r)].keys = MoreKeys(s, r)
  BY <1>1, <1>2, SchemaWithTyped DEF Addable, Known
<1> HIDE DEF w
<1>6. \A e \in Env : ConfigOf(r.p, e) \in DOMAIN w =>
        w[ConfigOf(r.p, e)] # Absent /\ w[ConfigOf(r.p, e)].version = Bumped(s[ConfigOf(r.p, e)])
  <2> SUFFICES ASSUME NEW e \in Env, ConfigOf(r.p, e) \in DOMAIN w
               PROVE  /\ w[ConfigOf(r.p, e)] # Absent
                      /\ w[ConfigOf(r.p, e)].version = Bumped(s[ConfigOf(r.p, e)])
    OBVIOUS
  <2>1. ConfigOf(r.p, e) = ConfigOf(r.p, r.e)
    BY <1>3, PathsDiffer
  <2>2. w[ConfigOf(r.p, e)] = Document(s[ConfigOf(r.p, e)], MoreValues(s, r))
    BY <1>3, <2>1
  <2>3. w[ConfigOf(r.p, e)] \in ConfigDocument \cup {Absent}
    BY <1>1, <1>2 DEF Fits
  <2>4. MoreValues(s, r) \in Fields(Text)
    BY <1>1, ValuesTyped, FieldsDefaults, FieldsMerge DEF MoreValues, AddRequest
  <2>5. Document(s[ConfigOf(r.p, e)], MoreValues(s, r)) \in ConfigDocument
    BY <1>1, <2>4, DocumentTyped DEF WellFormed
  <2> QED BY <2>2, <2>5, DataAssumption DEF Document
<1>7. Merge(s, w)[SchemaOf(r.p)].keys = MoreKeys(s, r) /\ Has(Merge(s, w), SchemaOf(r.p))
  BY <1>1, <1>2, <1>3, <1>5, AfterMerge, PathKinds, DataAssumption, ZenonT(60) DEF Has
<1>8. ASSUME NEW k \in Keys(s, r.p)
      PROVE  k \in DOMAIN MoreKeys(s, r) /\ MoreKeys(s, r)[k] = s[SchemaOf(r.p)].keys[k]
  <2>1. k \in DOMAIN s[SchemaOf(r.p)].keys /\ k \notin DOMAIN r.drafts
    BY <1>2, <1>8 DEF Addable, Known, Keys, Declared
  <2>2. DOMAIN MoreKeys(s, r) = DOMAIN s[SchemaOf(r.p)].keys \cup DOMAIN r.drafts
    BY MergeDomain DEF MoreKeys
  <2>3. MoreKeys(s, r)[k] = s[SchemaOf(r.p)].keys[k]
    BY <2>1, MergeKeeps DEF MoreKeys
  <2> QED BY <2>1, <2>2, <2>3
<1>9. \A e \in Env : SecretsStay(s, Merge(s, w), r.p, e)
  BY <1>7, <1>8 DEF SecretsStay, Secret, Keys, Declared
<1>10. Ages(s, Merge(s, w))
  BY <1>1, <1>2, <1>4, <1>6, <1>9, EditAges DEF Addable
<1> QED BY <1>2, <1>10

(* A deletion bumps every file that holds one of the keys.                 *)
LEMMA DeleteBumps ==
  ASSUME NEW s, NEW r, NEW e \in Hit(s, r.p, r.keys)
  PROVE  DeleteWrites(s, r)[ConfigOf(r.p, e)].version = Bumped(s[ConfigOf(r.p, e)])
<1> DEFINE f == Stripped(s, r.p, r.keys)
           g == SchemaWith(s, r.p, FewerKeys(s, r))
<1>1. f = [path \in {ConfigOf(r.p, x) : x \in Hit(s, r.p, r.keys)} |->
             Document(s[path], Without(ConfigOnly(s[path]), r.keys))]
  BY DEF Stripped, Hit
<1>2. /\ ConfigOf(r.p, e) \in DOMAIN f
      /\ f[ConfigOf(r.p, e)].version = Bumped(s[ConfigOf(r.p, e)])
  BY <1>1 DEF Document
<1>3. ConfigOf(r.p, e) \notin DOMAIN g
  <2>1. DOMAIN SchemaWith(s, r.p, FewerKeys(s, r)) = {SchemaOf(r.p)}
    BY SoleIs DEF SchemaWith
  <2>2. SchemaOf(r.p) # ConfigOf(r.p, e)
    BY PathsDiffer
  <2> QED BY <2>1, <2>2
<1>4. DeleteWrites(s, r) = Merge(f, g)
  BY DEF DeleteWrites
<1> HIDE DEF f, g
<1> QED BY <1>2, <1>3, <1>4, MergeKeeps

(* A deletion leaves alone only the files that hold none of the keys.      *)
LEMMA DeleteAges ==
  ASSUME NEW s, WellFormed(s), NEW r \in DeleteRequest, DeleteKeys(s, r).verdict = "ok"
  PROVE  Ages(s, Merge(s, DeleteKeys(s, r).writes))
<1> DEFINE w == DeleteWrites(s, r)
<1>1. r.p \in Product
  BY DEF DeleteRequest
<1>2. /\ Deletable(s, r) /\ DeleteKeys(s, r).writes = w /\ Fits(w)
      /\ FewerKeys(s, r) \in Fields(Definition)
  BY DeleteFit
<1>3. /\ DOMAIN w = {ConfigOf(r.p, e) : e \in Hit(s, r.p, r.keys)} \cup {SchemaOf(r.p)}
      /\ w[SchemaOf(r.p)] = [s[SchemaOf(r.p)] EXCEPT !.keys = FewerKeys(s, r)]
      /\ \A e \in Hit(s, r.p, r.keys) :
           /\ w[ConfigOf(r.p, e)] \in ConfigDocument
           /\ w[ConfigOf(r.p, e)].values = Without(Values(s, r.p, e), r.keys)
  BY <1>1, DeleteWritesIs
<1>4. /\ [s[SchemaOf(r.p)] EXCEPT !.keys = FewerKeys(s, r)] \in SchemaDocument
      /\ [s[SchemaOf(r.p)] EXCEPT !.keys = FewerKeys(s, r)].keys = FewerKeys(s, r)
  BY <1>1, <1>2, SchemaWithTyped DEF Deletable, Known
<1>5. \A e \in Hit(s, r.p, r.keys) : w[ConfigOf(r.p, e)].version = Bumped(s[ConfigOf(r.p, e)])
  BY DeleteBumps
<1> HIDE DEF w
<1>6. DOMAIN w \subseteq Own(r.p)
  <2>1. Hit(s, r.p, r.keys) \subseteq Env
    BY DEF Hit, Environments
  <2> QED BY <1>3, <2>1 DEF Own, ConfigPaths
<1>7. ASSUME NEW e \in Env
      PROVE  ConfigOf(r.p, e) \in DOMAIN w <=> e \in Hit(s, r.p, r.keys)
  BY <1>3, PathsDiffer
<1>8. \A e \in Env : ConfigOf(r.p, e) \in DOMAIN w =>
        w[ConfigOf(r.p, e)] # Absent /\ w[ConfigOf(r.p, e)].version = Bumped(s[ConfigOf(r.p, e)])
  BY <1>3, <1>5, <1>7, DataAssumption
<1>9. Merge(s, w)[SchemaOf(r.p)].keys = FewerKeys(s, r) /\ Has(Merge(s, w), SchemaOf(r.p))
  <2>1. SchemaOf(r.p) \in DOMAIN w /\ SchemaOf(r.p) \in Path
    BY <1>1, <1>3, PathKinds
  <2>2. Merge(s, w)[SchemaOf(r.p)] = w[SchemaOf(r.p)]
    BY <1>2, <2>1, AfterMerge
  <2> QED BY <1>3, <1>4, <2>2, DataAssumption DEF Has
<1>10. ASSUME NEW e \in Env, ConfigOf(r.p, e) \notin DOMAIN w
       PROVE  SecretsStay(s, Merge(s, w), r.p, e)
  <2> SUFFICES ASSUME NEW k \in DOMAIN Values(s, r.p, e), Secret(s, r.p, k)
               PROVE  Secret(Merge(s, w), r.p, k)
    BY DEF SecretsStay
  <2>1. k \in DOMAIN s[SchemaOf(r.p)].keys /\ s[SchemaOf(r.p)].keys[k].secret
    BY <1>2 DEF Secret, Keys, Declared, Deletable, Known
  <2>2. e \in Environments(s, r.p)
    BY DEF Values, ConfigOnly, Environments, Has, Nothing
  <2>3. k \notin r.keys
    BY <1>7, <1>10, <2>2 DEF Hit
  <2>4. k \in DOMAIN FewerKeys(s, r) /\ FewerKeys(s, r)[k] = s[SchemaOf(r.p)].keys[k]
    BY <2>1, <2>3 DEF FewerKeys, Without, Restrict
  <2> QED BY <1>9, <2>1, <2>4 DEF Secret, Keys, Declared
<1>11. Ages(s, Merge(s, w))
  BY <1>1, <1>2, <1>6, <1>8, <1>10, EditAges DEF Deletable
<1> QED BY <1>2, <1>11

(* Retiring keeps the keys and their secrecy; the flags are no product's.  *)
LEMMA RetireAges ==
  ASSUME NEW s, WellFormed(s), NEW r \in RetireRequest, Known(s, r.p)
  PROVE  Ages(s, Merge(s, RetireWrites(s, r)))
<1> DEFINE w == RetireWrites(s, r)
<1>1. r.p \in Product
  BY DEF RetireRequest
<1>2. /\ DOMAIN w = {SchemaOf(r.p)}
      /\ w[SchemaOf(r.p)] = [s[SchemaOf(r.p)] EXCEPT !.retiring = r.retiring]
  BY SoleIs DEF RetireWrites
<1>3. Fits(w) /\ w[SchemaOf(r.p)] \in SchemaDocument
  BY <1>2, RetireFit
<1>4. w[SchemaOf(r.p)].keys = s[SchemaOf(r.p)].keys
  BY <1>1, <1>2 DEF WellFormed, Known, Has, SchemaDocument
<1> HIDE DEF w
<1>5. \A e \in Env : ConfigOf(r.p, e) \notin DOMAIN w
  BY <1>2, PathsDiffer
<1>6. Merge(s, w)[SchemaOf(r.p)].keys = s[SchemaOf(r.p)].keys /\ Has(Merge(s, w), SchemaOf(r.p))
  <2>1. SchemaOf(r.p) \in Path
    BY <1>1, PathKinds
  <2>2. Merge(s, w)[SchemaOf(r.p)] = w[SchemaOf(r.p)]
    BY <1>2, <1>3, <2>1, AfterMerge
  <2> QED BY <1>3, <1>4, <2>2, DataAssumption DEF Has
<1>7. \A e \in Env : SecretsStay(s, Merge(s, w), r.p, e)
  BY <1>6 DEF SecretsStay, Secret, Keys, Declared, Known
<1>8. DOMAIN w \subseteq Own(r.p)
  BY <1>2 DEF Own
<1>9. Ages(s, Merge(s, w))
  BY <1>1, <1>3, <1>5, <1>7, <1>8, EditAges
<1> QED BY <1>9 DEF w

(* A flag that is written leaves every file as it was.                     *)
LEMMA FlagAges ==
  ASSUME NEW s, WellFormed(s), NEW w, Fits(w), DOMAIN w = {Flags}
  PROVE  Ages(s, Merge(s, w))
<1> DEFINE t == Merge(s, w)
<1>1. \A path \in Path : path # Flags => t[path] = s[path]
  BY AfterMerge
<1>2. t[Services] = s[Services] /\ \A p \in Product :
        t[SchemaOf(p)] = s[SchemaOf(p)] /\ \A e \in Env : t[ConfigOf(p, e)] = s[ConfigOf(p, e)]
  BY <1>1, PathKinds, PathsDiffer
<1>4. \A p \in Product : Has(s, ArchiveOf(p)) => Has(t, ArchiveOf(p))
  BY PathsDiffer, ArchivesStay
<1> HIDE DEF t
<1>5. \A p \in Product, e \in Env : SecretsStay(s, t, p, e)
  BY <1>2 DEF SecretsStay, Secret, Keys, Declared, Has
<1>3. Ages(s, t)
  BY <1>2, <1>4, <1>5 DEF Ages, Archived, Registered
<1> QED BY <1>3 DEF t

(* An archive is one more, and replaces no other product's.                *)
LEMMA ArchivesKept ==
  ASSUME NEW s, WellFormed(s), NEW r \in ArchiveRequest
  PROVE  /\ Has(Merge(s, ArchiveWrites(s, r)), ArchiveOf(r.p))
         /\ \A q \in Product :
              Has(s, ArchiveOf(q)) => Has(Merge(s, ArchiveWrites(s, r)), ArchiveOf(q))
<1> DEFINE w == ArchiveWrites(s, r)
<1>1. r.p \in Product
  BY DEF ArchiveRequest
<1>2. Fits(w)
  BY ArchiveFit
<1>3. ArchiveOf(r.p) \in DOMAIN w /\ w[ArchiveOf(r.p)] = Base(s, r.p)
  BY ArchiveWritesIs
<1>4. Base(s, r.p) # Absent
  BY <1>1, BaseTyped, DataAssumption
<1>5. ASSUME NEW q \in Product, ArchiveOf(q) \in DOMAIN w
      PROVE  w[ArchiveOf(q)] # Absent
  <2>1. ArchiveOf(q) \in {Services, ArchiveOf(r.p)} \cup Own(r.p)
    BY <1>5, ArchiveOwn
  <2>2. ArchiveOf(q) = ArchiveOf(r.p)
    BY <2>1, PathsDiffer DEF Own, ConfigPaths
  <2> QED BY <1>3, <1>4, <2>2
<1> HIDE DEF w
<1>6. \A q \in Product : Has(s, ArchiveOf(q)) => Has(Merge(s, w), ArchiveOf(q))
  BY <1>2, <1>5, ArchivesStay
<1>7. Has(Merge(s, w), ArchiveOf(r.p))
  <2>1. ArchiveOf(r.p) \in Path
    BY <1>1, PathKinds
  <2>2. Merge(s, w)[ArchiveOf(r.p)] = w[ArchiveOf(r.p)]
    BY <1>2, <1>3, <2>1, AfterMerge
  <2> QED BY <1>3, <1>4, <2>2 DEF Has
<1> QED BY <1>6, <1>7 DEF w

(* An archive takes every file and the registration with it.               *)
LEMMA ArchiveAges ==
  ASSUME NEW s, WellFormed(s), Whole(s), NEW r \in ArchiveRequest
  PROVE  Ages(s, Merge(s, ArchiveWrites(s, r)))
<1> DEFINE t == Merge(s, ArchiveWrites(s, r))
<1>1. /\ r.p \in Product
      /\ t[Services] = Without(s[Services], {r.p})
      /\ Environments(t, r.p) = {}
  BY ArchiveLeaves DEF ArchiveRequest
<1>2. \A q \in Product \ {r.p} :
        t[SchemaOf(q)] = s[SchemaOf(q)] /\ \A e \in Env : t[ConfigOf(q, e)] = s[ConfigOf(q, e)]
  BY ArchiveOthers
<1>9. Has(t, ArchiveOf(r.p)) /\ \A q \in Product : Has(s, ArchiveOf(q)) => Has(t, ArchiveOf(q))
  BY ArchivesKept
<1> HIDE DEF t
<1>3. Registered(t) = Registered(s) \ {r.p}
  BY <1>1 DEF Registered, Without, Restrict
<1>4. ASSUME NEW q \in Product \ {r.p}, NEW e \in Env
      PROVE  t[ConfigOf(q, e)] = s[ConfigOf(q, e)] /\ SecretsStay(s, t, q, e)
  BY <1>2 DEF SecretsStay, Secret, Keys, Declared, Has
<1>5. ASSUME NEW e \in Env
      PROVE  ~ Has(t, ConfigOf(r.p, e)) /\ Archived(t, r.p)
  BY <1>1, <1>3, <1>9 DEF Environments, Archived
<1>6. ASSUME NEW e \in Env, ~ Has(s, ConfigOf(r.p, e))
      PROVE  t[ConfigOf(r.p, e)] = s[ConfigOf(r.p, e)]
  BY <1>5, <1>6 DEF Has
<1>7. Whole(s) /\ r.p \notin Registered(s) => \A e \in Env : ~ Has(s, ConfigOf(r.p, e))
  BY <1>1 DEF Whole, Environments
<1>8. Whole(s) => Ages(s, t)
  BY <1>3, <1>4, <1>5, <1>6, <1>7, <1>9 DEF Ages, Gone, Archived
<1> QED BY <1>8 DEF t

(* A creation writes files where there are none, under a name that is not  *)
(* that of an archive.                                                     *)
LEMMA CreateAges ==
  ASSUME NEW s, WellFormed(s), NEW r \in NewRequest, Creatable(s, r), ~ Has(s, ArchiveOf(r.p))
  PROVE  Ages(s, Merge(s, CreateWrites(s, r)))
<1> DEFINE w == CreateWrites(s, r)
           t == Merge(s, w)
<1>1. r.p \in Product /\ r.envs \in SUBSET Env
  BY DEF NewRequest
<1>2. Fits(w)
  BY CreateFit
<1>3. /\ DOMAIN w = {ConfigOf(r.p, e) : e \in r.envs} \cup {SchemaOf(r.p), Services}
      /\ w[Services] = Merge(s[Services], Sole(r.p, r.uid))
  BY CreateWritesIs
<1>4. DOMAIN w \subseteq Own(r.p) \cup {Services, ArchiveOf(r.p)}
  BY <1>1, <1>3 DEF Own, ConfigPaths
<1> HIDE DEF w
<1>5. \A q \in Product \ {r.p} :
        t[SchemaOf(q)] = s[SchemaOf(q)] /\ \A e \in Env : t[ConfigOf(q, e)] = s[ConfigOf(q, e)]
  BY <1>1, <1>2, <1>4, OthersKept
<1>6. ASSUME NEW q \in Product, Has(s, ArchiveOf(q)) PROVE Has(t, ArchiveOf(q))
  <2>1. ArchiveOf(q) \notin DOMAIN w
    BY <1>3, PathsDiffer
  <2> QED BY <1>2, <1>6, <2>1, ArchivesStay
<1>7. Registered(t) = Registered(s) \cup {r.p}
  <2>1. Services \in DOMAIN w /\ Services \in Path
    BY <1>3, PathKinds
  <2>2. t[Services] = Merge(s[Services], Sole(r.p, r.uid))
    BY <1>2, <1>3, <2>1, AfterMerge
  <2>3. DOMAIN Sole(r.p, r.uid) = {r.p}
    BY SoleIs
  <2> QED BY <2>2, <2>3, MergeDomain DEF Registered
<1> HIDE DEF t
<1>8. ASSUME NEW q \in Product \ {r.p}, NEW e \in Env
      PROVE  SecretsStay(s, t, q, e)
  BY <1>5 DEF SecretsStay, Secret, Keys, Declared, Has
<1>9. \A e \in Env : ~ Has(s, ConfigOf(r.p, e))
  BY DEF Creatable, Environments
<1>10. Ages(s, t)
  BY <1>5, <1>6, <1>7, <1>8, <1>9 DEF Ages, Archived
<1> QED BY <1>10 DEF t, w

(* The name of a product that is created is not that of an archive.        *)
Unused(r) == r.op = "new" => ~ Has(store, ArchiveOf(r.p))

(* Every commit only ages the files, if what it creates has no archive.    *)
LEMMA CommitAges ==
  ASSUME Consistent, Whole(store), NEW b \in Browser, Commit(b), Unused(call[b].r)
  PROVE  Ages(store, store')
<1> DEFINE r == call[b].r
<1>1. WellFormed(store) /\ r \in Requests /\ store' = Merge(store, call[b].plan.writes)
  BY CommitIs DEF Consistent
<1>2. ASSUME r.op \notin {"retire", "flag"}
      PROVE  PlanOf(store, r).verdict = "ok" /\ store' = Merge(store, PlanOf(store, r).writes)
  BY <1>1, <1>2, CommitIs
<1>3. CASE r.op = "save"
  <2>1. r \in SaveRequest /\ WriteValues(store, r).verdict = "ok"
    BY <1>1, <1>2, <1>3, RequestKinds, PlanOfIs
  <2>2. r.p \in Product /\ r.e \in Env /\ r.changes \in Fields(Text)
    BY <2>1 DEF SaveRequest
  <2>3. /\ Known(store, r.p)
        /\ WriteValues(store, r).writes = ValuesWritten(store, r.p, r.e, r.changes)
    BY <1>1, <2>1, WriteValuesFit
  <2>4. store' = Merge(store, ValuesWritten(store, r.p, r.e, r.changes))
    BY <1>2, <1>3, <2>3, PlanOfIs
  <2> HIDE DEF r
  <2> QED BY <1>1, <2>2, <2>3, <2>4, ValuesAge
<1>4. CASE r.op = "promote"
  <2> DEFINE changes == Restrict(Values(store, r.p, r.e), r.keys)
  <2>1. r \in PromoteRequest /\ Promote(store, r).verdict = "ok"
    BY <1>1, <1>2, <1>4, RequestKinds, PlanOfIs
  <2>2. r.p \in Product
    BY <2>1 DEF PromoteRequest
  <2>3. /\ Known(store, r.p) /\ NextEnv(r.e) \in Env /\ changes \in Fields(Text)
        /\ Promote(store, r).writes = ValuesWritten(store, r.p, NextEnv(r.e), changes)
    BY <1>1, <2>1, PromoteFit DEF Promotable
  <2>4. store' = Merge(store, ValuesWritten(store, r.p, NextEnv(r.e), changes))
    BY <1>2, <1>4, <2>3, PlanOfIs
  <2> HIDE DEF r, changes
  <2> QED BY <1>1, <2>2, <2>3, <2>4, ValuesAge
<1>5. CASE r.op = "delete"
  <2>1. r \in DeleteRequest /\ DeleteKeys(store, r).verdict = "ok"
        /\ store' = Merge(store, DeleteKeys(store, r).writes)
    BY <1>1, <1>2, <1>5, RequestKinds, PlanOfIs
  <2> QED BY <1>1, <2>1, DeleteAges
<1>6. CASE r.op = "add"
  <2>1. r \in AddRequest /\ AddKeys(store, r).verdict = "ok"
        /\ store' = Merge(store, AddKeys(store, r).writes)
    BY <1>1, <1>2, <1>6, RequestKinds, PlanOfIs
  <2> QED BY <1>1, <2>1, AddAges
<1>7. CASE r.op = "archive"
  <2>1. r \in ArchiveRequest
    BY <1>1, <1>7, RequestKinds
  <2>2. PlanOf(store, r).writes = ArchiveWrites(store, r)
    BY <1>2, <1>7, PlanOfIs, ArchiveOk, PlanIs
  <2>3. store' = Merge(store, ArchiveWrites(store, r))
    BY <1>2, <1>7, <2>2
  <2> QED BY <1>1, <2>1, <2>3, ArchiveAges
<1>8. CASE r.op = "retire"
  <2>1. /\ r \in RetireRequest /\ Known(store, r.p)
        /\ store' = Merge(store, RetireWrites(store, r))
    BY <1>1, <1>8, CommitIs, RequestKinds
  <2> QED BY <1>1, <2>1, RetireAges
<1>9. CASE r.op = "flag"
  BY <1>1, <1>9, CommitIs, FlagAges
<1>10. CASE r.op = "new"
  <2>1. r \in NewRequest
    BY <1>1, <1>10, RequestKinds
  <2>2. Creatable(store, r) /\ PlanOf(store, r).writes = CreateWrites(store, r)
    BY <1>2, <1>10, PlanOfIs, CreateOk, PlanIs
  <2>3. store' = Merge(store, CreateWrites(store, r)) /\ ~ Has(store, ArchiveOf(r.p))
    BY <1>2, <1>10, <2>2 DEF Unused
  <2> QED BY <1>1, <2>1, <2>2, <2>3, CreateAges
<1> QED BY <1>1, <1>3, <1>4, <1>5, <1>6, <1>7, <1>8, <1>9, <1>10, RequestKinds

-----------------------------------------------------------------------------
(* What a page and a save recall of the file they are about.               *)

(* The file is still d, and what was secret in it still is; or it has      *)
(* moved past d.                                                           *)
Recalls(s, p, e, d, H) ==
  \/ Gone(s, p, e, d.version)
  \/ s[ConfigOf(p, e)] = d /\ \A k \in H \cap DOMAIN d.values : Secret(s, p, k)

(* What has moved past a version stays past it,                            *)
LEMMA GoneStays ==
  ASSUME NEW s, WellFormed(s), NEW t, WellFormed(t), Ages(s, t), NEW p \in Product, NEW e \in Env,
         NEW n \in Nat, Gone(s, p, e, n)
  PROVE  Gone(t, p, e, n)
<1>1. CASE Has(s, ConfigOf(p, e))
  <2>1. s[ConfigOf(p, e)].version \in Nat
    BY <1>1 DEF WellFormed, Has, ConfigDocument
  <2>2. Has(t, ConfigOf(p, e)) => t[ConfigOf(p, e)].version \in Nat
    BY DEF WellFormed, Has, ConfigDocument
  <2>3. \/ t[ConfigOf(p, e)] = s[ConfigOf(p, e)]
        \/ Gone(t, p, e, s[ConfigOf(p, e)].version)
    BY <1>1 DEF Ages
  <2> QED BY <1>1, <2>1, <2>2, <2>3 DEF Gone, Has
<1>2. CASE ~ Has(s, ConfigOf(p, e))
  <2>1. Archived(t, p) /\ t[ConfigOf(p, e)] = s[ConfigOf(p, e)]
    BY <1>2 DEF Gone, Ages
  <2> QED BY <1>2, <2>1 DEF Gone, Has
<1> QED BY <1>1, <1>2

(* so what recalls a file goes on recalling it.                            *)
LEMMA RecallsStays ==
  ASSUME NEW s, WellFormed(s), NEW t, WellFormed(t), Ages(s, t), NEW p \in Product, NEW e \in Env,
         NEW d \in ConfigDocument, NEW H, Recalls(s, p, e, d, H)
  PROVE  Recalls(t, p, e, d, H)
<1>1. d.version \in Nat /\ d # Absent
  BY DataAssumption DEF ConfigDocument
<1>2. CASE Gone(s, p, e, d.version)
  BY <1>1, <1>2, GoneStays DEF Recalls
<1>3. CASE s[ConfigOf(p, e)] = d /\ \A k \in H \cap DOMAIN d.values : Secret(s, p, k)
  <2>1. Has(s, ConfigOf(p, e)) /\ Values(s, p, e) = d.values
    BY <1>1, <1>3 DEF Has, Values, ConfigOnly
  <2>2. \/ t[ConfigOf(p, e)] = d /\ SecretsStay(s, t, p, e)
        \/ Gone(t, p, e, d.version)
    BY <1>3, <2>1 DEF Ages
  <2> QED BY <1>3, <2>1, <2>2 DEF Recalls, SecretsStay
<1> QED BY <1>2, <1>3 DEF Recalls

(* A fresh page shows the file, its secrets blanked.                       *)
PageRecalls(s, g) ==
  g.kind = "product" /\ ~ g.again /\ g.etag # Absent =>
    /\ \A k \in DOMAIN g.shown \cap DOMAIN g.etag.values :
         g.shown[k] = IF k \in g.hidden THEN Blank ELSE g.etag.values[k]
    /\ Recalls(s, g.p, g.e, g.etag, g.hidden)

(* A save of a fresh page asks for no change of a key that its operator    *)
(* did not touch, or cannot land any more.                                 *)
SaveRecalls(s, r) ==
  r.op = "save" /\ ~ r.again /\ r.etag # Absent =>
    \/ Gone(s, r.p, r.e, r.etag.version)
    \/ \A k \in (DOMAIN r.changes \cap DOMAIN r.etag.values) \ r.touched :
         r.changes[k] = r.etag.values[k]

CallRecalls(s, c) ==
  c.stage \in {"posted", "planned"} => SaveRecalls(s, c.r)

Remembered ==
  /\ Consistent /\ Whole(store)
  /\ \A b \in Browser : PageRecalls(store, page[b]) /\ CallRecalls(store, call[b])

(* What a page recalls stays true as the store ages.                       *)
LEMMA PageStays ==
  ASSUME NEW s, WellFormed(s), NEW t, WellFormed(t), Ages(s, t), NEW g \in Pages, PageRecalls(s, g)
  PROVE  PageRecalls(t, g)
<1> SUFFICES ASSUME g.kind = "product", ~ g.again, g.etag # Absent
             PROVE  PageRecalls(t, g)
  BY DEF PageRecalls
<1>1. g \in EditPage
  BY PageKinds
<1>2. g.p \in Product /\ g.e \in Env /\ g.etag \in ConfigDocument
  BY <1>1 DEF EditPage, Tag
<1>3. Recalls(t, g.p, g.e, g.etag, g.hidden)
  BY <1>2, RecallsStays DEF PageRecalls
<1> QED BY <1>3 DEF PageRecalls

(* So does what a call recalls.                                            *)
LEMMA CallStays ==
  ASSUME NEW s, WellFormed(s), NEW t, WellFormed(t), Ages(s, t), NEW c,
         CallTyped(c), CallRecalls(s, c)
  PROVE  CallRecalls(t, c)
<1> SUFFICES ASSUME c.stage \in {"posted", "planned"}, c.r.op = "save", ~ c.r.again,
                    c.r.etag # Absent, Gone(s, c.r.p, c.r.e, c.r.etag.version)
             PROVE  Gone(t, c.r.p, c.r.e, c.r.etag.version)
  BY DEF CallRecalls, SaveRecalls
<1>1. c.r \in SaveRequest
  BY RequestKinds DEF CallTyped, Idle
<1>2. c.r.p \in Product /\ c.r.e \in Env /\ c.r.etag \in ConfigDocument
  BY <1>1 DEF SaveRequest, Tag
<1>3. c.r.etag.version \in Nat
  BY <1>2 DEF ConfigDocument
<1> QED BY <1>2, <1>3, GoneStays

(* A page built from the store as it is recalls it.                        *)
LEMMA ProductPageRecalls ==
  ASSUME WellFormed(store), NEW p \in Product, NEW e \in Env, NEW typed, NEW touched, NEW ask
  PROVE  PageRecalls(store, ProductPage(p, e, typed, touched, ask))
<1> DEFINE g == ProductPage(p, e, typed, touched, ask)
<1> SUFFICES ASSUME g.kind = "product", ~ g.again, g.etag # Absent
             PROVE  PageRecalls(store, g)
  BY DEF PageRecalls
<1>1. Known(store, p)
  BY DEF ProductPage, NoPage
<1>2. /\ g.p = p /\ g.e = e /\ g.etag = store[ConfigOf(p, e)] /\ typed = Nothing
      /\ g.hidden = {k \in Keys(store, p) : Secret(store, p, k)}
      /\ g.shown = [k \in Keys(store, p) |->
                      IF k \in DOMAIN typed THEN typed[k]
                      ELSE IF k \in DOMAIN Values(store, p, e) /\ ~ Secret(store, p, k)
                           THEN Values(store, p, e)[k] ELSE Blank]
  BY <1>1 DEF ProductPage
<1>3. Values(store, p, e) = g.etag.values
  BY <1>2 DEF Values, ConfigOnly
<1>4. ASSUME NEW k \in DOMAIN g.shown \cap DOMAIN g.etag.values
      PROVE  g.shown[k] = IF k \in g.hidden THEN Blank ELSE g.etag.values[k]
  <2>1. k \notin DOMAIN typed
    BY <1>2 DEF Nothing
  <2> QED BY <1>2, <1>3, <1>4, <2>1
<1>5. Recalls(store, g.p, g.e, g.etag, g.hidden)
  BY <1>2 DEF Recalls
<1> HIDE DEF g
<1> QED BY <1>4, <1>5 DEF PageRecalls

(* The answer to a refusal recalls the store too, unless it shows what was *)
(* typed.                                                                  *)
LEMMA PageAfterRecalls ==
  ASSUME WellFormed(store), NEW b, page[b] \in Pages, PageRecalls(store, page[b]),
         NEW r \in Requests, NEW code
  PROVE  PageRecalls(store, PageAfter(b, r, code))
<1>1. CASE r.op \in {"save", "promote", "delete", "add", "retire"}
  <2>1. r.p \in Product /\ r.e \in Env
    BY <1>1, RequestKinds
       DEF SaveRequest, PromoteRequest, DeleteRequest, AddRequest, RetireRequest
  <2>2. \/ PageAfter(b, r, code) = ProductPage(r.p, r.e, r.fields, r.touched, FALSE)
        \/ PageAfter(b, r, code) = ProductPage(r.p, r.e, Nothing, {}, FALSE)
        \/ PageAfter(b, r, code) = ProductPage(r.p, r.e, Nothing, {}, code = "exists")
    BY <1>1 DEF PageAfter
  <2>3. /\ PageRecalls(store, ProductPage(r.p, r.e, r.fields, r.touched, FALSE))
        /\ PageRecalls(store, ProductPage(r.p, r.e, Nothing, {}, FALSE))
        /\ PageRecalls(store, ProductPage(r.p, r.e, Nothing, {}, code = "exists"))
    BY <2>1, ProductPageRecalls
  <2> QED BY <2>2, <2>3
<1>2. CASE r.op = "archive" /\ code = "exists"
  <2> DEFINE g == page[b]
  <2>1. PageAfter(b, r, code) = [g EXCEPT !.force = TRUE]
    BY <1>2 DEF PageAfter
  <2>2. CASE g.kind = "product"
    <3>1. g \in EditPage
      BY <2>2, PageKinds
    <3>2. [g EXCEPT !.force = TRUE] = g
      BY <3>1 DEF EditPage
    <3> QED BY <2>1, <3>2
  <2>3. CASE g.kind # "product"
    <3>1. [g EXCEPT !.force = TRUE].kind # "product"
      BY <2>3, PageKinds DEF Pages, NoPage, FlagsPage, EditPage, ConfirmPage
    <3> QED BY <2>1, <3>1 DEF PageRecalls
  <2> QED BY <2>2, <2>3
<1>3. CASE /\ r.op \notin {"save", "promote", "delete", "add", "retire"}
           /\ ~ (r.op = "archive" /\ code = "exists")
  <2>1. PageAfter(b, r, code) = NoPage
    BY <1>3 DEF PageAfter
  <2> QED BY <2>1 DEF PageRecalls, NoPage
<1> QED BY <1>1, <1>2, <1>3

(* What a save of a page asks for.                                         *)
LEMMA SaveOfRecalls ==
  ASSUME NEW g \in EditPage, g.etag # Absent, PageRecalls(store, g),
         NEW K \in SUBSET DOMAIN g.shown, NEW v
  PROVE  SaveRecalls(store, SaveOf(g, K, v))
<1> DEFINE fields == FieldsPosted(g, K, v)
           r == SaveOf(g, K, v)
<1>1. /\ r.p = g.p /\ r.e = g.e /\ r.again = g.again /\ r.etag = g.etag
      /\ r.touched = g.touched \cup K /\ r.changes = Asked(g.p, fields)
  BY DEF SaveOf
<1> HIDE DEF r
<1> SUFFICES ASSUME ~ g.again, ~ Gone(store, g.p, g.e, g.etag.version),
                    NEW k \in (DOMAIN r.changes \cap DOMAIN g.etag.values) \ r.touched
             PROVE  r.changes[k] = g.etag.values[k]
  BY <1>1 DEF SaveRecalls, r
<1>2. g.kind = "product"
  BY DEF EditPage
<1>3. /\ k \in DOMAIN fields /\ ~ (Secret(store, g.p, k) /\ fields[k] = Blank)
      /\ r.changes[k] = fields[k]
  BY <1>1 DEF Asked, Without, Restrict
<1>4. k \in DOMAIN g.shown /\ fields[k] = g.shown[k]
  BY <1>1, <1>3 DEF FieldsPosted
<1>5. g.shown[k] = IF k \in g.hidden THEN Blank ELSE g.etag.values[k]
  BY <1>2, <1>4 DEF PageRecalls
<1>6. k \in g.hidden => Secret(store, g.p, k)
  BY <1>2, SMTT(60) DEF PageRecalls, Recalls
<1> QED BY <1>3, <1>4, <1>5, <1>6

(* Steps that leave the store: a page is shown, a request is sent, the     *)
(* server decides.                                                         *)
LEMMA RememberedShow ==
  ASSUME Remembered, Consistent', NEW b \in Browser, NEW g, Show(b, g), PageRecalls(store, g),
         UNCHANGED store,
         \A c \in Browser : call'[c] = call[c] \/ call'[c] = Idle
  PROVE  Remembered'
<1>1. \A c \in Browser : page'[c] = page[c] \/ page'[c] = g
  BY DEF Show, Remembered, Consistent
<1>2. \A c \in Browser : PageRecalls(store, page'[c])
  BY <1>1 DEF Remembered
<1>3. \A c \in Browser : CallRecalls(store, call'[c])
  BY DEF Remembered, CallRecalls, Idle
<1>4. \A c \in Browser : PageRecalls(store', page'[c]) /\ CallRecalls(store', call'[c])
  BY <1>2, <1>3
<1>5. Whole(store')
  BY SMTT(60) DEF Remembered
<1> QED BY <1>4, <1>5
        DEF Remembered, PageRecalls, CallRecalls, SaveRecalls, Recalls, Gone, Archived, Whole,
            Secret, Keys, Declared, Registered, Environments, Has, Services

(* A step of one call, which recalls what it should, keeps Remembered.     *)
LEMMA RememberedCall ==
  ASSUME Remembered, Consistent', NEW b \in Browser, UNCHANGED <<store, page>>,
         \A c \in Browser \ {b} : call'[c] = call[c],
         CallRecalls(store, call'[b])
  PROVE  Remembered'
<1>1. \A c \in Browser : PageRecalls(store', page'[c]) /\ CallRecalls(store', call'[c])
  BY DEF Remembered
<1>2. Whole(store')
  BY DEF Remembered
<1> QED BY <1>1, <1>2
        DEF Remembered, PageRecalls, CallRecalls, SaveRecalls, Recalls, Gone, Archived, Whole,
            Secret, Keys, Declared, Registered, Environments, Has, Services

(* Every page shown recalls the store it was built from.                   *)
LEMMA PagesRecall ==
  ASSUME Remembered, Consistent', NEW b \in Browser,
         \/ Open(b) \/ OpenFlags(b) \/ AskCreate(b) \/ AskDelete(b) \/ AskArchive(b)
  PROVE  Remembered'
<1>0. WellFormed(store)
  BY DEF Remembered, Consistent
<1>1. PICK g : Show(b, g) /\ PageRecalls(store, g)
  <2>1. CASE Open(b)
    BY <1>0, <2>1, ProductPageRecalls DEF Open
  <2>2. CASE OpenFlags(b)
    BY <2>2 DEF OpenFlags, PageRecalls
  <2>3. CASE AskCreate(b)
    <3>1. Show(b, Confirm("create", page[b].p, page[b].e, {}, FALSE))
      BY <2>3 DEF AskCreate
    <3> QED BY <3>1 DEF PageRecalls, Confirm
  <2>4. CASE AskDelete(b)
    <3>1. \E K : Show(b, Confirm("delete", page[b].p, page[b].e, K, FALSE))
      BY <2>4 DEF AskDelete
    <3> QED BY <3>1 DEF PageRecalls, Confirm
  <2>5. CASE AskArchive(b)
    <3>1. \E p : Show(b, Confirm("archive", p, Lowest, {}, FALSE))
      BY <2>5 DEF AskArchive
    <3> QED BY <3>1 DEF PageRecalls, Confirm
  <2> QED BY <2>1, <2>2, <2>3, <2>4, <2>5
<1>2. UNCHANGED <<store, call>>
  BY DEF Open, OpenFlags, AskCreate, AskDelete, AskArchive
<1> QED BY <1>1, <1>2, RememberedShow

(* So does a request that is sent from such a page,                        *)
LEMMA SendRecalls ==
  ASSUME Remembered, Consistent', NEW b \in Browser, NEW r, Send(b, r), SaveRecalls(store, r)
  PROVE  Remembered'
<1>1. /\ UNCHANGED <<store, page>>
      /\ \A c \in Browser \ {b} : call'[c] = call[c]
      /\ call'[b] = [stage |-> "posted", r |-> r]
  BY DEF Send, Remembered, Consistent
<1>2. CallRecalls(store, call'[b])
  BY <1>1 DEF CallRecalls
<1> QED BY <1>1, <1>2, RememberedCall

(* Every request posted is about the page it was posted from.              *)
LEMMA PostsRecall ==
  ASSUME Remembered, Consistent', NEW b \in Browser,
         \/ Save(b) \/ Create(b) \/ PostPromote(b) \/ PostDelete(b) \/ PostAddKeys(b)
         \/ PostRetire(b) \/ PostArchive(b) \/ PostNew(b) \/ Click(b)
  PROVE  Remembered'
<1>0. WellFormed(store) /\ Consistent
  BY DEF Remembered, Consistent
<1>1. CASE Save(b)
  <2>1. page[b] \in EditPage /\ page[b].etag # Absent
    BY <1>0, <1>1, SaveSends, OnPage
  <2>2. PICK K \in SUBSET DOMAIN page[b].shown : \E v : Send(b, SaveOf(page[b], K, v))
    BY <1>1, SaveSends
  <2> PICK v : Send(b, SaveOf(page[b], K, v))
    BY <2>2
  <2>3. PageRecalls(store, page[b])
    BY DEF Remembered
  <2>4. SaveRecalls(store, SaveOf(page[b], K, v))
    BY <2>1, <2>3, SaveOfRecalls
  <2> QED BY <2>2, <2>4, SendRecalls
<1>2. CASE Create(b)
  <2>1. CASE page[b].base = Base(store, page[b].p)
    <3> DEFINE r == [op |-> "save", p |-> page[b].p, e |-> page[b].e, fields |-> Nothing,
                     changes |-> DefaultsFor(Declared(store, page[b].p)), etag |-> Absent,
                     again |-> FALSE, touched |-> {}]
    <3>1. Send(b, r)
      BY <1>2, <2>1 DEF Create
    <3>2. SaveRecalls(store, r)
      BY DEF SaveRecalls
    <3> HIDE DEF r
    <3> QED BY <3>1, <3>2, SendRecalls
  <2>2. CASE page[b].base # Base(store, page[b].p)
    <3>1. /\ Show(b, ProductPage(page[b].p, page[b].e, Nothing, {}, FALSE))
          /\ UNCHANGED <<store, call>>
      BY <1>2, <2>2 DEF Create
    <3>2. page[b] \in ConfirmPage
      BY <1>0, <1>2, OnPage DEF Create
    <3>3. PageRecalls(store, ProductPage(page[b].p, page[b].e, Nothing, {}, FALSE))
      BY <1>0, <3>2, ProductPageRecalls DEF ConfirmPage
    <3> QED BY <3>1, <3>3, RememberedShow
  <2> QED BY <2>1, <2>2
<1>3. CASE \/ PostPromote(b) \/ PostDelete(b) \/ PostAddKeys(b) \/ PostRetire(b)
           \/ PostArchive(b) \/ PostNew(b) \/ Click(b)
  <2>1. PICK r : Send(b, r) /\ r.op # "save"
    <3>1. CASE PostPromote(b)
      <4>1. \E K : Send(b, [op |-> "promote", p |-> page[b].p, e |-> page[b].e, keys |-> K,
                             fields |-> page[b].shown, touched |-> page[b].touched])
        BY <3>1 DEF PostPromote
      <4> QED BY <4>1
    <3>2. CASE PostDelete(b)
      <4>1. Send(b, [op |-> "delete", p |-> page[b].p, e |-> page[b].e, keys |-> page[b].keys,
                        base |-> page[b].base])
        BY <3>2 DEF PostDelete
      <4> QED BY <4>1
    <3>3. CASE PostAddKeys(b)
      <4>1. \E drafts : Send(b, [op |-> "add", p |-> page[b].p, e |-> page[b].e, drafts |-> drafts,
                                  etag |-> page[b].etag])
        BY <3>3 DEF PostAddKeys
      <4> QED BY <4>1
    <3>4. CASE PostRetire(b)
      <4>1. \E retiring : Send(b, [op |-> "retire", p |-> page[b].p, e |-> page[b].e,
                                    retiring |-> retiring, force |-> page[b].ask])
        BY <3>4 DEF PostRetire
      <4> QED BY <4>1
    <3>5. CASE PostArchive(b)
      <4>1. Send(b, [op |-> "archive", p |-> page[b].p, e |-> page[b].e, base |-> page[b].base,
                        force |-> page[b].force])
        BY <3>5 DEF PostArchive
      <4> QED BY <4>1
    <3>6. CASE Click(b)
      <4>1. \E f, e, value, etag :
                 Send(b, [op |-> "flag", flag |-> f, e |-> e, value |-> value, etag |-> etag])
        BY <3>6 DEF Click
      <4> QED BY <4>1
    <3>7. CASE PostNew(b)
      <4>1. \E p, uid, E, drafts :
                 Send(b, [op |-> "new", p |-> p, e |-> Lowest, uid |-> uid, envs |-> E,
                          drafts |-> drafts])
        BY <3>7 DEF PostNew
      <4> QED BY <4>1
    <3> QED BY <1>3, <3>1, <3>2, <3>3, <3>4, <3>5, <3>6, <3>7
  <2>2. SaveRecalls(store, r)
    BY <2>1 DEF SaveRecalls
  <2> QED BY <2>1, <2>2, SendRecalls
<1> QED BY <1>1, <1>2, <1>3

(* and each step of the server but the commit.                             *)
LEMMA ServerRecalls ==
  ASSUME Remembered, Consistent', NEW b \in Browser, Decide(b) \/ Conflict(b) \/ Rerender(b)
  PROVE  Remembered'
<1>0. WellFormed(store) /\ page[b] \in Pages /\ PageRecalls(store, page[b])
  BY DEF Remembered, Consistent
<1>1. CASE Decide(b) \/ Conflict(b)
  <2>1. /\ UNCHANGED <<store, page>>
        /\ \A c \in Browser \ {b} : call'[c] = call[c]
        /\ call[b].stage \in {"posted", "planned"} /\ call'[b].r = call[b].r
    BY <1>1 DEF Decide, Conflict, At, Remembered, Consistent
  <2>2. CallRecalls(store, call'[b])
    BY <2>1 DEF CallRecalls, Remembered
  <2> QED BY <2>1, <2>2, RememberedCall
<1>2. CASE Rerender(b)
  <2>1. call[b].r \in Requests
    BY <1>2 DEF Rerender, At, Remembered, Consistent, CallTyped, Idle
  <2>2. PageRecalls(store, PageAfter(b, call[b].r, call[b].code))
    BY <1>0, <2>1, PageAfterRecalls
  <2>3. /\ Show(b, PageAfter(b, call[b].r, call[b].code)) /\ UNCHANGED store
        /\ \A c \in Browser : call'[c] = call[c] \/ call'[c] = Idle
    BY <1>2, SMTT(60) DEF Rerender, Remembered, Consistent
  <2> QED BY <2>2, <2>3, RememberedShow
<1> QED BY <1>1, <1>2

(* A commit of one browser ages the files the others recall.               *)
LEMMA CommitRecalls ==
  ASSUME Remembered, Consistent', NEW b \in Browser, Commit(b), Unused(call[b].r)
  PROVE  Remembered'
<1>1. /\ Consistent /\ Whole(store) /\ WellFormed(store)
      /\ \A c \in Browser : page[c] \in Pages /\ CallTyped(call[c])
  BY DEF Remembered, Consistent
<1>3. Ages(store, store') /\ Whole(store') /\ WellFormed(store')
  BY <1>1, CommitAges, CommitFits, CommitIs, WellFormedMerge
<1>4. /\ \A c \in Browser : page'[c] = page[c] \/ page'[c] = NoPage
      /\ \A c \in Browser : call'[c] = call[c] \/ call'[c] = Idle
  BY DEF Commit, Show, Remembered, Consistent
<1>5. ASSUME NEW c \in Browser
      PROVE  PageRecalls(store', page[c]) /\ CallRecalls(store', call[c])
  BY <1>1, <1>3, PageStays, CallStays DEF Remembered
<1>6. PageRecalls(store', NoPage) /\ CallRecalls(store', Idle)
  BY DEF PageRecalls, NoPage, CallRecalls, Idle
<1>7. \A c \in Browser : PageRecalls(store', page'[c]) /\ CallRecalls(store', call'[c])
  BY <1>4, <1>5, <1>6
<1> QED BY <1>3, <1>7
        DEF Remembered, PageRecalls, CallRecalls, SaveRecalls, Recalls, Gone, Archived, Whole,
            Secret, Keys, Declared, Registered, Environments, Has, Services

(* No product is created under the name of an archived one.                *)
NothingRevived == \A b \in Browser : Landed(b) => Unused(call[b].r)

(* Memory is inductive as long as nothing archived is created anew.        *)
LEMMA RememberedStep == Remembered /\ [Next]_vars /\ [NothingRevived]_vars => Remembered'
<1> SUFFICES ASSUME Remembered, [Next]_vars, [NothingRevived]_vars PROVE Remembered'
  OBVIOUS
<1>1. Consistent'
  BY ConsistentStep DEF Remembered
<1>2. CASE UNCHANGED vars
  <2>1. UNCHANGED <<store, page, call>>
    BY <1>2 DEF vars
  <2>2. /\ Whole(store')
        /\ \A b \in Browser : PageRecalls(store', page'[b]) /\ CallRecalls(store', call'[b])
    BY <2>1 DEF Remembered
  <2> QED BY <1>1, <2>2
          DEF Remembered, PageRecalls, CallRecalls, SaveRecalls, Recalls, Gone, Archived, Whole,
              Secret, Keys, Declared, Registered, Environments, Has, Services
<1>3. CASE Next /\ NothingRevived
  <2>1. ASSUME NEW b \in Browser, Commit(b) PROVE Remembered'
    <3>1. Unused(call[b].r)
      BY <1>3, <2>1 DEF NothingRevived, Landed, Commit, Remembered, Consistent
    <3> QED BY <1>1, <2>1, <3>1, CommitRecalls
  <2> QED BY <1>1, <1>3, <2>1, PagesRecall, PostsRecall, ServerRecalls DEF Next
<1> QED BY <1>2, <1>3

(* A save of a page that recalls its file.                                 *)
LEMMA SaveKeepsOthers ==
  ASSUME Remembered, NEW b \in Browser, Commit(b), call[b].r.op = "save", ~ call[b].r.again,
         NEW k \in DOMAIN Values(store, call[b].r.p, call[b].r.e) \ call[b].r.touched
  PROVE  Values(store', call[b].r.p, call[b].r.e)[k] = Values(store, call[b].r.p, call[b].r.e)[k]
<1> DEFINE r == call[b].r
           w == ValuesWritten(store, r.p, r.e, r.changes)
           next == NextValues(store, r.p, r.e, r.changes)
           path == ConfigOf(r.p, r.e)
<1>1. /\ WellFormed(store) /\ r \in SaveRequest /\ WriteValues(store, r).verdict = "ok"
      /\ store' = Merge(store, WriteValues(store, r).writes)
  <2>1. Consistent /\ r \in Requests
    BY CommitIs DEF Remembered
  <2>2. PlanOf(store, r).verdict = "ok" /\ store' = Merge(store, PlanOf(store, r).writes)
    BY <2>1, CommitIs
  <2> QED BY <2>1, <2>2, RequestKinds, PlanOfIs DEF Consistent
<1>2. /\ r.p \in Product /\ r.e \in Env /\ r.changes \in Fields(Text) /\ r.etag \in Tag
  BY <1>1 DEF SaveRequest
<1>3. Current(store, r.p, r.e, r.etag) /\ store' = Merge(store, w)
  BY <1>1, WriteValuesFit
<1>4. store[path] = r.etag /\ r.etag # Absent /\ Values(store, r.p, r.e) = r.etag.values
  <2>1. r.etag # Any
    BY <1>2, DataAssumption DEF Tag
  <2>2. store[path] = r.etag
    BY <1>3, <2>1 DEF Current
  <2>3. store[path] # Absent
    BY DEF Values, ConfigOnly, Nothing
  <2> QED BY <2>2, <2>3 DEF Values, ConfigOnly
<1>5. ASSUME k \in DOMAIN r.changes
      PROVE  r.changes[k] = Values(store, r.p, r.e)[k]
  <2>1. SaveRecalls(store, r)
    BY DEF Remembered, CallRecalls, Commit, At
  <2>2. ~ Gone(store, r.p, r.e, r.etag.version)
    <3>1. r.etag.version \in Nat
      BY <1>2, <1>4 DEF Tag, ConfigDocument
    <3> QED BY <1>4, <3>1 DEF Gone, Has
  <2> QED BY <1>4, <1>5, <2>1, <2>2 DEF SaveRecalls
<1>6. k \in DOMAIN Values(store, r.p, r.e)
  OBVIOUS
<1>7. next[k] = Values(store, r.p, r.e)[k]
  <2>1. CASE k \in DOMAIN r.changes
    BY <1>5, <2>1, MergeHas DEF NextValues
  <2>2. CASE k \notin DOMAIN r.changes
    BY <1>6, <2>2, MergeKeeps DEF NextValues
  <2> QED BY <2>1, <2>2
<1>8. Fits(w) /\ next \in Fields(Text) /\ path \in Path
  BY <1>1, <1>2, ValuesWrittenFit, PathKinds, SMTT(30)
<1>9. path \in DOMAIN w => w[path] = Document(store[path], next)
  BY SoleIs DEF ValuesWritten, Nothing
<1> HIDE DEF w, next
<1>10. CASE path \in DOMAIN w
  <2>1. Merge(store, w)[path] = Document(store[path], next)
    BY <1>1, <1>8, <1>9, <1>10, AfterMerge
  <2>2. Document(store[path], next) \in ConfigDocument
    BY <1>1, <1>2, <1>8, DocumentTyped DEF WellFormed
  <2>3. Values(store', r.p, r.e) = next
    BY <1>3, <2>1, <2>2, DataAssumption DEF Values, ConfigOnly, Document
  <2> QED BY <1>7, <2>3
<1>11. CASE path \notin DOMAIN w
  <2>1. Merge(store, w)[path] = store[path]
    BY <1>1, <1>8, <1>11, AfterMerge
  <2> QED BY <1>3, <2>1 DEF Values
<1> QED BY <1>10, <1>11

(* A promotion writes no secret.                                           *)
LEMMA PromoteKeepsSecrets ==
  ASSUME Consistent, NEW b \in Browser, Commit(b), call[b].r.op = "promote",
         NEW k \in DOMAIN Values(store, call[b].r.p, NextEnv(call[b].r.e)),
         Secret(store, call[b].r.p, k)
  PROVE  Values(store', call[b].r.p, NextEnv(call[b].r.e))[k]
           = Values(store, call[b].r.p, NextEnv(call[b].r.e))[k]
<1> DEFINE r == call[b].r
           x == NextEnv(r.e)
           changes == Restrict(Values(store, r.p, r.e), r.keys)
           w == ValuesWritten(store, r.p, x, changes)
           next == NextValues(store, r.p, x, changes)
           path == ConfigOf(r.p, x)
<1>1. /\ WellFormed(store) /\ r \in PromoteRequest /\ Promote(store, r).verdict = "ok"
      /\ store' = Merge(store, Promote(store, r).writes)
  <2>1. r \in Requests
    BY CommitIs
  <2>2. PlanOf(store, r).verdict = "ok" /\ store' = Merge(store, PlanOf(store, r).writes)
    BY <2>1, CommitIs
  <2> QED BY <2>1, <2>2, RequestKinds, PlanOfIs DEF Consistent
<1>2. /\ Promotable(store, r) /\ x \in Env /\ changes \in Fields(Text)
      /\ Promote(store, r).writes = w
  BY <1>1, PromoteFit, SMTT(30)
<1>3. k \notin DOMAIN changes
  BY <1>2 DEF Promotable, Restrict
<1>4. k \in DOMAIN Values(store, r.p, x) /\ r.p \in Product
  BY <1>1 DEF PromoteRequest
<1>5. next[k] = Values(store, r.p, x)[k]
  BY <1>3, <1>4, MergeKeeps DEF NextValues
<1>6. Fits(w) /\ next \in Fields(Text) /\ path \in Path
  BY <1>1, <1>2, <1>4, ValuesWrittenFit, PathKinds, SMTT(30)
<1>7. path \in DOMAIN w => w[path] = Document(store[path], next)
  BY SoleIs DEF ValuesWritten, Nothing
<1>8. store' = Merge(store, w)
  BY <1>1, <1>2
<1> HIDE DEF w, next, x
<1>9. CASE path \in DOMAIN w
  <2>1. Merge(store, w)[path] = Document(store[path], next)
    BY <1>1, <1>6, <1>7, <1>9, AfterMerge
  <2>2. Document(store[path], next) \in ConfigDocument
    BY <1>1, <1>2, <1>4, <1>6, DocumentTyped DEF WellFormed
  <2>3. Values(store', r.p, x) = next
    BY <1>8, <2>1, <2>2, DataAssumption DEF Values, ConfigOnly, Document
  <2> QED BY <1>5, <2>3 DEF x
<1>10. CASE path \notin DOMAIN w
  <2>1. Merge(store, w)[path] = store[path]
    BY <1>1, <1>6, <1>10, AfterMerge
  <2> QED BY <1>8, <2>1 DEF Values, x
<1> QED BY <1>9, <1>10

(* At first nobody recalls anything that is not so.                        *)
LEMMA RememberedInit == Init => Remembered
<1> SUFFICES ASSUME Init PROVE Remembered
  OBVIOUS
<1>1. \A b \in Browser : PageRecalls(store, page[b]) /\ CallRecalls(store, call[b])
  BY DEF Init, PageRecalls, NoPage, CallRecalls, Idle
<1> QED BY <1>1, ConsistentInit DEF Remembered

(* A page opened afresh cannot overwrite what was written since: a save    *)
(* changes no key that is set and that its operator did not touch, and a   *)
(* promotion no secret.  This holds while no archived product is created   *)
(* anew: it would start at version 1 again, and this model, whose          *)
(* ciphertexts are their plaintexts, could not tell its files from the     *)
(* ones it had.                                                            *)
THEOREM EditorsKeep == Spec /\ [][NothingRevived]_vars => EditorsKeepOthers
<1>1. ASSUME Remembered, [Next]_vars, NEW b \in Browser, Landed(b),
             ~ (call[b].r.op = "save" /\ call[b].r.again)
      PROVE  Untouched(b)
  <2>1. Consistent /\ Commit(b)
    BY <1>1, LandedIsCommit DEF Remembered
  <2>2. ASSUME call[b].r.op = "save",
               NEW k \in DOMAIN Values(store, call[b].r.p, call[b].r.e) \ call[b].r.touched
        PROVE  Values(store', call[b].r.p, call[b].r.e)[k]
                 = Values(store, call[b].r.p, call[b].r.e)[k]
    BY <1>1, <2>1, <2>2, SaveKeepsOthers
  <2>3. ASSUME call[b].r.op = "promote",
               NEW k \in DOMAIN Values(store, call[b].r.p, NextEnv(call[b].r.e)),
               Secret(store, call[b].r.p, k)
        PROVE  Values(store', call[b].r.p, NextEnv(call[b].r.e))[k]
                 = Values(store, call[b].r.p, NextEnv(call[b].r.e))[k]
    BY <2>1, <2>3, PromoteKeepsSecrets
  <2> QED BY <2>2, <2>3 DEF Untouched
<1>2. Remembered /\ [Next]_vars =>
        \A b \in Browser :
          Landed(b) /\ ~ (call[b].r.op = "save" /\ call[b].r.again) => Untouched(b)
  BY <1>1
<1> QED BY <1>2, RememberedInit, RememberedStep, PTL DEF Spec, EditorsKeepOthers
=============================================================================
