--------------------------- MODULE ProductWrites ----------------------------
(***************************************************************************)
(* What each product operation of the console would write, given one       *)
(* snapshot of the database: ProductWriteOperations and ProductMutation    *)
(* (src/src/store/product-write-operations.ts).  Pure operators; Console   *)
(* runs them against the store.                                            *)
(*                                                                         *)
(* A plan is the verdict of the operation on its snapshot, the documents   *)
(* it writes (Absent deletes), and what it expects of the store when it    *)
(* commits: the documents it read, and which environment files there are.  *)
(* An ETag is the content it hashes.                                       *)
(***************************************************************************)
EXTENDS Naturals, Sequences, Functions

CONSTANTS
  Product,          \* names a product may have
  Key,              \* names a variable may have
  Picky,            \* those of a type that refuses blank and ill-typed text
  Uid,              \* uids a product may be declared with
  EnvOrder,         \* the declared environments, in order of promotion
  Flag,             \* names of feature flags
  Typed, Blank, Bad,\* text an operator types; the empty string; ill-typed text
  Absent,           \* no such document
  Any               \* no ETag or base was supplied

Env == {EnvOrder[i] : i \in DOMAIN EnvOrder}

ASSUME OrderAssumption ==
  /\ Picky \subseteq Key
  /\ EnvOrder \in Seq(Env) \ {<<>>}
  /\ \A i, j \in DOMAIN EnvOrder : EnvOrder[i] = EnvOrder[j] => i = j

Text == Typed \cup {Blank, Bad}

Services     == <<"services">>
Flags        == <<"flags">>
SchemaOf(p)  == <<"schema", p>>
ArchiveOf(p) == <<"archived", p>>
ConfigOf(p, e) == <<"config", p, e>>

ConfigPaths(p) == {ConfigOf(p, e) : e \in Env}
ProductPaths(p) == {Services, SchemaOf(p)} \cup ConfigPaths(p)
Path == {Services, Flags} \cup UNION {ProductPaths(p) \cup {ArchiveOf(p)} : p \in Product}

(* What the documents hold: fields for some of the keys, the definition of *)
(* a key, the registry of products, a schema, the values of an             *)
(* environment, the flags; and all that a product has.                     *)
Fields(T) == UNION {[K -> T] : K \in SUBSET Key}

Definition     == [secret : BOOLEAN, default : Text \cup {Absent}]
Registry       == UNION {[P -> Uid] : P \in SUBSET Product}
SchemaDocument == [keys : Fields(Definition), retiring : BOOLEAN]
ConfigDocument == [version : Nat, values : Fields(Text)]
FlagDocument   == UNION {[S -> BOOLEAN] : S \in SUBSET (Flag \X Env)}

Bases(p) ==
  [ProductPaths(p) -> Registry \cup SchemaDocument \cup ConfigDocument \cup {Absent}]

(* The absence of a document, and of an ETag, are neither documents nor    *)
(* bases.                                                                  *)
ASSUME DataAssumption ==
  /\ Absent \notin SchemaDocument \cup ConfigDocument
  /\ Any \notin ConfigDocument \cup FlagDocument \cup {Absent}
  /\ \A p \in Product : Any \notin Bases(p) /\ Absent \notin Bases(p)

(* EnvironmentOrder.next, Absent after the last one.                       *)
Lowest == EnvOrder[1]
NextEnv(e) ==
  LET i == CHOOSE j \in DOMAIN EnvOrder : EnvOrder[j] = e IN
  IF i < Len(EnvOrder) THEN EnvOrder[i + 1] ELSE Absent

-----------------------------------------------------------------------------
(* Reading a snapshot s.                                                   *)

Nothing == [x \in {} |-> Absent]

Has(s, path) == s[path] # Absent
Environments(s, p) == {e \in Env : Has(s, ConfigOf(p, e))}
Registered(s) == DOMAIN s[Services]

(* requireProduct: declared in the registry and described by a schema.     *)
Known(s, p) == p \in Registered(s) /\ Has(s, SchemaOf(p))

Declared(s, p)  == IF Has(s, SchemaOf(p)) THEN s[SchemaOf(p)].keys ELSE Nothing
Keys(s, p)      == DOMAIN Declared(s, p)
Secret(s, p, k) == k \in Keys(s, p) /\ s[SchemaOf(p)].keys[k].secret

(* The values of a document without its metadata, none for no document.    *)
ConfigOnly(document) == IF document = Absent THEN Nothing ELSE document.values
Values(s, p, e) == ConfigOnly(s[ConfigOf(p, e)])

(* bumpedVersion.                                                          *)
Bumped(document) == IF document = Absent THEN 1 ELSE document.version + 1

(* productBase: what a confirmation page names as the state it was built   *)
(* from.                                                                   *)
Base(s, p) == Restrict(s, ProductPaths(p))

(* Every document is of its kind.                                          *)
WellFormed(s) ==
  /\ DOMAIN s = Path
  /\ s[Services] \in Registry
  /\ s[Flags] \in FlagDocument \cup {Absent}
  /\ \A p \in Product :
       /\ s[SchemaOf(p)] \in SchemaDocument \cup {Absent}
       /\ \A e \in Env : s[ConfigOf(p, e)] \in ConfigDocument \cup {Absent}

(* A product is registered exactly while it has a schema, an environment   *)
(* file belongs to a product, and no two products share a uid.             *)
Whole(s) ==
  /\ \A p \in Product : p \in Registered(s) <=> Has(s, SchemaOf(p))
  /\ \A p \in Product : Environments(s, p) # {} => p \in Registered(s)
  /\ \A p, q \in Registered(s) : s[Services][p] = s[Services][q] => p = q

(* SchemaSet.validate (SchemaRules): every key is declared and holds what  *)
(* its type takes.                                                         *)
Accepts(definition, k, v) == definition.secret \/ k \notin Picky \/ v \in Typed
Validates(keys, values) ==
  \A k \in DOMAIN values : k \in DOMAIN keys /\ Accepts(keys[k], k, values[k])

(* The state a destructive operation was confirmed for is the snapshot's;  *)
(* and a check that is not made.                                           *)
ConfirmedNever(s, r) == TRUE
Confirmed(s, r) == r.base \in {Any, Base(s, r.p)}

Merge(f, g) == [k \in DOMAIN f \cup DOMAIN g |-> IF k \in DOMAIN g THEN g[k] ELSE f[k]]
Sole(x, y) == [z \in {x} |-> y]
Without(f, K) == Restrict(f, DOMAIN f \ K)
Given(keys) == {k \in DOMAIN keys : keys[k].default # Absent}

(* SchemaSet.defaultsFor.                                                  *)
DefaultsFor(keys) == [k \in Given(keys) |-> keys[k].default]

-----------------------------------------------------------------------------
(* Plans.                                                                  *)

Refused(code) == [verdict |-> code, writes |-> Nothing, expects |-> Nothing,
                  collections |-> {}]

(* A plan that trusts what it read and does not write.                     *)
PlanLoose(s, p, more, writes) ==
  [verdict |-> "ok", writes |-> writes, collections |-> {<<p, Environments(s, p)>>},
   expects |-> Restrict(s, {Services, SchemaOf(p)} \cup DOMAIN writes)]

(* Every operation requires what it writes, the schema and the registry to *)
(* be those of its snapshot, and the product to have the same environment  *)
(* files (the environment order is constant here).                         *)
Plan(s, p, more, writes) ==
  [verdict |-> "ok", writes |-> writes, collections |-> {<<p, Environments(s, p)>>},
   expects |-> Restrict(s, {Services, SchemaOf(p)} \cup more \cup DOMAIN writes)]

Document(old, values) == [version |-> Bumped(old), values |-> values]

(* ProductMutation.values: the changes applied to one environment.  A      *)
(* change to nothing writes nothing.                                       *)
PlanValues(s, p, e, changes, etag, more) ==
  LET old  == s[ConfigOf(p, e)]
      next == Merge(Values(s, p, e), changes)
  IN
  IF etag \notin {Any, old} THEN Refused("conflict")
  ELSE IF ~ Validates(s[SchemaOf(p)].keys, next) THEN Refused("invalid")
  ELSE Plan(s, p, more \cup {ConfigOf(p, e)},
            IF old # Absent /\ next = Values(s, p, e) THEN Nothing
            ELSE Sole(ConfigOf(p, e), Document(old, next)))

(* An ETag of the page that is not looked at.                              *)
WriteValuesUnchecked(s, r) ==
  IF Known(s, r.p) THEN PlanValues(s, r.p, r.e, r.changes, Any, {}) ELSE Refused("invalid")

WriteValues(s, r) ==
  IF Known(s, r.p) THEN PlanValues(s, r.p, r.e, r.changes, r.etag, {}) ELSE Refused("invalid")

(* Selected keys go to the next environment, but never a secret or a key   *)
(* that is not set.  The page's ETag plays no part.                        *)
Promote(s, r) ==
  IF /\ Known(s, r.p)
     /\ r.keys # {} /\ r.keys \subseteq Keys(s, r.p) \cap DOMAIN Values(s, r.p, r.e)
     /\ \A k \in r.keys : ~ Secret(s, r.p, k)
     /\ NextEnv(r.e) # Absent
  THEN PlanValues(s, r.p, NextEnv(r.e), Restrict(Values(s, r.p, r.e), r.keys), Any,
                  {ConfigOf(r.p, r.e)})
  ELSE Refused("invalid")

(* New keys: only in the lowest environment, whose file must exist; every  *)
(* environment must still validate, and only that one gets the defaults.   *)
AddKeys(s, r) ==
  LET keys == Merge(s[SchemaOf(r.p)].keys, r.drafts)
      path == ConfigOf(r.p, r.e)
      next == Merge(Values(s, r.p, r.e), DefaultsFor(r.drafts))
      file == Sole(SchemaOf(r.p), [s[SchemaOf(r.p)] EXCEPT !.keys = keys])
  IN
  IF \/ ~ Known(s, r.p) \/ r.e # Lowest \/ r.drafts = Nothing
     \/ DOMAIN r.drafts \cap Keys(s, r.p) # {}
     \/ ~ Has(s, path)
  THEN Refused("invalid")
  ELSE IF r.etag # s[path] THEN Refused("conflict")
  ELSE IF \/ ~ Validates(keys, next)
          \/ \E e \in Environments(s, r.p) \ {r.e} : ~ Validates(keys, Values(s, r.p, e))
  THEN Refused("invalid")
  ELSE Plan(s, r.p, {ConfigOf(r.p, e) : e \in Environments(s, r.p)},
            IF next = Values(s, r.p, r.e) THEN file
            ELSE Merge(file, Sole(path, Document(s[path], next))))

(* Keys blanked with a null where they should go.                          *)
StrippedToNull(s, p, K) ==
  [path \in {ConfigOf(p, e) : e \in Environments(s, p)} |->
     Document(s[path], [k \in DOMAIN s[path].values |-> IF k \in K THEN Absent ELSE s[path].values[k]])]

Stripped(s, p, K) ==
  LET hit == {e \in Environments(s, p) : DOMAIN Values(s, p, e) \cap K # {}} IN
  [path \in {ConfigOf(p, e) : e \in hit} |->
     Document(s[path], Without(ConfigOnly(s[path]), K))]

(* Keys leave every environment and the schema, unless what remains of a   *)
(* file would not validate.                                                *)
DeleteKeys(s, r) ==
  LET keys == Without(s[SchemaOf(r.p)].keys, r.keys) IN
  IF ~ Confirmed(s, r) THEN Refused("conflict")
  ELSE IF ~ Known(s, r.p) \/ r.keys = {} \/ ~ r.keys \subseteq Keys(s, r.p)
  THEN Refused("invalid")
  ELSE IF \E e \in Environments(s, r.p) : ~ Validates(keys, Without(Values(s, r.p, e), r.keys))
  THEN Refused("would_orphan")
  ELSE Plan(s, r.p, {ConfigOf(r.p, e) : e \in Environments(s, r.p)},
            Merge(Stripped(s, r.p, r.keys),
                  Sole(SchemaOf(r.p), [s[SchemaOf(r.p)] EXCEPT !.keys = keys])))

SetRetiring(s, r) ==
  IF ~ Known(s, r.p) THEN Refused("invalid")
  ELSE IF r.retiring /\ ~ r.force /\ Has(s, ArchiveOf(r.p)) THEN Refused("exists")
  ELSE Plan(s, r.p, {}, Sole(SchemaOf(r.p), [s[SchemaOf(r.p)] EXCEPT !.retiring = r.retiring]))

(* Everything the product has moves into one archive.                      *)
ArchiveProduct(s, r) ==
  IF ~ Confirmed(s, r) THEN Refused("conflict")
  ELSE IF ~ Known(s, r.p) \/ ~ s[SchemaOf(r.p)].retiring THEN Refused("invalid")
  ELSE IF Has(s, ArchiveOf(r.p)) /\ ~ r.force THEN Refused("exists")
  ELSE Plan(s, r.p, {},
            Merge([path \in {SchemaOf(r.p)} \cup {ConfigOf(r.p, e) : e \in Environments(s, r.p)}
                     |-> Absent],
            Merge(Sole(Services, Without(s[Services], {r.p})),
                  Sole(ArchiveOf(r.p), Base(s, r.p)))))

(* A new product: its name and uid are free, it has no data, its           *)
(* environments are declared ones, and its defaults are no secrets.        *)
CreateProduct(s, r) ==
  LET fresh == [version |-> 1, values |-> DefaultsFor(r.drafts)] IN
  IF /\ r.p \notin Registered(s)
     /\ \A q \in Registered(s) : s[Services][q] # r.uid
     /\ ~ Has(s, SchemaOf(r.p)) /\ Environments(s, r.p) = {}
     /\ r.envs # {} /\ r.envs \subseteq Env
     /\ Validates(r.drafts, fresh.values)
     /\ \A k \in DOMAIN fresh.values : ~ r.drafts[k].secret
  THEN Plan(s, r.p, {},
            Merge([path \in {ConfigOf(r.p, e) : e \in r.envs} |-> fresh],
            Merge(Sole(SchemaOf(r.p), [keys |-> r.drafts, retiring |-> FALSE]),
                  Sole(Services, Merge(s[Services], Sole(r.p, r.uid))))))
  ELSE Refused("invalid")
-----------------------------------------------------------------------------
(* FlagWriteService.set: the file as it is now with one flag changed.  At  *)
(* the commit it must be the file the caller saw, if the caller says which,*)
(* and never need be the one that was read.                                *)
SetFlag(s, r) ==
  [verdict |-> "ok", collections |-> {}, read |-> s[Flags],
   writes |-> Sole(Flags, Merge(IF Has(s, Flags) THEN s[Flags] ELSE Nothing,
                               Sole(<<r.flag, r.e>>, r.value))),
   expects |-> IF r.etag = Any THEN Nothing ELSE Sole(Flags, r.etag)]
=============================================================================
