----------------------------- MODULE SchemaForm -----------------------------
(***************************************************************************)
(* A key's way through the console, from the row an operator fills in to   *)
(* the value a later save posts back: the form rows                        *)
(* (src/src/routes/product-form.ts), the schema built from them and read   *)
(* again (SchemaRules), the environment file created from its defaults,    *)
(* the field the product page renders for it                               *)
(* (src/src/views/live-pages.ts, key-field.eta) and the conversion of what *)
(* the field posts (src/src/routes/live-ui.ts).                            *)
(***************************************************************************)
EXTENDS SchemaRules, Sequences

CONSTANTS
  Names,            \* names a key may be given
  GoodNames,        \* those in upper snake case that the file format leaves free
  Rows,             \* the rows an operator may fill in
  Stored            \* values an environment may hold

(* A row as it is posted, its listed values split at the commas, so that   *)
(* none of them is blank or holds one.                                     *)
Row ==
  [name : Names, type : STRING, secret : BOOLEAN,
   values : SUBSET (TextValue \ {Blank, Pair, Cipher}),
   min : TextValue, max : TextValue, default : TextValue, tick : BOOLEAN]

ASSUME NamesAssumption == GoodNames \subseteq Names

ASSUME RowsAssumption == Rows \subseteq Seq(Row)

VARIABLES
  phase,            \* "form", then how far the rows have come
  rows,             \* the rows posted
  drafts,           \* the drafts parsed from them
  schema,           \* the schema built
  file,             \* the values of one environment
  posted            \* what a save of its page asks for, unset keys left out

vars == <<phase, rows, drafts, schema, file, posted>>

Nothing == [k \in {} |-> Null]

-----------------------------------------------------------------------------
(* Text to values and back.                                                *)

(* Number(text): a numeral's number, 0 for blank text, NaN otherwise.      *)
NumberOf(t) ==
  IF t = Blank THEN Num(0) ELSE IF t[1] = "numeral" THEN Num(t[2]) ELSE NaN

(* split(','), each item trimmed.  Ciphertext has commas in it.            *)
Split(t) == IF t \in {Pair, Cipher} THEN Two ELSE IF t = Blank THEN BlankIn ELSE One

(* parseDefault: text that is not of the type stays text, for the builder  *)
(* to refuse.                                                              *)
ParseDefault(type, t) ==
  CASE type = "int"      -> IF NumberOf(t) # NaN THEN NumberOf(t) ELSE t
    [] type = "string[]" -> Split(t)
    [] OTHER             -> t

(* The values tried hold one of every kind and whatever a row lists.       *)
ASSUME StoredAssumption ==
  /\ Stored \subseteq Values
  /\ {Blank, Http, Bool(TRUE), Empty, Num(0)} \subseteq Stored
  /\ \A rs \in Rows : \A i \in DOMAIN rs :
       /\ rs[i].values \subseteq Stored
       /\ {NumberOf(rs[i].min), NumberOf(rs[i].max)} \ {NaN} \subseteq Stored

(* keyDrafts: a bool is ticked and an unticked one has no default; a blank *)
(* default is none.                                                        *)
BoundOf(t) == IF t = Blank THEN Undefined ELSE NumberOf(t)

DraftOf(r) ==
  IF r.type = "bool"
  THEN [name |-> r.name, type |-> "bool", secret |-> FALSE, values |-> {},
        min |-> Undefined, max |-> Undefined,
        default |-> IF r.tick THEN Bool(TRUE) ELSE Null]
  ELSE [name |-> r.name, type |-> r.type, secret |-> r.secret, values |-> r.values,
        min |-> BoundOf(r.min), max |-> BoundOf(r.max),
        default |-> IF r.default = Blank THEN Null ELSE ParseDefault(r.type, r.default)]

(* defaultsOf: what createProduct writes into every environment.           *)
DefaultsOf(ds) ==
  LET kept == {i \in DOMAIN ds : ~ ds[i].secret /\ Given(ds[i].default)} IN
  [k \in {ds[i].name : i \in kept} |->
     ds[CHOOSE i \in kept : ds[i].name = k].default]

(* keyFieldModel: the text of the field of a key.  A secret shows none, a  *)
(* list is joined with ', ', an unset key is blank.                        *)
Formatted(v) ==
  CASE IsNum(v)              -> Digits(v[2])
    [] v \in {Two, CommaIn}  -> Pair
    [] v = One               -> Word
    [] v \in {Empty, BlankIn} -> Blank
    [] OTHER                 -> v

Shown(d, v) == IF d.secret \/ v = Undefined THEN Blank ELSE Formatted(v)

(* The value of the text a field posts.                                    *)
Converted(d, t) ==
  CASE d.type = "int"      -> IF t = Blank THEN t ELSE NumberOf(t)
    [] d.type = "string[]" -> IF t = Blank THEN Empty ELSE Split(t)
    [] OTHER               -> t

(* A blank secret taken for a value.                                       *)
FieldWiping(d, t) == Converted(d, t)

(* What the save makes of the text a field posts, Undefined when it asks   *)
(* for nothing: a blank secret, and a bool without a value, whose hidden   *)
(* 'false' is not rendered.                                                *)
Field(d, t) == IF d.secret /\ t = Blank THEN Undefined ELSE Converted(d, t)

PostBack(d, v) == IF d.type = "bool" THEN v ELSE Field(d, Shown(d, v))

(* The value the environment holds for a key.                              *)
Held(f, k) == IF k \in DOMAIN f THEN f[k] ELSE Undefined

(* What a save of the page of f, with no field touched, asks for.          *)
Untouched(s, f) ==
  LET asks == {k \in DOMAIN s.keys : PostBack(s.keys[k], Held(f, k)) # Undefined} IN
  [k \in asks |-> PostBack(s.keys[k], Held(f, k))]

-----------------------------------------------------------------------------
Init ==
  /\ phase = "form"
  /\ rows \in Rows
  /\ drafts = <<>>
  /\ schema = [version |-> Undefined, retiring |-> Undefined, keys |-> Nothing]
  /\ file = Nothing
  /\ posted = Nothing

Goto(from, to) == phase = from /\ phase' = to

(* The route parses the rows.                                              *)
Parse ==
  /\ Goto("form", "parsed")
  /\ drafts' = [i \in DOMAIN rows |-> DraftOf(rows[i])]
  /\ UNCHANGED <<rows, schema, file, posted>>

(* buildSchema: every problem refuses the form, none writes a schema.      *)
Build ==
  /\ Goto("parsed", IF Builds(drafts, GoodNames) THEN "built" ELSE "refused")
  /\ schema' = IF Builds(drafts, GoodNames) THEN Built(drafts) ELSE schema
  /\ UNCHANGED <<rows, drafts, file, posted>>

(* createProduct reads the schema back before anything is written; a       *)
(* schema it cannot read fails the call.                                   *)
Read ==
  /\ Goto("built", IF Reads(schema) THEN "read" ELSE "unreadable")
  /\ UNCHANGED <<rows, drafts, schema, file, posted>>

(* The environments are created from the form's defaults, which must       *)
(* validate and hold no secret.                                            *)
Create ==
  /\ Goto("read", IF /\ Validates(schema, DefaultsOf(drafts))
                     /\ \A k \in DOMAIN DefaultsOf(drafts) : ~ IsSecret(schema, k)
                  THEN "created" ELSE "invalid")
  /\ file' = DefaultsOf(drafts)
  /\ UNCHANGED <<rows, drafts, schema, posted>>

(* A value an operator or a commit gave a key since.                       *)
Change ==
  /\ Goto("created", "changed")
  /\ \E k \in DOMAIN schema.keys, v \in Stored :
       /\ MayHold(schema.keys[k], v)
       /\ file' = [x \in DOMAIN file \cup {k} |-> IF x = k THEN v ELSE file[x]]
  /\ UNCHANGED <<rows, drafts, schema, posted>>

(* The page is opened and saved with no field touched.                     *)
Post ==
  /\ \/ Goto("created", "posted")
     \/ Goto("changed", "posted")
  /\ posted' = Untouched(schema, file)
  /\ UNCHANGED <<rows, drafts, schema, file>>

Next == Parse \/ Build \/ Read \/ Create \/ Change \/ Post

Spec == Init /\ [][Next]_vars

-----------------------------------------------------------------------------
TypeOK ==
  /\ phase \in {"form", "parsed", "refused", "built", "unreadable", "read", "invalid",
                "created", "changed", "posted"}
  /\ DOMAIN drafts \subseteq DOMAIN rows
  /\ DOMAIN schema.keys \subseteq GoodNames
  /\ DOMAIN file \subseteq DOMAIN schema.keys
  /\ DOMAIN posted \subseteq DOMAIN schema.keys

(* The builder promises that its output is read by SchemaSet.fromFiles     *)
(* (builder.ts:15-17).  The reader refuses it for exactly three reasons    *)
(* the builder does not look at: an enum that lists no value, a default    *)
(* that is no http(s) URL, and a default that looks like ciphertext.       *)
BuilderAndReaderDiffer(d) ==
  \/ d.type = "enum" /\ ~ Enumerated(d)
  \/ ~ Enumerated(d) /\ d.type = "url" /\ Given(d.default) /\ d.default # Http
  \/ d.default = Cipher

BuiltIsReadUnlessDifferent ==
  /\ phase = "unreadable" => \E i \in DOMAIN drafts : BuilderAndReaderDiffer(drafts[i])
  /\ phase \in {"read", "created"} =>
       ~ \E i \in DOMAIN drafts : BuilderAndReaderDiffer(drafts[i])

(* What the operator typed is what the schema enforces: an int key takes   *)
(* exactly the whole numbers between the bounds, a key with listed values  *)
(* exactly those, and every key can take some value.                       *)
Means(r, v) ==
  IF v = Cipher THEN r.type = "string" /\ r.secret
  ELSE IF r.type = "bool" THEN v[1] = "bool"
  ELSE IF r.values # {} THEN v \in r.values
  ELSE CASE r.type = "int"    -> /\ IsInt(v)
                                 /\ r.min # Blank => v[2] >= NumberOf(r.min)[2]
                                 /\ r.max # Blank => v[2] <= NumberOf(r.max)[2]
         [] r.type = "url"    -> v = Http
         [] r.type = "string" -> IsText(v)
         [] OTHER             -> v[1] = "list"

SchemaMeansTheForm ==
  phase = "read" =>
    \A i \in DOMAIN rows :
      /\ \A v \in Stored : MayHold(schema.keys[rows[i].name], v) <=> Means(rows[i], v)
      /\ \E v \in Stored : MayHold(schema.keys[rows[i].name], v)

(* Saving a page changes nothing the operator did not touch: every value   *)
(* that is set comes back as it was, and a secret is not asked for at all  *)
(* -- but for a list item that holds a comma or nothing, which the joined  *)
(* field cannot carry.                                                     *)
UntouchedIsUnchanged ==
  phase = "posted" =>
    \A k \in DOMAIN file :
      LET v == file[k] IN
      v \notin {CommaIn, BlankIn} =>
        /\ ~ schema.keys[k].secret => k \in DOMAIN posted /\ posted[k] = v
        /\ schema.keys[k].secret => k \notin DOMAIN posted

=============================================================================
