---------------------------- MODULE SchemaRules -----------------------------
(***************************************************************************)
(* What a schema is allowed to say and what a value is allowed to be: the  *)
(* reader SchemaSet and its checks (src/src/schema/validator.ts), and the  *)
(* builder that turns a form into a schema (src/src/schema/builder.ts).    *)
(* Pure operators; SchemaForm runs them, Console relies on the reader.     *)
(*                                                                         *)
(* A value is a pair <<sort, code>>.  Strings are classes of strings that  *)
(* the rules tell apart; a number is coded by its double, so that 1 and    *)
(* 1.5 both have a code.                                                   *)
(***************************************************************************)
EXTENDS Integers, FiniteSets

Text(c)   == <<"text", c>>
Num(twice) == <<"num", twice>>
Bool(b)   == <<"bool", IF b THEN 1 ELSE 0>>
List(c)   == <<"list", c>>
NaN       == <<"nan", 0>>
Null      == <<"null", 0>>
Undefined == <<"undefined", 0>>

Blank  == Text(0)        \* the empty string
Word   == Text(1)        \* a string that is no URL
Http   == Text(2)        \* an http or https URL
File   == Text(3)        \* a URL of another scheme
Cipher == Text(4)        \* ENC[AES256_GCM,...
Pair   == Text(5)        \* two words with a comma between them
Digits(twice) == <<"numeral", twice>>   \* the text of Num(twice)

Empty    == List(0)      \* []
One      == List(1)      \* one word
Two      == List(2)      \* two words
CommaIn  == List(3)      \* one item that holds a comma
BlankIn  == List(4)      \* one item, the empty string

TextValue == {Blank, Word, Http, File, Cipher, Pair} \cup ({"numeral"} \X Int)

(* What a file may hold.                                                   *)
Values ==
  TextValue \cup ({"num"} \X Int) \cup {Bool(TRUE), Bool(FALSE)}
  \cup {Empty, One, Two, CommaIn, BlankIn}

IsText(v)    == v[1] \in {"text", "numeral"}
IsNum(v)     == v[1] = "num"
IsInt(v)     == IsNum(v) /\ v[2] % 2 = 0
IsNumber(v)  == v[1] \in {"num", "nan"}          \* typeof v === 'number'
Less(v, w)   == IsNum(v) /\ IsNum(w) /\ v[2] < w[2]  \* NaN compares false
Given(v)     == v \notin {Null, Undefined}

KeyTypes == {"string", "int", "bool", "enum", "url", "string[]"}

-----------------------------------------------------------------------------
(* The reader.                                                             *)

(* An upper bound read as exclusive.                                       *)
OfTypeExclusive(d, v) ==
  CASE d.type = "int"      -> IsInt(v) /\ ~ Less(v, d.min) /\ (IsNum(d.max) => Less(v, d.max))
    [] d.type = "enum"     -> v \in d.values
    [] d.type = "url"      -> v = Http
    [] d.type = "string[]" -> v[1] = "list"
    [] d.type = "bool"     -> v[1] = "bool"
    [] d.type = "string"   -> IsText(v)

(* checkValue: whether a key defined by d may hold v.  Ciphertext is what  *)
(* a secret holds in the repository and nothing else may.                  *)
OfType(d, v) ==
  CASE d.type = "string"   -> IsText(v)
    [] d.type = "bool"     -> v[1] = "bool"
    [] d.type = "int"      -> IsInt(v) /\ ~ Less(v, d.min) /\ ~ Less(d.max, v)
    [] d.type = "enum"     -> v \in d.values
    [] d.type = "url"      -> v = Http
    [] d.type = "string[]" -> v[1] = "list"

MayHold(d, v) == IF v = Cipher THEN d.secret ELSE Given(v) /\ OfType(d, v)

(* A key the file describes: the members it may have, Undefined or {} for  *)
(* one it lacks.  parseKey refuses a key no value could satisfy, and a     *)
(* default the key would not hold.                                         *)
KeyReads(raw) ==
  /\ raw.type \in KeyTypes
  /\ raw.type = "enum" => raw.values # {}
  /\ ~ Less(raw.max, raw.min)
  /\ raw.default # Undefined => MayHold(raw, raw.default)

(* parseSchemaVersion and parseRetiring.                                   *)
VersionReads(v)  == v = Num(2)
RetiringReads(v) == v \in {Undefined, Bool(TRUE), Bool(FALSE)}

(* SchemaSet.fromFiles on one schema/<product>.yaml.                       *)
Reads(file) ==
  /\ \A k \in DOMAIN file.keys : KeyReads(file.keys[k])
  /\ VersionReads(file.version)
  /\ RetiringReads(file.retiring)

(* SchemaSet.fromDocument: one product of the global schema.yaml.  The     *)
(* product is given version 1; only a true retiring counts, and no other   *)
(* value is refused.                                                       *)
AsProductFile(entry) ==
  [version |-> Num(2), keys |-> entry.keys,
   retiring |-> IF entry.retiring = Bool(TRUE) THEN Bool(TRUE) ELSE Undefined]

DocumentReads(document) ==
  /\ document.version = Num(2)
  /\ \A s \in DOMAIN document.services : Reads(AsProductFile(document.services[s]))

IsRetiring(file)  == file.retiring = Bool(TRUE)
IsSecret(file, k) == k \in DOMAIN file.keys /\ file.keys[k].secret

DefaultsFor(file) ==
  [k \in {x \in DOMAIN file.keys : file.keys[x].default # Undefined} |-> file.keys[k].default]

(* validate: every key of the document is declared and may hold its value; *)
(* a key that is absent is never an error.                                 *)
Validates(file, values) ==
  \A k \in DOMAIN values : k \in DOMAIN file.keys /\ MayHold(file.keys[k], values[k])

-----------------------------------------------------------------------------
(* The builder.  A draft is a key as the form describes it.                *)

IsOfType(type, v) ==
  \/ v = Null
  \/ CASE type = "int"      -> IsInt(v)
       [] type = "bool"     -> v[1] = "bool"
       [] type = "string[]" -> v[1] = "list"
       [] OTHER             -> IsText(v)

Enumerated(d) == d.values # {}

BoundSound(b) == b = Undefined \/ IsInt(b)

(* A default that is not compared with the bounds.                         *)
DefaultTyped(d) ==
  Given(d.default) =>
    IF Enumerated(d) THEN d.default \in d.values ELSE IsOfType(d.type, d.default)

DefaultSound(d) ==
  Given(d.default) =>
    IF Enumerated(d) THEN d.default \in d.values
    ELSE /\ IsOfType(d.type, d.default)
         /\ ~ Less(d.default, d.min)
         /\ ~ Less(d.max, d.default)

(* checkKey, for one draft: whether it has no problem.                     *)
DraftSound(d, names) ==
  /\ d.name \in names
  /\ d.type \in KeyTypes
  /\ d.secret => d.type = "string" /\ d.default \in {Null, Undefined, Blank} /\ ~ Enumerated(d)
  /\ Enumerated(d) => d.type \in {"string", "enum"}
  /\ (d.min # Undefined \/ d.max # Undefined) => d.type = "int"
  /\ BoundSound(d.min) /\ BoundSound(d.max)
  /\ ~ Less(d.max, d.min)
  /\ DefaultSound(d)

(* Names that are not looked at.                                           *)
BuildsUnnamed(drafts, names) ==
  \A i, j \in DOMAIN drafts :
    DraftSound(drafts[i], names \cup {drafts[i].name})
    /\ (drafts[i].name = drafts[j].name => i = j)

Builds(drafts, names) ==
  /\ \A i \in DOMAIN drafts : DraftSound(drafts[i], names)
  /\ \A i, j \in DOMAIN drafts : drafts[i].name = drafts[j].name => i = j

(* What buildSchema writes for a draft: declared values are an enum        *)
(* whatever the form called the type, and a secret carries no default.     *)
DefinitionOf(d) ==
  [type    |-> IF Enumerated(d) THEN "enum" ELSE d.type,
   values  |-> d.values,
   min     |-> d.min,
   max     |-> d.max,
   secret  |-> d.secret,
   default |-> IF ~ d.secret /\ Given(d.default) THEN d.default ELSE Undefined]

Built(drafts) ==
  [version  |-> Num(2),
   retiring |-> Undefined,
   keys     |-> [k \in {drafts[i].name : i \in DOMAIN drafts} |->
                   DefinitionOf(drafts[CHOOSE i \in DOMAIN drafts : drafts[i].name = k])]]
=============================================================================
