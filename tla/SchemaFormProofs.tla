-------------------------- MODULE SchemaFormProofs --------------------------
(***************************************************************************)
(* Theorems about SchemaForm, for every set of names and rows and every    *)
(* value an environment may be given.                                      *)
(***************************************************************************)
EXTENDS SchemaForm, TLAPS

-----------------------------------------------------------------------------
(* Text and values.                                                        *)

Numeral == {"num"} \X Int
Bound   == Numeral \cup {Undefined, NaN}

(* A value is of one of five sorts, and its sort says what it is.          *)
LEMMA SortsOfValues ==
  ASSUME NEW v \in Values
  PROVE  /\ v = Undefined \/ v = Null \/ v = NaN => FALSE
         /\ IsNum(v) <=> v \in Numeral
         /\ IsText(v) <=> v \in TextValue
         /\ v[1] = "bool" <=> v \in {Bool(TRUE), Bool(FALSE)}
         /\ v[1] = "list" <=> v \in {Empty, One, Two, CommaIn, BlankIn}
<1>1. CASE v \in {"numeral"} \X Int
  BY <1>1 DEF Values, TextValue, Numeral, IsNum, IsText, Undefined, Null, NaN, Text, Bool, List,
     Blank, Word, Http, File, Cipher, Pair, Empty, One, Two, CommaIn, BlankIn
<1>2. CASE v \in {Blank, Word, Http, File, Cipher, Pair}
  BY <1>2 DEF Values, TextValue, Numeral, IsNum, IsText, Undefined, Null, NaN, Text, Bool, List,
     Blank, Word, Http, File, Cipher, Pair, Empty, One, Two, CommaIn, BlankIn
<1>3. CASE v \in {"num"} \X Int
  BY <1>3 DEF Values, TextValue, Numeral, IsNum, IsText, Undefined, Null, NaN, Text, Bool, List,
     Blank, Word, Http, File, Cipher, Pair, Empty, One, Two, CommaIn, BlankIn
<1>4. CASE v \in {Bool(TRUE), Bool(FALSE)}
  BY <1>4 DEF Values, TextValue, Numeral, IsNum, IsText, Undefined, Null, NaN, Text, Bool, List,
     Blank, Word, Http, File, Cipher, Pair, Empty, One, Two, CommaIn, BlankIn
<1>5. CASE v \in {Empty, One, Two, CommaIn, BlankIn}
  BY <1>5 DEF Values, TextValue, Numeral, IsNum, IsText, Undefined, Null, NaN, Text, Bool, List,
     Blank, Word, Http, File, Cipher, Pair, Empty, One, Two, CommaIn, BlankIn
<1> QED BY <1>1, <1>2, <1>3, <1>4, <1>5 DEF Values, TextValue

(* Number() of a text is a number or NaN.                                  *)
LEMMA NumberIs ==
  ASSUME NEW t \in TextValue
  PROVE  NumberOf(t) \in Numeral \cup {NaN}
<1>1. CASE t \in {"numeral"} \X Int
  <2>1. t[1] = "numeral" /\ t[2] \in Int /\ t # Blank
    BY <1>1 DEF Blank, Text
  <2> QED BY <2>1 DEF NumberOf, Numeral, Num
<1>2. CASE t \in {Blank, Word, Http, File, Cipher, Pair}
  BY <1>2 DEF NumberOf, Numeral, Num, NaN, Blank, Text, Word, Http, File, Cipher, Pair
<1> QED BY <1>1, <1>2 DEF TextValue

(* split() of a text is a list.                                            *)
LEMMA SplitIs ==
  ASSUME NEW t
  PROVE  Split(t) \in {One, Two, BlankIn}
<1> QED BY DEF Split

(* A default that was typed is a value.                                    *)
LEMMA ParsedDefault ==
  ASSUME NEW type, NEW t \in TextValue
  PROVE  ParseDefault(type, t) \in Values
<1>1. CASE type = "int"
  BY <1>1, NumberIs DEF ParseDefault, Values, Numeral
<1>2. CASE type = "string[]"
  BY <1>2, SplitIs DEF ParseDefault, Values
<1>3. CASE type \notin {"int", "string[]"}
  BY <1>3 DEF ParseDefault, Values
<1> QED BY <1>1, <1>2, <1>3

-----------------------------------------------------------------------------
(* Drafts.                                                                 *)

(* What the parser makes of a row, whatever was typed.                     *)
Drafted(d) ==
  /\ d.type \in STRING
  /\ d.secret \in BOOLEAN
  /\ d.values \subseteq TextValue \ {Blank, Pair, Cipher}
  /\ d.min \in Bound /\ d.max \in Bound
  /\ d.default \in Values \cup {Null}

(* The members of a draft, by the row it was parsed from.                  *)
LEMMA DraftMembers ==
  ASSUME NEW r \in Row
  PROVE  LET d == DraftOf(r) IN
         /\ d.name = r.name /\ d.type = r.type
         /\ d.secret = (r.type # "bool" /\ r.secret)
         /\ d.values = IF r.type = "bool" THEN {} ELSE r.values
         /\ d.min = IF r.type = "bool" THEN Undefined ELSE BoundOf(r.min)
         /\ d.max = IF r.type = "bool" THEN Undefined ELSE BoundOf(r.max)
         /\ d.default = IF r.type = "bool" THEN IF r.tick THEN Bool(TRUE) ELSE Null
                        ELSE IF r.default = Blank THEN Null
                        ELSE ParseDefault(r.type, r.default)
<1> QED BY DEF DraftOf, Row

(* A draft is as the builder's lemmas want it.                             *)
LEMMA DraftsAreDrafted ==
  ASSUME NEW r \in Row
  PROVE  Drafted(DraftOf(r))
<1> DEFINE d == DraftOf(r)
<1>1. d.type \in STRING /\ d.secret \in BOOLEAN
  BY DraftMembers DEF Row
<1>2. d.values \subseteq TextValue \ {Blank, Pair, Cipher}
  BY DraftMembers DEF Row
<1>3. d.min \in Bound /\ d.max \in Bound
  BY DraftMembers, NumberIs DEF Row, Bound, BoundOf
<1>4. d.default \in Values \cup {Null}
  <2>1. Bool(TRUE) \in Values
    BY DEF Values
  <2>2. ParseDefault(r.type, r.default) \in Values
    BY ParsedDefault DEF Row
  <2> QED BY <2>1, <2>2, DraftMembers
<1> QED BY <1>1, <1>2, <1>3, <1>4 DEF Drafted

-----------------------------------------------------------------------------
(* The builder and the reader.                                             *)

(* The reader takes what the builder wrote for a sound draft, but for the  *)
(* three reasons the builder does not look at.                             *)
LEMMA ReaderOnDraft ==
  ASSUME NEW d, NEW names, Drafted(d), DraftSound(d, names)
  PROVE  KeyReads(DefinitionOf(d)) <=> ~ BuilderAndReaderDiffer(d)
<1> DEFINE raw == DefinitionOf(d)
           kept == ~ d.secret /\ Given(d.default)
<1>1. /\ raw.type = IF Enumerated(d) THEN "enum" ELSE d.type
      /\ raw.values = d.values /\ raw.min = d.min /\ raw.max = d.max
      /\ raw.secret = d.secret
      /\ raw.default = IF kept THEN d.default ELSE Undefined
  BY DEF DefinitionOf
<1> HIDE DEF raw
<1> SUFFICES KeyReads(raw) <=> ~ BuilderAndReaderDiffer(d)
  BY DEF raw
<1>2. d.default \in Values \cup {Null} /\ (Given(d.default) => d.default \in Values)
  BY DEF Drafted, Given
<1>3. raw.type \in KeyTypes /\ ~ Less(raw.max, raw.min)
  BY <1>1 DEF DraftSound, KeyTypes
<1>4. (raw.type = "enum" => raw.values # {}) <=> ~ (d.type = "enum" /\ ~ Enumerated(d))
  BY <1>1 DEF Enumerated
<1>5. CASE ~ kept
  <2>1. raw.default = Undefined
    BY <1>1, <1>5
  <2>2. d.default # Cipher
    <3>1. Cipher \in Values /\ Blank # Cipher
      BY DEF Cipher, Values, TextValue, Text, Blank
    <3> QED BY <1>5, <3>1, SortsOfValues DEF DraftSound, Given
  <2>3. ~ (d.type = "url" /\ Given(d.default))
    BY <1>5 DEF DraftSound
  <2> QED BY <1>3, <1>4, <2>1, <2>2, <2>3 DEF KeyReads, BuilderAndReaderDiffer
<1>6. CASE kept
  <2> DEFINE v == d.default
  <2>1. raw.default = v /\ v \in Values /\ Given(v) /\ ~ raw.secret
    BY <1>1, <1>2, <1>6 DEF Drafted
  <2>2. raw.default # Undefined
    BY <2>1 DEF Given
  <2> HIDE DEF v
  <2>3. CASE v = Cipher
    BY <2>1, <2>2, <2>3 DEF v, KeyReads, MayHold, BuilderAndReaderDiffer
  <2>4. CASE v # Cipher /\ Enumerated(d)
    <3>1. v \in raw.values
      BY <1>1, <1>6, <2>4 DEF DraftSound, DefaultSound, v
    <3>2. OfType(raw, v)
      BY <1>1, <2>4, <3>1 DEF OfType
    <3> QED BY <1>3, <1>4, <2>1, <2>4, <3>2 DEF v, KeyReads, MayHold, BuilderAndReaderDiffer
  <2>5. CASE v # Cipher /\ ~ Enumerated(d)
    <3>1. IsOfType(d.type, v) /\ ~ Less(v, d.min) /\ ~ Less(d.max, v) /\ v # Null
      BY <1>6, <2>5 DEF DraftSound, DefaultSound, Given, v
    <3>2. raw.type = d.type
      BY <1>1, <2>5
    <3>3. CASE d.type = "int"
      <4>1. OfType(raw, v)
        BY <1>1, <3>1, <3>2, <3>3 DEF OfType, IsOfType
      <4> QED BY <1>3, <1>4, <2>1, <2>5, <3>3, <4>1 DEF v, KeyReads, MayHold, BuilderAndReaderDiffer
    <3>4. CASE d.type = "bool" \/ d.type = "string[]" \/ d.type = "string"
      <4>1. OfType(raw, v)
        BY <3>1, <3>2, <3>4 DEF OfType, IsOfType
      <4> QED BY <1>3, <1>4, <2>1, <2>5, <3>4, <4>1 DEF v, KeyReads, MayHold, BuilderAndReaderDiffer
    <3>5. CASE d.type = "enum"
      BY <1>4, <2>5, <3>2, <3>5 DEF KeyReads, BuilderAndReaderDiffer
    <3>6. CASE d.type = "url"
      <4>1. OfType(raw, v) <=> v = Http
        BY <3>2, <3>6 DEF OfType
      <4> QED BY <1>3, <1>4, <2>1, <2>2, <2>5, <3>6, <4>1
              DEF v, KeyReads, MayHold, BuilderAndReaderDiffer
    <3> QED BY <1>3, <3>2, <3>3, <3>4, <3>5, <3>6 DEF KeyTypes
  <2> QED BY <2>3, <2>4, <2>5
<1> QED BY <1>5, <1>6

(* The key a draft becomes.                                                *)
LEMMA BuiltKeys ==
  ASSUME NEW ds, NEW names, Builds(ds, names)
  PROVE  /\ DOMAIN Built(ds).keys = {ds[i].name : i \in DOMAIN ds}
         /\ \A i \in DOMAIN ds : Built(ds).keys[ds[i].name] = DefinitionOf(ds[i])
         /\ DOMAIN Built(ds).keys \subseteq names
         /\ Built(ds).version = Num(2) /\ Built(ds).retiring = Undefined
<1> DEFINE at(k) == CHOOSE i \in DOMAIN ds : ds[i].name = k
           ks == [k \in {ds[i].name : i \in DOMAIN ds} |-> DefinitionOf(ds[at(k)])]
<1>1. Built(ds).keys = ks /\ Built(ds).version = Num(2) /\ Built(ds).retiring = Undefined
  BY DEF Built
<1>2. DOMAIN ks = {ds[i].name : i \in DOMAIN ds}
  OBVIOUS
<1>3. ASSUME NEW i \in DOMAIN ds
      PROVE  ks[ds[i].name] = DefinitionOf(ds[i])
  <2>1. at(ds[i].name) \in DOMAIN ds /\ ds[at(ds[i].name)].name = ds[i].name
    OBVIOUS
  <2>2. at(ds[i].name) = i
    BY <2>1 DEF Builds
  <2> QED BY <2>2
<1>4. \A i \in DOMAIN ds : ds[i].name \in names
  BY DEF Builds, DraftSound
<1> HIDE DEF ks
<1> QED BY <1>1, <1>2, <1>3, <1>4

(* A schema is read exactly when none of its drafts is refused.            *)
LEMMA ReaderOnBuilt ==
  ASSUME NEW ds, NEW names, Builds(ds, names), \A i \in DOMAIN ds : Drafted(ds[i])
  PROVE  Reads(Built(ds)) <=> \A i \in DOMAIN ds : ~ BuilderAndReaderDiffer(ds[i])
<1> DEFINE f == Built(ds)
<1>1. VersionReads(f.version) /\ RetiringReads(f.retiring)
  BY BuiltKeys DEF VersionReads, RetiringReads
<1>2. /\ DOMAIN f.keys = {ds[i].name : i \in DOMAIN ds}
      /\ \A i \in DOMAIN ds : f.keys[ds[i].name] = DefinitionOf(ds[i])
  BY BuiltKeys
<1>3. \A i \in DOMAIN ds : KeyReads(DefinitionOf(ds[i])) <=> ~ BuilderAndReaderDiffer(ds[i])
  BY ReaderOnDraft DEF Builds
<1> HIDE DEF f
<1>4. (\A k \in DOMAIN f.keys : KeyReads(f.keys[k]))
        <=> \A i \in DOMAIN ds : KeyReads(f.keys[ds[i].name])
  BY <1>2
<1>5. Reads(f) <=> \A i \in DOMAIN ds : KeyReads(DefinitionOf(ds[i]))
  BY <1>1, <1>2, <1>4 DEF Reads
<1> QED BY <1>3, <1>5 DEF f

(* The values every environment is created with: the default of each key   *)
(* that is given one.                                                      *)
LEMMA DefaultsAre ==
  ASSUME NEW ds, NEW names, Builds(ds, names), \A i \in DOMAIN ds : Drafted(ds[i])
  PROVE  \A k \in DOMAIN DefaultsOf(ds) :
           k \in DOMAIN Built(ds).keys /\ DefaultsOf(ds)[k] \in Values
<1> DEFINE kept == {i \in DOMAIN ds : ~ ds[i].secret /\ Given(ds[i].default)}
           at(k) == CHOOSE i \in kept : ds[i].name = k
           f == [k \in {ds[i].name : i \in kept} |-> ds[at(k)].default]
<1>1. DefaultsOf(ds) = f
  BY DEF DefaultsOf
<1>2. \A k \in DOMAIN f : \E i \in kept : ds[i].name = k
  OBVIOUS
<1>3. ASSUME NEW k \in DOMAIN f
      PROVE  k \in DOMAIN Built(ds).keys /\ f[k] \in Values
  <2>1. at(k) \in kept /\ ds[at(k)].name = k
    BY <1>2
  <2>2. f[k] = ds[at(k)].default
    OBVIOUS
  <2>3. k \in {ds[i].name : i \in DOMAIN ds}
    BY <2>1
  <2> HIDE DEF f, at
  <2>4. ds[at(k)].default \in Values
    BY <2>1 DEF Drafted, Given
  <2> QED BY <2>2, <2>3, <2>4, BuiltKeys
<1> HIDE DEF f
<1> QED BY <1>1, <1>3

-----------------------------------------------------------------------------
(* What the operator typed.                                                *)

(* A bound that was typed and that the builder took.                       *)
LEMMA BoundMeans ==
  ASSUME NEW t \in TextValue, BoundSound(BoundOf(t)), NEW v \in Numeral
  PROVE  /\ ~ Less(v, BoundOf(t)) <=> (t # Blank => v[2] >= NumberOf(t)[2])
         /\ ~ Less(BoundOf(t), v) <=> (t # Blank => v[2] <= NumberOf(t)[2])
<1>1. CASE t = Blank
  BY <1>1 DEF BoundOf, Less, IsNum, Undefined
<1>2. CASE t # Blank
  <2>1. BoundOf(t) = NumberOf(t)
    BY <1>2 DEF BoundOf
  <2>2. NumberOf(t) \in Numeral
    BY <2>1, NumberIs DEF BoundSound, IsInt, IsNum, Undefined, NaN, Numeral
  <2>3. NumberOf(t)[2] \in Int /\ v[2] \in Int /\ NumberOf(t)[1] = "num" /\ v[1] = "num"
    BY <2>2 DEF Numeral
  <2> QED BY <1>2, <2>1, <2>3 DEF Less, IsNum
<1> QED BY <1>1, <1>2

(* A key read from a sound draft holds what the row means.                 *)
LEMMA RowMeans ==
  ASSUME NEW r \in Row, NEW names, DraftSound(DraftOf(r), names),
         KeyReads(DefinitionOf(DraftOf(r))), NEW v \in Values
  PROVE  MayHold(DefinitionOf(DraftOf(r)), v) <=> Means(r, v)
<1> DEFINE d == DraftOf(r)
           raw == DefinitionOf(d)
<1>1. /\ d.type = r.type
      /\ d.secret = (r.type # "bool" /\ r.secret)
      /\ d.values = IF r.type = "bool" THEN {} ELSE r.values
      /\ d.min = IF r.type = "bool" THEN Undefined ELSE BoundOf(r.min)
      /\ d.max = IF r.type = "bool" THEN Undefined ELSE BoundOf(r.max)
  BY DraftMembers
<1>2. /\ raw.type = IF d.values # {} THEN "enum" ELSE d.type
      /\ raw.values = d.values /\ raw.min = d.min /\ raw.max = d.max
      /\ raw.secret = d.secret
  BY DEF DefinitionOf, Enumerated
<1>3. DraftSound(d, names) /\ KeyReads(raw)
  OBVIOUS
<1>4. Given(v)
  BY SortsOfValues DEF Given
<1>r. r.secret \in BOOLEAN /\ r.min \in TextValue /\ r.max \in TextValue
  BY DEF Row
<1> HIDE DEF d, raw
<1> SUFFICES MayHold(raw, v) <=> Means(r, v)
  BY DEF d, raw
<1>5. CASE v = Cipher
  BY <1>1, <1>2, <1>3, <1>5, <1>r DEF MayHold, Means, DraftSound
<1>6. CASE v # Cipher
  <2>1. MayHold(raw, v) <=> OfType(raw, v)
    BY <1>4, <1>6 DEF MayHold
  <2>2. CASE r.type = "bool"
    BY <1>1, <1>2, <1>6, <2>1, <2>2 DEF OfType, Means
  <2>3. CASE r.type # "bool" /\ r.values # {}
    BY <1>1, <1>2, <1>6, <2>1, <2>3 DEF OfType, Means
  <2>4. CASE r.type # "bool" /\ r.values = {}
    <3>1. raw.type = r.type /\ raw.type \in KeyTypes /\ raw.type # "enum"
      BY <1>1, <1>2, <1>3, <2>4 DEF KeyReads
    <3>2. CASE r.type = "int"
      <4>1. OfType(raw, v) <=> IsInt(v) /\ ~ Less(v, BoundOf(r.min)) /\ ~ Less(BoundOf(r.max), v)
        BY <1>1, <1>2, <2>4, <3>1, <3>2 DEF OfType
      <4>2. BoundSound(BoundOf(r.min)) /\ BoundSound(BoundOf(r.max))
        BY <1>1, <1>3, <2>4 DEF DraftSound
      <4>3. Means(r, v) <=> /\ IsInt(v)
                            /\ r.min # Blank => v[2] >= NumberOf(r.min)[2]
                            /\ r.max # Blank => v[2] <= NumberOf(r.max)[2]
        BY <1>6, <2>4, <3>2 DEF Means
      <4>4. IsInt(v) => v \in Numeral
        BY SortsOfValues DEF IsInt
      <4> QED BY <1>r, <2>1, <4>1, <4>2, <4>3, <4>4, BoundMeans
    <3>3. CASE r.type = "url"
      BY <1>6, <2>1, <2>4, <3>1, <3>3 DEF OfType, Means
    <3>4. CASE r.type = "string"
      BY <1>6, <2>1, <2>4, <3>1, <3>4 DEF OfType, Means
    <3>5. CASE r.type = "string[]"
      BY <1>6, <2>1, <2>4, <3>1, <3>5 DEF OfType, Means
    <3> QED BY <2>4, <3>1, <3>2, <3>3, <3>4, <3>5 DEF KeyTypes
  <2> QED BY <2>2, <2>3, <2>4
<1> QED BY <1>5, <1>6

(* No key is one that no value can satisfy.                                *)
LEMMA SomeValueFits ==
  ASSUME NEW r \in Row, NEW names, DraftSound(DraftOf(r), names),
         KeyReads(DefinitionOf(DraftOf(r))), NEW values \in SUBSET Values,
         {Blank, Http, Bool(TRUE), Empty, Num(0)} \subseteq values,
         r.values \subseteq values,
         {NumberOf(r.min), NumberOf(r.max)} \ {NaN} \subseteq values
  PROVE  \E v \in values : MayHold(DefinitionOf(DraftOf(r)), v)
<1> DEFINE d == DraftOf(r)
           raw == DefinitionOf(d)
<1>1. /\ d.type = r.type
      /\ d.values = IF r.type = "bool" THEN {} ELSE r.values
      /\ d.min = IF r.type = "bool" THEN Undefined ELSE BoundOf(r.min)
      /\ d.max = IF r.type = "bool" THEN Undefined ELSE BoundOf(r.max)
  BY DraftMembers
<1>2. /\ raw.type = IF d.values # {} THEN "enum" ELSE d.type
      /\ raw.values = d.values /\ raw.min = d.min /\ raw.max = d.max
  BY DEF DefinitionOf, Enumerated
<1>3. DraftSound(d, names) /\ KeyReads(raw)
  OBVIOUS
<1> HIDE DEF d, raw
<1> SUFFICES \E v \in values : MayHold(raw, v)
  BY DEF d, raw
<1>4. /\ Blank # Cipher /\ Http # Cipher /\ Bool(TRUE) # Cipher /\ Empty # Cipher
      /\ \A v \in Numeral : v # Cipher
      /\ Num(0) \in Numeral
  BY DEF Blank, Http, Cipher, Text, Bool, Empty, List, Numeral, Num
<1>5. \A v \in values : Given(v)
  BY SortsOfValues DEF Given
<1>6. \A v \in values : v # Cipher /\ OfType(raw, v) => MayHold(raw, v)
  BY <1>5 DEF MayHold
<1>7. CASE d.values # {}
  <2>1. PICK v \in r.values : TRUE
    BY <1>1, <1>7
  <2>2. v \in values /\ v # Cipher
    BY <2>1 DEF Row
  <2>3. OfType(raw, v)
    BY <1>1, <1>2, <1>7, <2>1 DEF OfType
  <2> QED BY <1>6, <2>2, <2>3
<1>8. CASE d.values = {}
  <2>1. raw.type = r.type /\ raw.type \in KeyTypes /\ raw.type # "enum"
    BY <1>1, <1>2, <1>3, <1>8 DEF KeyReads
  <2>2. CASE r.type = "int"
    <3> DEFINE low == IF r.min # Blank THEN NumberOf(r.min)
                      ELSE IF r.max # Blank THEN NumberOf(r.max) ELSE Num(0)
    <3>1. BoundSound(BoundOf(r.min)) /\ BoundSound(BoundOf(r.max))
      BY <1>1, <1>3, <2>2 DEF DraftSound
    <3>2. ~ Less(BoundOf(r.max), BoundOf(r.min))
      BY <1>1, <1>3, <2>2 DEF DraftSound
    <3>3. \A t \in {r.min, r.max} : t # Blank => IsInt(NumberOf(t)) /\ NumberOf(t) \in Numeral
      BY <3>1, NumberIs DEF Row, BoundOf, BoundSound, IsInt, IsNum, NaN, Undefined, Numeral
    <3>4. low \in Numeral /\ IsInt(low)
      BY <1>4, <3>3 DEF IsInt, IsNum, Num
    <3>5. low \in values
      BY <3>3 DEF Numeral, NaN
    <3>6. ~ Less(low, BoundOf(r.min)) /\ ~ Less(BoundOf(r.max), low)
      <4>1. CASE r.min # Blank
        BY <3>2, <3>3, <4>1 DEF BoundOf, Less, Numeral
      <4>2. CASE r.min = Blank
        BY <3>3, <4>2 DEF BoundOf, Less, Numeral, IsNum, Undefined
      <4> QED BY <4>1, <4>2
    <3> HIDE DEF low
    <3>7. OfType(raw, low)
      BY <1>1, <1>2, <2>1, <2>2, <3>4, <3>6 DEF OfType
    <3> QED BY <1>4, <1>6, <3>4, <3>5, <3>7
  <2>3. CASE r.type = "bool"
    <3>1. OfType(raw, Bool(TRUE))
      BY <2>1, <2>3 DEF OfType, Bool
    <3> QED BY <1>4, <1>6, <3>1
  <2>4. CASE r.type = "string"
    <3>1. OfType(raw, Blank)
      BY <2>1, <2>4 DEF OfType, IsText, Blank, Text
    <3> QED BY <1>4, <1>6, <3>1
  <2>5. CASE r.type = "url"
    <3>1. OfType(raw, Http)
      BY <2>1, <2>5 DEF OfType
    <3> QED BY <1>4, <1>6, <3>1
  <2>6. CASE r.type = "string[]"
    <3>1. OfType(raw, Empty)
      BY <2>1, <2>6 DEF OfType, Empty, List
    <3> QED BY <1>4, <1>6, <3>1
  <2> QED BY <2>1, <2>2, <2>3, <2>4, <2>5, <2>6 DEF KeyTypes
<1> QED BY <1>7, <1>8

-----------------------------------------------------------------------------
(* The page.                                                               *)

(* A field that nobody touched posts the value it shows, but for the list  *)
(* items that the joined field cannot carry.                               *)
LEMMA FieldsRoundTrip ==
  ASSUME NEW d, d.type \in KeyTypes, ~ d.secret, NEW v \in Values,
         MayHold(d, v), d.values \subseteq TextValue, v \notin {CommaIn, BlankIn}
  PROVE  PostBack(d, v) = v
<1>1. OfType(d, v) /\ v # Undefined
  BY SortsOfValues DEF MayHold
<1>2. CASE d.type = "bool"
  BY <1>2 DEF PostBack
<1>3. CASE d.type = "int"
  <2>1. v \in Numeral
    BY <1>1, <1>3, SortsOfValues DEF OfType, IsInt
  <2>2. v[2] \in Int /\ v = Num(v[2]) /\ IsNum(v)
    BY <2>1 DEF Numeral, Num, IsNum
  <2>3. v \notin {Two, CommaIn} /\ v # One /\ v \notin {Empty, BlankIn}
    BY <2>2 DEF Num, Two, CommaIn, One, Empty, BlankIn, List
  <2>4. Shown(d, v) = Digits(v[2])
    BY <1>1, <2>2, <2>3 DEF Shown, Formatted
  <2>5. Digits(v[2]) # Blank /\ NumberOf(Digits(v[2])) = Num(v[2])
    BY DEF Digits, Blank, Text, NumberOf
  <2> QED BY <1>3, <2>2, <2>4, <2>5 DEF PostBack, Field, Converted
<1>4. CASE d.type = "string[]"
  <2>1. v \in {Empty, One, Two}
    BY <1>1, <1>4, SortsOfValues DEF OfType
  <2>2. PostBack(d, v) = IF Formatted(v) = Blank THEN Empty ELSE Split(Formatted(v))
    BY <1>1, <1>4 DEF PostBack, Field, Converted, Shown
  <2>3. CASE v = Empty
    BY <2>2, <2>3 DEF Formatted, IsNum, Empty, One, Two, CommaIn, BlankIn, List
  <2>4. CASE v = One
    <3>1. Formatted(v) = Word
      BY <2>4 DEF Formatted, IsNum, Empty, One, Two, CommaIn, BlankIn, List
    <3> QED BY <2>2, <2>4, <3>1 DEF Split, Word, Blank, Pair, Cipher, Text
  <2>5. CASE v = Two
    <3>1. Formatted(v) = Pair
      BY <2>5 DEF Formatted, IsNum, Empty, One, Two, CommaIn, BlankIn, List
    <3> QED BY <2>2, <2>5, <3>1 DEF Split, Word, Blank, Pair, Cipher, Text
  <2> QED BY <2>1, <2>3, <2>4, <2>5
<1>5. CASE d.type \in {"string", "enum", "url"}
  <2>1. v \in TextValue
    <3>1. Http \in TextValue
      BY DEF TextValue
    <3> QED BY <1>1, <1>5, <3>1, SortsOfValues DEF OfType
  <2>2. ~ IsNum(v) /\ v \notin {Empty, One, Two, CommaIn, BlankIn}
    <3>1. IsText(v)
      BY <2>1, SortsOfValues
    <3> QED BY <3>1 DEF IsText, IsNum, Empty, One, Two, CommaIn, BlankIn, List
  <2>3. Shown(d, v) = v
    BY <1>1, <2>2 DEF Shown, Formatted
  <2> QED BY <1>5, <2>3 DEF PostBack, Field, Converted
<1> QED BY <1>2, <1>3, <1>4, <1>5 DEF KeyTypes

-----------------------------------------------------------------------------
(* The inductive invariant: how far the rows have come says what each of   *)
(* the later forms is made of.  SchemaMeansTheForm needs that the schema   *)
(* is built from these rows, UntouchedIsUnchanged that what the            *)
(* environment holds is what the schema lets it hold.                      *)

Phases == {"form", "parsed", "refused", "built", "unreadable", "read", "invalid",
           "created", "changed", "posted"}

FromBuilt == {"built", "unreadable", "read", "invalid", "created", "changed", "posted"}
FromRead  == {"read", "invalid", "created", "changed", "posted"}
Live      == {"created", "changed", "posted"}

RowsAreDrafted ==
  drafts = IF phase = "form" THEN <<>> ELSE [i \in DOMAIN rows |-> DraftOf(rows[i])]

DraftsAreBuilt ==
  /\ phase \in FromBuilt => Builds(drafts, GoodNames) /\ schema = Built(drafts)
  /\ phase \notin FromBuilt => schema.keys = Nothing

SchemaIsRead ==
  /\ phase \in FromRead => Reads(schema)
  /\ phase = "unreadable" => ~ Reads(schema)

FileFollows ==
  /\ phase \notin Live \cup {"invalid"} => file = Nothing
  /\ DOMAIN file \subseteq DOMAIN schema.keys
  /\ phase \in Live =>
       \A k \in DOMAIN file : file[k] \in Values /\ MayHold(schema.keys[k], file[k])

PostedFollows == posted = IF phase = "posted" THEN Untouched(schema, file) ELSE Nothing

FormInv ==
  /\ phase \in Phases
  /\ rows \in Rows
  /\ RowsAreDrafted
  /\ DraftsAreBuilt
  /\ SchemaIsRead
  /\ FileFollows
  /\ PostedFollows

(* The rows and the drafts made of them.                                   *)
LEMMA DraftsOfRows ==
  ASSUME rows \in Rows, drafts = [i \in DOMAIN rows |-> DraftOf(rows[i])]
  PROVE  /\ DOMAIN drafts = DOMAIN rows
         /\ \A i \in DOMAIN rows :
              rows[i] \in Row /\ drafts[i] = DraftOf(rows[i]) /\ Drafted(drafts[i])
<1>1. rows \in Seq(Row)
  BY RowsAssumption
<1>2. \A i \in DOMAIN rows : rows[i] \in Row
  BY <1>1
<1> QED BY <1>2, DraftsAreDrafted

(* FormInv holds at first.                                                 *)
LEMMA FormInvInit ==
  ASSUME Init
  PROVE  FormInv
<1>1. DOMAIN file = {} /\ DOMAIN schema.keys = {}
  BY DEF Init, Nothing
<1> QED BY <1>1 DEF Init, FormInv, Phases, FromBuilt, FromRead, Live, RowsAreDrafted,
     DraftsAreBuilt, SchemaIsRead, FileFollows, PostedFollows

(* Each step keeps FormInv.                                                *)
LEMMA FormInvNext ==
  ASSUME FormInv, [Next]_vars
  PROVE  FormInv'
<1> USE DEF Phases, FromBuilt, FromRead, Live, Goto
<1>n. DOMAIN Nothing = {}
  BY DEF Nothing
<1>1. CASE Parse
  BY <1>1 DEF Parse, FormInv, RowsAreDrafted, DraftsAreBuilt, SchemaIsRead, FileFollows,
     PostedFollows
<1>2. CASE Build
  <2>1. file = Nothing /\ file' = Nothing /\ DOMAIN file' \subseteq DOMAIN schema'.keys
    BY <1>2, <1>n DEF Build, FormInv, FileFollows
  <2> QED BY <1>2, <2>1 DEF Build, FormInv, RowsAreDrafted, DraftsAreBuilt, SchemaIsRead,
     FileFollows, PostedFollows
<1>3. CASE Read
  BY <1>3 DEF Read, FormInv, RowsAreDrafted, DraftsAreBuilt, SchemaIsRead, FileFollows,
     PostedFollows
<1>4. CASE Create
  <2>1. /\ Builds(drafts, GoodNames) /\ schema = Built(drafts)
        /\ \A i \in DOMAIN drafts : Drafted(drafts[i])
    BY <1>4, DraftsOfRows DEF Create, FormInv, DraftsAreBuilt, RowsAreDrafted
  <2>2. \A k \in DOMAIN file' : k \in DOMAIN schema.keys /\ file'[k] \in Values
    BY <1>4, <2>1, DefaultsAre DEF Create
  <2>3. phase' = "created" => \A k \in DOMAIN file' : MayHold(schema.keys[k], file'[k])
    BY <1>4 DEF Create, Validates
  <2>4. FileFollows'
    BY <1>4, <2>2, <2>3 DEF Create, FileFollows
  <2> QED BY <1>4, <2>4 DEF Create, FormInv, RowsAreDrafted, DraftsAreBuilt, SchemaIsRead,
     PostedFollows
<1>5. CASE Change
  <2>1. PICK k \in DOMAIN schema.keys, v \in Stored :
          /\ MayHold(schema.keys[k], v)
          /\ file' = [x \in DOMAIN file \cup {k} |-> IF x = k THEN v ELSE file[x]]
    BY <1>5 DEF Change
  <2>2. v \in Values
    BY StoredAssumption
  <2>3. FileFollows'
    BY <1>5, <2>1, <2>2 DEF Change, FormInv, FileFollows
  <2> QED BY <1>5, <2>3 DEF Change, FormInv, RowsAreDrafted, DraftsAreBuilt, SchemaIsRead,
     PostedFollows
<1>6. CASE Post
  BY <1>6 DEF Post, FormInv, RowsAreDrafted, DraftsAreBuilt, SchemaIsRead, FileFollows,
     PostedFollows
<1>7. CASE UNCHANGED vars
  BY <1>7 DEF vars, FormInv, RowsAreDrafted, DraftsAreBuilt, SchemaIsRead, FileFollows,
     PostedFollows
<1> QED BY <1>1, <1>2, <1>3, <1>4, <1>5, <1>6, <1>7 DEF Next

(* FormInv is an invariant.                                                *)
LEMMA FormInvHolds == Spec => []FormInv
<1> QED BY FormInvInit, FormInvNext, PTL DEF Spec

-----------------------------------------------------------------------------
(* The form's rows, drafts, schema, environment and post name no key that  *)
(* the stage before did not: a schema declares only well-formed names, an  *)
(* environment and a post only declared ones.                              *)
THEOREM TypeCorrect == Spec => []TypeOK
<1>1. ASSUME FormInv PROVE TypeOK
  <2>1. DOMAIN drafts \subseteq DOMAIN rows
    BY <1>1, DraftsOfRows DEF FormInv, RowsAreDrafted
  <2>2. DOMAIN Nothing = {}
    BY DEF Nothing
  <2>3. DOMAIN schema.keys \subseteq GoodNames
    BY <1>1, <2>2, BuiltKeys DEF FormInv, DraftsAreBuilt
  <2>4. DOMAIN posted \subseteq DOMAIN schema.keys
    <3>1. DOMAIN Untouched(schema, file) \subseteq DOMAIN schema.keys
      BY DEF Untouched
    <3> QED BY <1>1, <2>2, <3>1 DEF FormInv, PostedFollows
  <2> QED BY <1>1, <2>1, <2>3, <2>4 DEF TypeOK, FormInv, Phases, FileFollows
<1> QED BY <1>1, FormInvHolds, PTL

(* The builder's output is read, whatever was typed, except for the three  *)
(* reasons the builder does not look at, and with one of them never.       *)
THEOREM BuilderAndReaderAgree == Spec => []BuiltIsReadUnlessDifferent
<1>1. ASSUME FormInv PROVE BuiltIsReadUnlessDifferent
  <2>1. CASE phase \in FromBuilt
    <3>1. /\ Builds(drafts, GoodNames) /\ schema = Built(drafts)
          /\ \A i \in DOMAIN drafts : Drafted(drafts[i])
      BY <1>1, <2>1, DraftsOfRows DEF FormInv, DraftsAreBuilt, RowsAreDrafted, FromBuilt
    <3>2. Reads(schema) <=> \A i \in DOMAIN drafts : ~ BuilderAndReaderDiffer(drafts[i])
      BY <3>1, ReaderOnBuilt
    <3> QED BY <1>1, <3>2 DEF FormInv, SchemaIsRead, FromRead, BuiltIsReadUnlessDifferent
  <2>2. CASE phase \notin FromBuilt
    BY <2>2 DEF BuiltIsReadUnlessDifferent, FromBuilt
  <2> QED BY <2>1, <2>2
<1> QED BY <1>1, FormInvHolds, PTL

(* A schema that was read enforces what the operator typed and leaves each *)
(* key some value to take.                                                 *)
THEOREM TheSchemaMeansTheForm == Spec => []SchemaMeansTheForm
<1>1. ASSUME FormInv PROVE SchemaMeansTheForm
  <2> SUFFICES ASSUME phase = "read", NEW i \in DOMAIN rows
               PROVE  /\ \A v \in Stored :
                           MayHold(schema.keys[rows[i].name], v) <=> Means(rows[i], v)
                      /\ \E v \in Stored : MayHold(schema.keys[rows[i].name], v)
    BY DEF SchemaMeansTheForm
  <2>1. /\ Builds(drafts, GoodNames) /\ schema = Built(drafts)
        /\ drafts = [j \in DOMAIN rows |-> DraftOf(rows[j])]
        /\ rows \in Rows /\ Reads(schema)
    BY <1>1 DEF FormInv, DraftsAreBuilt, RowsAreDrafted, SchemaIsRead, FromBuilt, FromRead
  <2>2. DOMAIN drafts = DOMAIN rows /\ rows[i] \in Row /\ drafts[i] = DraftOf(rows[i])
    BY <2>1, DraftsOfRows
  <2>3. drafts[i].name = rows[i].name
    BY <2>2, DraftMembers
  <2>4. /\ rows[i].name \in DOMAIN schema.keys
        /\ schema.keys[rows[i].name] = DefinitionOf(DraftOf(rows[i]))
    BY <2>1, <2>2, <2>3, BuiltKeys
  <2>5. DraftSound(DraftOf(rows[i]), GoodNames) /\ KeyReads(DefinitionOf(DraftOf(rows[i])))
    BY <2>1, <2>2, <2>4 DEF Builds, Reads
  <2>6. \A v \in Stored : MayHold(DefinitionOf(DraftOf(rows[i])), v) <=> Means(rows[i], v)
    BY <2>2, <2>5, RowMeans, StoredAssumption
  <2>7. \E v \in Stored : MayHold(DefinitionOf(DraftOf(rows[i])), v)
    BY <2>1, <2>2, <2>5, SomeValueFits, StoredAssumption
  <2> QED BY <2>4, <2>6, <2>7
<1> QED BY <1>1, FormInvHolds, PTL

(* Saving a page nobody touched asks for every value that is set, as it    *)
(* was, and for no secret.                                                 *)
THEOREM UntouchedPagesChangeNothing == Spec => []UntouchedIsUnchanged
<1>1. ASSUME FormInv PROVE UntouchedIsUnchanged
  <2> SUFFICES ASSUME phase = "posted", NEW k \in DOMAIN file,
                      file[k] \notin {CommaIn, BlankIn}
               PROVE  /\ ~ schema.keys[k].secret => k \in DOMAIN posted /\ posted[k] = file[k]
                      /\ schema.keys[k].secret => k \notin DOMAIN posted
    BY DEF UntouchedIsUnchanged
  <2>1. /\ Builds(drafts, GoodNames) /\ schema = Built(drafts) /\ Reads(schema)
        /\ \A i \in DOMAIN drafts : Drafted(drafts[i])
        /\ posted = Untouched(schema, file)
        /\ file[k] \in Values /\ MayHold(schema.keys[k], file[k]) /\ k \in DOMAIN schema.keys
    BY <1>1, DraftsOfRows DEF FormInv, DraftsAreBuilt, RowsAreDrafted, SchemaIsRead,
       FileFollows, PostedFollows, FromBuilt, FromRead, Live
  <2>2. PICK i \in DOMAIN drafts : schema.keys[k] = DefinitionOf(drafts[i])
    BY <2>1, BuiltKeys
  <2>3. /\ schema.keys[k].type \in KeyTypes
        /\ schema.keys[k].values \subseteq TextValue
        /\ schema.keys[k].secret \in BOOLEAN
        /\ schema.keys[k].secret => schema.keys[k].type = "string"
    BY <2>1, <2>2 DEF DefinitionOf, Drafted, Builds, DraftSound, Reads, KeyReads
  <2>4. Held(file, k) = file[k]
    BY DEF Held
  <2>5. ASSUME ~ schema.keys[k].secret
        PROVE  k \in DOMAIN posted /\ posted[k] = file[k]
    <3>1. PostBack(schema.keys[k], Held(file, k)) = file[k]
      BY <2>1, <2>3, <2>4, <2>5, FieldsRoundTrip
    <3>2. file[k] # Undefined
      BY <2>1, SortsOfValues
    <3> QED BY <2>1, <3>1, <3>2 DEF Untouched
  <2>6. ASSUME schema.keys[k].secret
        PROVE  k \notin DOMAIN posted
    <3>1. PostBack(schema.keys[k], Held(file, k)) = Undefined
      BY <2>3, <2>6 DEF PostBack, Field, Shown
    <3> QED BY <2>1, <3>1 DEF Untouched
  <2> QED BY <2>5, <2>6
<1> QED BY <1>1, FormInvHolds, PTL
=============================================================================
