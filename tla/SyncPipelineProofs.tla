------------------------- MODULE SyncPipelineProofs -------------------------
(***************************************************************************)
(* Proofs about SyncPipeline: the histories of GitHistory as sequences of  *)
(* commits, then type correctness, and then, from one inductive invariant  *)
(* each, what the runs check of the histories, of the attribution and of   *)
(* the report.                                                             *)
(***************************************************************************)
EXTENDS SyncPipeline, FiniteSetTheorems, SequenceTheorems, TLAPS

(* A non-empty set of positions has a last one: the positions after the    *)
(* members of the set are ordered by inclusion, which is well-founded.     *)
LEMMA MaxExists ==
  ASSUME NEW n \in Nat, NEW I \in SUBSET (1..n), I # {}
  PROVE  \E i \in I : \A j \in I : i >= j
<1> DEFINE Over(i) == {k \in 1..n : k > i}
           T == {Over(i) : i \in I}
<1>1. IsFiniteSet(1..n)
  BY FS_Interval
<1>2. IsWellFoundedOn(StrictSubsetOrdering(1..n), FiniteSubsetsOf(1..n))
  BY FS_StrictSubsetOrderingWellFounded
<1>3. T \subseteq FiniteSubsetsOf(1..n) /\ T # {}
  <2>1. FiniteSubsetsOf(1..n) = SUBSET (1..n)
    BY <1>1, FS_FiniteSubsetsOfFinite
  <2>2. \A i \in I : Over(i) \in SUBSET (1..n)
    OBVIOUS
  <2>3. ASSUME NEW t \in T PROVE t \in SUBSET (1..n)
    <3>1. PICK i \in I : t = Over(i)
      OBVIOUS
    <3> HIDE DEF Over
    <3> QED BY <2>2, <3>1
  <2>4. T # {}
    <3> HIDE DEF Over
    <3> QED OBVIOUS
  <2> HIDE DEF T
  <2> QED BY <2>1, <2>3, <2>4
<1>4. PICK x \in T : \A y \in T : <<y, x>> \notin StrictSubsetOrdering(1..n)
  <2> HIDE DEF T
  <2> QED BY <1>2, <1>3, WFMin
<1>5. PICK i \in I : x = Over(i)
  BY <1>4
<1>6. ASSUME NEW j \in I, j > i PROVE FALSE
  <2>1. Over(j) \subseteq Over(i) /\ j \in Over(i) /\ j \notin Over(j)
    BY <1>6
  <2>2. <<Over(j), x>> \in StrictSubsetOrdering(1..n)
    BY <2>1, <1>5 DEF StrictSubsetOrdering
  <2> QED BY <2>2, <1>4
<1> QED BY <1>6

LastAt(h, p) == SelectLastInSeq(h, LAMBDA c : p \in Touched(c))

(* LastAt is the position of the last commit that touches p, or 0.         *)
LEMMA LastTouch ==
  ASSUME NEW h, Len(h) \in Nat, NEW p
  PROVE  \/ LastAt(h, p) = 0 /\ \A j \in 1..Len(h) : p \notin Touched(h[j])
         \/ /\ LastAt(h, p) \in 1..Len(h) /\ p \in Touched(h[LastAt(h, p)])
            /\ \A j \in 1..Len(h) : p \in Touched(h[j]) => j <= LastAt(h, p)
<1> DEFINE I == {i \in 1..Len(h) : p \in Touched(h[i])}
<1>1. LastAt(h, p) = IF I # {} THEN Max(I) ELSE 0
  BY DEF LastAt, SelectLastInSeq
<1>2. CASE I = {}
  BY <1>1, <1>2
<1>3. CASE I # {}
  <2>1. \E i \in I : \A j \in I : i >= j
    BY <1>3, MaxExists
  <2>2. Max(I) \in I /\ \A j \in I : Max(I) >= j
    BY <2>1, SMTT(30) DEF Max
  <2> QED BY <1>1, <1>3, <2>2
<1> QED BY <1>2, <1>3

(* The files as of a history: what the last commit that touches a file     *)
(* gave to it, or the content of the first clone.                          *)
LEMMA TreeLast ==
  ASSUME NEW h, Len(h) \in Nat, NEW p \in Path
  PROVE  \/ /\ \A j \in 1..Len(h) : p \notin Touched(h[j])
            /\ Tree(h)[p] = 0
         \/ \E i \in 1..Len(h) :
              /\ p \in Touched(h[i])
              /\ \A j \in 1..Len(h) : p \in Touched(h[j]) => j <= i
              /\ Tree(h)[p] = ContentOf(h[i], p)
<1>1. Tree(h)[p] = IF LastAt(h, p) = 0 THEN 0 ELSE ContentOf(h[LastAt(h, p)], p)
  BY DEF Tree, LastAt
<1> QED BY <1>1, LastTouch

(* Two histories with the same last commit on a file agree on it.          *)
LEMMA TreeSame ==
  ASSUME NEW h, Len(h) \in Nat, NEW p \in Path,
         NEW i \in 1..Len(h), p \in Touched(h[i]),
         \A j \in 1..Len(h) : p \in Touched(h[j]) => j <= i
  PROVE  Tree(h)[p] = ContentOf(h[i], p)
<1> QED BY TreeLast

(* A file that no commit touches has its first content.                    *)
LEMMA TreeUntouched ==
  ASSUME NEW h, Len(h) \in Nat, NEW p \in Path,
         \A j \in 1..Len(h) : p \notin Touched(h[j])
  PROVE  Tree(h)[p] = 0
<1> QED BY TreeLast

(* A new commit decides the files it touches, and no other.                *)
LEMMA TreeAppend ==
  ASSUME NEW C, NEW h \in Seq(C), NEW c \in C, NEW p \in Path
  PROVE  Tree(Append(h, c))[p] = IF p \in Touched(c) THEN ContentOf(c, p) ELSE Tree(h)[p]
<1> DEFINE g == Append(h, c)
<1>1. /\ Len(h) \in Nat /\ Len(g) = Len(h) + 1
      /\ g[Len(g)] = c /\ \A i \in 1..Len(h) : g[i] = h[i]
  OBVIOUS
<1> HIDE DEF g
<1>2. CASE p \in Touched(c)
  <2>1. /\ Len(g) \in 1..Len(g) /\ p \in Touched(g[Len(g)])
        /\ \A j \in 1..Len(g) : p \in Touched(g[j]) => j <= Len(g)
    BY <1>1, <1>2
  <2>2. Tree(g)[p] = ContentOf(g[Len(g)], p)
    BY <1>1, <2>1, TreeSame
  <2> QED BY <1>1, <1>2, <2>2 DEF g
<1>3. CASE p \notin Touched(c)
  <2>1. CASE \A j \in 1..Len(h) : p \notin Touched(h[j])
    <3>1. \A j \in 1..Len(g) : p \notin Touched(g[j])
      BY <1>1, <1>3, <2>1
    <3>2. Tree(g)[p] = 0 /\ Tree(h)[p] = 0
      BY <1>1, <2>1, <3>1, TreeUntouched
    <3> QED BY <1>3, <3>2 DEF g
  <2>2. CASE \E j \in 1..Len(h) : p \in Touched(h[j])
    <3>1. PICK i \in 1..Len(h) :
            /\ p \in Touched(h[i])
            /\ \A j \in 1..Len(h) : p \in Touched(h[j]) => j <= i
            /\ Tree(h)[p] = ContentOf(h[i], p)
      BY <1>1, <2>2, TreeLast, SMTT(30)
    <3>2. /\ i \in 1..Len(g) /\ p \in Touched(g[i])
          /\ \A j \in 1..Len(g) : p \in Touched(g[j]) => j <= i
      BY <1>1, <1>3, <3>1
    <3>3. Tree(g)[p] = ContentOf(g[i], p)
      BY <1>1, <3>2, TreeSame, SMTT(60)
    <3> QED BY <1>1, <1>3, <3>1, <3>3 DEF g
  <2> QED BY <2>1, <2>2
<1> QED BY <1>2, <1>3

(* What a commit of the whole working tree changes.                        *)
LEMMA DiffChanges ==
  ASSUME NEW from, NEW to, NEW names
  PROVE  Diff(from, to, names).changes = {<<q, to[q]>> : q \in {r \in Path : from[r] # to[r]}}
<1> QED BY DEF Diff

(* It touches the files that differ, and gives them their new content.     *)
LEMMA DiffContent ==
  ASSUME NEW from, NEW to, NEW names, NEW p \in Path
  PROVE  /\ p \in Touched(Diff(from, to, names)) <=> from[p] # to[p]
         /\ from[p] # to[p] => ContentOf(Diff(from, to, names), p) = to[p]
<1> DEFINE changes == Diff(from, to, names).changes
<1>1. changes = {<<q, to[q]>> : q \in {r \in Path : from[r] # to[r]}}
  BY DiffChanges
<1>2. \A change \in changes :
        change = <<change[1], to[change[1]]>> /\ from[change[1]] # to[change[1]]
  BY <1>1
<1>3. from[p] # to[p] => <<p, to[p]>> \in changes
  BY <1>1
<1>4. /\ Touched(Diff(from, to, names)) = {change[1] : change \in changes}
      /\ ContentOf(Diff(from, to, names), p) = (CHOOSE change \in changes : change[1] = p)[2]
  BY DEF Touched, ContentOf
<1> HIDE DEF changes
<1>5. p \in Touched(Diff(from, to, names)) <=> from[p] # to[p]
  BY <1>2, <1>3, <1>4
<1>6. from[p] # to[p] => ContentOf(Diff(from, to, names), p) = to[p]
  <2> SUFFICES ASSUME from[p] # to[p] PROVE ContentOf(Diff(from, to, names), p) = to[p]
    OBVIOUS
  <2> DEFINE x == CHOOSE change \in changes : change[1] = p
  <2>1. x \in changes /\ x[1] = p
    BY <1>3
  <2>2. x = <<p, to[p]>>
    BY <2>1, <1>2
  <2>3. ContentOf(Diff(from, to, names), p) = x[2]
    BY <1>4
  <2> HIDE DEF x
  <2> QED BY <2>2, <2>3
<1> QED BY <1>5, <1>6

(* After a commit of the whole working tree nothing is left to commit.     *)
LEMMA TreeCommit ==
  ASSUME NEW C, NEW h \in Seq(C), NEW S, NEW t \in [Path -> S], NEW names,
         Diff(Tree(h), t, names) \in C
  PROVE  Tree(Append(h, Diff(Tree(h), t, names))) = t
<1> DEFINE c == Diff(Tree(h), t, names)
           g == Tree(Append(h, c))
<1>1. ASSUME NEW p \in Path PROVE g[p] = t[p]
  <2>1. g[p] = IF p \in Touched(c) THEN ContentOf(c, p) ELSE Tree(h)[p]
    BY TreeAppend
  <2>2. /\ p \in Touched(c) <=> Tree(h)[p] # t[p]
        /\ Tree(h)[p] # t[p] => ContentOf(c, p) = t[p]
    BY DiffContent
  <2> QED BY <2>1, <2>2
<1>2. g = [p \in Path |-> g[p]]
  BY DEF Tree
<1> HIDE DEF g
<1> QED BY <1>1, <1>2 DEF g

(* Prefixes, index by index.                                               *)
LEMMA PrefixPointwise ==
  ASSUME NEW C, NEW s \in Seq(C), NEW t \in Seq(C)
  PROVE  IsPrefix(s, t) <=> Len(s) <= Len(t) /\ \A i \in 1..Len(s) : s[i] = t[i]
<1>1. ASSUME Len(s) <= Len(t) PROVE SubSeq(s, 1, Len(s)) = SubSeq(t, 1, Len(s))
                                      <=> \A i \in 1..Len(s) : s[i] = t[i]
  <2> DEFINE u == SubSeq(s, 1, Len(s))
             v == SubSeq(t, 1, Len(s))
  <2>1. /\ Len(s) \in Nat /\ Len(t) \in Nat
        /\ \A i \in 1..Len(s) : s[i] \in C /\ t[i] \in C
    BY <1>1, ElementOfSeq
  <2>2. /\ u \in Seq(C) /\ v \in Seq(C) /\ Len(u) = Len(s) /\ Len(v) = Len(s)
        /\ \A i \in 1..Len(s) : u[i] = s[i] /\ v[i] = t[i]
    BY <1>1, <2>1
  <2> HIDE DEF u, v
  <2>3. u = v <=> \A i \in 1..Len(s) : u[i] = v[i]
    BY <2>2, SeqEqual
  <2> QED BY <2>2, <2>3 DEF u, v
<1> QED BY <1>1 DEF IsPrefix

(* The prefix relation is a partial order, with the empty history below    *)
(* all others; a commit on top extends it, and what is in a prefix is in   *)
(* the whole.                                                              *)
LEMMA PrefixReflexive ==
  ASSUME NEW C, NEW s \in Seq(C)
  PROVE  IsPrefix(s, s)
<1> QED BY PrefixPointwise

(* A prefix of a prefix is a prefix.                                       *)
LEMMA PrefixTransitive ==
  ASSUME NEW C, NEW s \in Seq(C), NEW t \in Seq(C), NEW u \in Seq(C),
         IsPrefix(s, t), IsPrefix(t, u)
  PROVE  IsPrefix(s, u)
<1> QED BY PrefixPointwise

(* Two histories that are prefixes of each other are one.                  *)
LEMMA PrefixAntisymmetric ==
  ASSUME NEW C, NEW s \in Seq(C), NEW t \in Seq(C), IsPrefix(s, t), IsPrefix(t, s)
  PROVE  s = t
<1>1. Len(s) = Len(t) /\ \A i \in 1..Len(s) : s[i] = t[i]
  BY PrefixPointwise
<1> QED BY <1>1, SeqEqual

(* The empty history is a prefix of every one.                             *)
LEMMA PrefixEmpty ==
  ASSUME NEW C, NEW t \in Seq(C)
  PROVE  IsPrefix(<<>>, t)
<1>1. Len(<<>>) = 0 /\ Len(t) \in Nat
  OBVIOUS
<1>2. SubSeq(<<>>, 1, 0) = <<>> /\ SubSeq(t, 1, 0) = <<>>
  BY SubSeqEmpty
<1> QED BY <1>1, <1>2 DEF IsPrefix

(* A commit leaves what was there as a prefix.                             *)
LEMMA PrefixAppend ==
  ASSUME NEW C, NEW t \in Seq(C), NEW e \in C
  PROVE  IsPrefix(t, Append(t, e))
<1> DEFINE s == Append(t, e)
<1>1. s \in Seq(C) /\ Len(s) = Len(t) + 1 /\ \A i \in 1..Len(t) : s[i] = t[i]
  OBVIOUS
<1> HIDE DEF s
<1>2. IsPrefix(t, s)
  BY <1>1, PrefixPointwise
<1> QED BY <1>2 DEF s

(* A history has every commit of its prefixes.                             *)
LEMMA PrefixRange ==
  ASSUME NEW C, NEW s \in Seq(C), NEW t \in Seq(C), IsPrefix(s, t)
  PROVE  Range(s) \subseteq Range(t)
<1>1. Range(s) = {s[i] : i \in 1..Len(s)} /\ Range(t) = {t[i] : i \in 1..Len(t)}
  BY RangeEquality
<1>2. Len(s) <= Len(t) /\ \A i \in 1..Len(s) : s[i] = t[i]
  BY PrefixPointwise
<1> QED BY <1>1, <1>2

(* The commits of a history, after one more.                               *)
LEMMA RangeAppend ==
  ASSUME NEW C, NEW t \in Seq(C), NEW e \in C
  PROVE  /\ e \in Range(Append(t, e))
         /\ \A d \in Range(Append(t, e)) : d = e \/ d \in Range(t)
<1> DEFINE s == Append(t, e)
<1>1. /\ s \in Seq(C) /\ Len(t) \in Nat /\ Len(s) = Len(t) + 1 /\ s[Len(t) + 1] = e
      /\ \A i \in 1..Len(t) : s[i] = t[i]
  OBVIOUS
<1> HIDE DEF s
<1>2. Range(s) = {s[i] : i \in 1..Len(s)} /\ Range(t) = {t[i] : i \in 1..Len(t)}
  BY <1>1, RangeEquality
<1>3. e \in Range(s)
  <2>1. Len(t) + 1 \in 1..Len(s)
    BY <1>1
  <2> QED BY <1>1, <1>2, <2>1
<1>4. ASSUME NEW i \in 1..Len(s) PROVE s[i] = e \/ s[i] \in Range(t)
  <2>1. i = Len(t) + 1 \/ i \in 1..Len(t)
    BY <1>1
  <2> QED BY <1>1, <1>2, <2>1
<1> QED BY <1>2, <1>3, <1>4 DEF s

(* Where two histories part, and what Beyond returns.                      *)
LEMMA BeyondIs ==
  ASSUME NEW C, NEW h \in Seq(C), NEW o \in Seq(C)
  PROVE  \E k \in Nat :
           /\ k <= Len(h) /\ k <= Len(o)
           /\ \A i \in 1..k : h[i] = o[i]
           /\ k < Len(h) /\ k < Len(o) => h[k + 1] # o[k + 1]
           /\ Beyond(h, o) = SubSeq(h, k + 1, Len(h))
<1> DEFINE Common(k) == k <= Len(h) /\ k <= Len(o) /\ \A i \in 1..k : h[i] = o[i]
           I == {k \in 1..Len(h) : Common(k)}
<1>0. Len(h) \in Nat /\ Len(o) \in Nat
  OBVIOUS
<1>1. \E k \in Nat : Common(k) /\ \A m \in Nat : Common(m) => m <= k
  <2>1. CASE I = {}
    <3>1. Common(0)
      BY <1>0
    <3>2. \A m \in Nat : Common(m) => m <= 0
      BY <1>0, <2>1
    <3> QED BY <3>1, <3>2
  <2>2. CASE I # {}
    <3>1. PICK k \in I : \A j \in I : k >= j
      BY <1>0, <2>2, MaxExists
    <3>2. \A m \in Nat : Common(m) => m <= k
      BY <1>0, <3>1
    <3> QED BY <3>1, <3>2
  <2> QED BY <2>1, <2>2
<1>2. PICK k \in Nat : Common(k) /\ \A m \in Nat : Common(m) => m <= k
  BY <1>1
<1>3. k < Len(h) /\ k < Len(o) => h[k + 1] # o[k + 1]
  <2> SUFFICES ASSUME k < Len(h), k < Len(o), h[k + 1] = o[k + 1] PROVE FALSE
    OBVIOUS
  <2>1. Common(k + 1)
    BY <1>0, <1>2
  <2>2. k + 1 \in Nat /\ ~ (k + 1 <= k)
    OBVIOUS
  <2> HIDE DEF Common
  <2> QED BY <1>2, <2>1, <2>2
<1> DEFINE P == CommonPrefixes({h, o})
<1>4. SubSeq(h, 1, k) \in P /\ Len(SubSeq(h, 1, k)) = k
  <2> DEFINE x == SubSeq(h, 1, k)
  <2>1. x \in Seq(C) /\ Len(x) = k /\ \A i \in 1..k : x[i] = h[i]
    BY <1>0, <1>2
  <2>2. x \in Prefixes(h)
    BY <1>0, <1>2 DEF Prefixes
  <2> HIDE DEF x
  <2>3. IsPrefix(x, h) /\ IsPrefix(x, o)
    BY <1>2, <2>1, PrefixPointwise
  <2>4. x \in P
    BY <2>2, <2>3 DEF CommonPrefixes
  <2> QED BY <2>1, <2>4 DEF x
<1>5. ASSUME NEW x \in P PROVE Len(x) \in Nat /\ Len(x) <= k
  <2>1. x \in Prefixes(h) \cup Prefixes(o) /\ IsPrefix(x, h) /\ IsPrefix(x, o)
    BY DEF CommonPrefixes
  <2>2. x \in Seq(C)
    BY <1>0, <2>1 DEF Prefixes
  <2>3. /\ Len(x) \in Nat /\ Len(x) <= Len(h) /\ Len(x) <= Len(o)
        /\ \A i \in 1..Len(x) : x[i] = h[i] /\ x[i] = o[i]
    BY <2>1, <2>2, PrefixPointwise
  <2>4. Common(Len(x))
    BY <2>3
  <2> QED BY <1>2, <2>3, <2>4
<1> DEFINE lcp == LongestCommonPrefix({h, o})
<1>6. lcp \in P /\ \A other \in P : Len(other) <= Len(lcp)
  <2>1. \E longest \in P : \A other \in P : Len(other) <= Len(longest)
    <3> HIDE DEF P
    <3> QED BY <1>4, <1>5
  <2> QED BY <2>1 DEF LongestCommonPrefix
<1>7. Len(lcp) = k
  <2> HIDE DEF P, lcp
  <2>1. k <= Len(lcp)
    BY <1>4, <1>6
  <2>2. Len(lcp) \in Nat /\ Len(lcp) <= k
    BY <1>5, <1>6
  <2> QED BY <2>1, <2>2
<1>8. Beyond(h, o) = SubSeq(h, k + 1, Len(h))
  BY <1>7 DEF Beyond
<1> HIDE DEF P, lcp
<1> QED BY <1>2, <1>3, <1>8

(* A clone with nothing of its own is behind, or even.                     *)
LEMMA BeyondEmpty ==
  ASSUME NEW C, NEW h \in Seq(C), NEW o \in Seq(C), Beyond(h, o) = <<>>
  PROVE  IsPrefix(h, o)
<1>1. PICK k \in Nat :
        /\ k <= Len(h) /\ k <= Len(o)
        /\ \A i \in 1..k : h[i] = o[i]
        /\ Beyond(h, o) = SubSeq(h, k + 1, Len(h))
  BY BeyondIs
<1>2. k = Len(h)
  <2> SUFFICES ASSUME k < Len(h) PROVE FALSE
    BY <1>1
  <2> DEFINE rest == SubSeq(h, k + 1, Len(h))
  <2>1. rest \in Seq(C) /\ Len(rest) = Len(h) - k /\ rest = <<>>
    BY <1>1
  <2> HIDE DEF rest
  <2>2. Len(rest) = 0 /\ Len(h) \in Nat /\ k \in Nat
    BY <1>1, <2>1
  <2> QED BY <2>1, <2>2
<1> QED BY <1>1, <1>2, PrefixPointwise

(* r is o followed by the commits of h after their k common ones.          *)
Replays(r, h, o, k) ==
  /\ k <= Len(h) /\ k <= Len(o)
  /\ \A i \in 1..k : h[i] = o[i]
  /\ k < Len(h) /\ k < Len(o) => h[k + 1] # o[k + 1]
  /\ Len(r) = Len(o) + Len(h) - k
  /\ \A i \in 1..Len(o) : r[i] = o[i]
  /\ \A i \in 1..Len(h) : i > k => r[i + Len(o) - k] = h[i]
  /\ \A i \in 1..Len(r) : i > Len(o) =>
       i - Len(o) + k \in 1..Len(h) /\ i - Len(o) + k > k /\ r[i] = h[i - Len(o) + k]

(* What a rebase makes of two histories, commit by commit.                 *)
LEMMA RebasedIs ==
  ASSUME NEW C, NEW h \in Seq(C), NEW o \in Seq(C)
  PROVE  /\ Rebased(h, o) \in Seq(C)
         /\ \E k \in Nat : Replays(Rebased(h, o), h, o, k)
<1>1. PICK k \in Nat :
        /\ k <= Len(h) /\ k <= Len(o)
        /\ \A i \in 1..k : h[i] = o[i]
        /\ k < Len(h) /\ k < Len(o) => h[k + 1] # o[k + 1]
        /\ Beyond(h, o) = SubSeq(h, k + 1, Len(h))
  BY BeyondIs
<1> DEFINE b == Beyond(h, o)
           r == o \o b
<1>2. Len(h) \in Nat /\ Len(o) \in Nat
  OBVIOUS
<1>3. b \in Seq(C) /\ Len(b) = Len(h) - k /\ \A i \in 1..Len(b) : b[i] = h[k + i]
  BY <1>1, SMTT(60)
<1> HIDE DEF b
<1>4. /\ r \in Seq(C) /\ Len(r) = Len(o) + Len(b)
      /\ \A i \in 1..(Len(o) + Len(b)) : r[i] = IF i <= Len(o) THEN o[i] ELSE b[i - Len(o)]
  BY <1>3, ConcatProperties
<1>5. r = Rebased(h, o)
  BY DEF Rebased, b
<1> HIDE DEF r
<1>6. ASSUME NEW i \in 1..Len(r), i > Len(o)
      PROVE  i - Len(o) + k \in 1..Len(h) /\ i - Len(o) + k > k /\ r[i] = h[i - Len(o) + k]
  <2>1. i - Len(o) \in 1..Len(b) /\ r[i] = b[i - Len(o)]
    BY <1>1, <1>2, <1>3, <1>4, <1>6, SMTT(30)
  <2>2. PICK m \in 1..Len(b) : m = i - Len(o)
    BY <2>1
  <2>3. b[m] = h[k + m]
    BY <1>3
  <2>4. k + m = i - Len(o) + k
    BY <1>2, <2>2
  <2>5. r[i] = h[i - Len(o) + k]
    BY <2>1, <2>2, <2>3, <2>4
  <2> QED BY <1>1, <1>2, <1>3, <2>2, <2>5, SMTT(30)
<1>7. ASSUME NEW i \in 1..Len(h), i > k PROVE r[i + Len(o) - k] = h[i]
  <2>1. i + Len(o) - k \in 1..Len(r) /\ i + Len(o) - k > Len(o) /\ (i + Len(o) - k) - Len(o) + k = i
    BY <1>1, <1>2, <1>3, <1>4, <1>7, SMTT(30)
  <2> QED BY <1>6, <2>1
<1>8. /\ Len(r) = Len(o) + Len(h) - k
      /\ \A i \in 1..Len(o) : r[i] = o[i]
  BY <1>1, <1>2, <1>3, <1>4, SMTT(60)
<1>9. Replays(r, h, o, k)
  BY <1>1, <1>6, <1>7, <1>8 DEF Replays
<1> QED BY <1>4, <1>5, <1>9

(* Rebasing keeps both sets of commits and invents none.                   *)
LEMMA RebasedKeepsBoth ==
  ASSUME NEW C, NEW h \in Seq(C), NEW o \in Seq(C)
  PROVE  /\ Rebased(h, o) \in Seq(C)
         /\ IsPrefix(o, Rebased(h, o))
         /\ Range(h) \subseteq Range(Rebased(h, o))
         /\ Range(Rebased(h, o)) \subseteq Range(h) \cup Range(o)
<1> DEFINE r == Rebased(h, o)
<1>a. r \in Seq(C) /\ \E k \in Nat : Replays(r, h, o, k)
  BY RebasedIs
<1> HIDE DEF r
<1>b. PICK k \in Nat : Replays(r, h, o, k)
  BY <1>a
<1>1. /\ r \in Seq(C) /\ k <= Len(h) /\ k <= Len(o)
      /\ \A i \in 1..k : h[i] = o[i]
      /\ k < Len(h) /\ k < Len(o) => h[k + 1] # o[k + 1]
      /\ Len(r) = Len(o) + Len(h) - k
      /\ \A i \in 1..Len(o) : r[i] = o[i]
  BY <1>a, <1>b DEF Replays
<1>r. /\ \A i \in 1..Len(h) : i > k => r[i + Len(o) - k] = h[i]
      /\ \A i \in 1..Len(r) : i > Len(o) =>
           i - Len(o) + k \in 1..Len(h) /\ i - Len(o) + k > k /\ r[i] = h[i - Len(o) + k]
  BY <1>b DEF Replays
<1>2. Len(h) \in Nat /\ Len(o) \in Nat
  OBVIOUS
<1>3. /\ Range(r) = {r[i] : i \in 1..Len(r)}
      /\ Range(h) = {h[i] : i \in 1..Len(h)} /\ Range(o) = {o[i] : i \in 1..Len(o)}
  BY <1>1, RangeEquality, SMTT(30)
<1>4. IsPrefix(o, r)
  BY <1>1, <1>2, PrefixPointwise
<1>5. ASSUME NEW i \in 1..Len(h) PROVE h[i] \in Range(r)
  <2>1. CASE i <= k
    <3>1. i \in 1..Len(r) /\ r[i] = h[i]
      BY <1>1, <1>2, <2>1
    <3> QED BY <1>3, <3>1
  <2>2. CASE i > k
    <3>1. i + Len(o) - k \in 1..Len(r)
      BY <1>1, <1>2, <2>2
    <3>2. r[i + Len(o) - k] = h[i]
      BY <1>r, <2>2
    <3> QED BY <1>3, <3>1, <3>2
  <2> QED BY <1>1, <2>1, <2>2
<1>6. ASSUME NEW i \in 1..Len(r) PROVE r[i] \in Range(h) \cup Range(o)
  <2>1. CASE i <= Len(o)
    BY <1>1, <1>2, <1>3, <2>1, SMTT(60)
  <2>2. CASE i > Len(o)
    <3>1. r[i] = h[i - Len(o) + k] /\ i - Len(o) + k \in 1..Len(h)
      BY <1>r, <2>2
    <3> QED BY <1>3, <3>1
  <2> QED BY <1>2, <2>1, <2>2
<1>7. Range(h) \subseteq Range(r) /\ Range(r) \subseteq Range(h) \cup Range(o)
  BY <1>3, <1>5, <1>6
<1> QED BY <1>1, <1>4, <1>7 DEF r

(* Rebasing on one's own past changes nothing.                             *)
LEMMA RebasedOnPast ==
  ASSUME NEW C, NEW h \in Seq(C), NEW o \in Seq(C), IsPrefix(o, h)
  PROVE  Rebased(h, o) = h
<1> DEFINE r == Rebased(h, o)
<1>a. r \in Seq(C) /\ \E k \in Nat : Replays(r, h, o, k)
  BY RebasedIs
<1> HIDE DEF r
<1>b. PICK k \in Nat : Replays(r, h, o, k)
  BY <1>a
<1>1. /\ r \in Seq(C) /\ k <= Len(h) /\ k <= Len(o)
      /\ \A i \in 1..k : h[i] = o[i]
      /\ k < Len(h) /\ k < Len(o) => h[k + 1] # o[k + 1]
      /\ Len(r) = Len(o) + Len(h) - k
      /\ \A i \in 1..Len(o) : r[i] = o[i]
  BY <1>a, <1>b DEF Replays
<1>r. /\ \A i \in 1..Len(h) : i > k => r[i + Len(o) - k] = h[i]
      /\ \A i \in 1..Len(r) : i > Len(o) =>
           i - Len(o) + k \in 1..Len(h) /\ i - Len(o) + k > k /\ r[i] = h[i - Len(o) + k]
  BY <1>b, SMTT(30) DEF Replays
<1>2. Len(o) \in Nat /\ Len(h) \in Nat /\ Len(o) <= Len(h) /\ \A i \in 1..Len(o) : o[i] = h[i]
  BY PrefixPointwise
<1>3. k = Len(o)
  <2> SUFFICES ASSUME k < Len(o) PROVE FALSE
    BY <1>1, <1>2
  <2>1. k + 1 \in 1..Len(o)
    BY <1>2
  <2>2. h[k + 1] = o[k + 1]
    BY <1>2, <2>1
  <2> QED BY <1>1, <1>2, <2>2
<1>4. Len(r) = Len(h)
  BY <1>1, <1>2, <1>3
<1>5. ASSUME NEW i \in 1..Len(h) PROVE r[i] = h[i]
  <2>1. CASE i <= Len(o)
    BY <1>1, <1>2, <2>1
  <2>2. CASE i > Len(o)
    <3>1. i \in 1..Len(r) /\ i - Len(o) + k = i
      BY <1>2, <1>3, <1>4
    <3> QED BY <1>r, <2>2, <3>1, SMTT(30)
  <2> QED BY <1>2, <2>1, <2>2
<1> QED BY <1>1, <1>4, <1>5, SeqEqual DEF r

(* After a rebase a file is as we left it, where we changed it, and as the *)
(* other side has it elsewhere.                                            *)
LEMMA TreeRebased ==
  ASSUME NEW C, NEW h \in Seq(C), NEW o \in Seq(C), NEW p \in Path
  PROVE  \/ Tree(Rebased(h, o))[p] = Tree(h)[p] /\ \E c \in Range(h) : p \in Touched(c)
         \/ /\ Tree(Rebased(h, o))[p] = Tree(o)[p]
            /\ \A c \in Range(Rebased(h, o)) : p \in Touched(c) => c \in Range(o)
<1> DEFINE r == Rebased(h, o)
<1>a. r \in Seq(C) /\ \E k \in Nat : Replays(r, h, o, k)
  BY RebasedIs
<1> HIDE DEF r
<1>b. PICK k \in Nat : Replays(r, h, o, k)
  BY <1>a
<1>1. /\ r \in Seq(C) /\ k <= Len(h) /\ k <= Len(o)
      /\ \A i \in 1..k : h[i] = o[i]
      /\ k < Len(h) /\ k < Len(o) => h[k + 1] # o[k + 1]
      /\ Len(r) = Len(o) + Len(h) - k
      /\ \A i \in 1..Len(o) : r[i] = o[i]
  BY <1>a, <1>b DEF Replays
<1>r. /\ \A i \in 1..Len(h) : i > k => r[i + Len(o) - k] = h[i]
      /\ \A i \in 1..Len(r) : i > Len(o) =>
           i - Len(o) + k \in 1..Len(h) /\ i - Len(o) + k > k /\ r[i] = h[i - Len(o) + k]
  BY <1>b DEF Replays
<1>2. Len(h) \in Nat /\ Len(o) \in Nat /\ Len(r) \in Nat
  BY <1>1
<1>3. /\ Range(r) = {r[i] : i \in 1..Len(r)}
      /\ Range(h) = {h[i] : i \in 1..Len(h)} /\ Range(o) = {o[i] : i \in 1..Len(o)}
  BY <1>1, RangeEquality, ZenonT(60)
<1>4. CASE \E j \in 1..Len(h) : j > k /\ p \in Touched(h[j])
  <2>1. PICK i \in 1..Len(h) :
          /\ p \in Touched(h[i])
          /\ \A j \in 1..Len(h) : p \in Touched(h[j]) => j <= i
          /\ Tree(h)[p] = ContentOf(h[i], p)
    BY <1>2, <1>4, TreeLast
  <2>2. i > k
    BY <1>2, <1>4, <2>1
  <2> DEFINE n == i + Len(o) - k
  <2>3. n \in 1..Len(r) /\ r[n] = h[i]
    <3>1. n \in 1..Len(r)
      BY <1>1, <1>2, <2>2
    <3> QED BY <1>r, <2>2, <3>1
  <2>4. ASSUME NEW j \in 1..Len(r), p \in Touched(r[j]) PROVE j <= n
    <3> SUFFICES ASSUME j > n PROVE FALSE
      BY <1>2
    <3>1. j > Len(o)
      BY <1>1, <1>2, <2>2
    <3>2. r[j] = h[j - Len(o) + k] /\ j - Len(o) + k \in 1..Len(h)
      BY <1>r, <3>1
    <3>3. j - Len(o) + k <= i
      BY <2>1, <2>4, <3>2, SMTT(30)
    <3> QED BY <1>1, <1>2, <3>3
  <2> HIDE DEF n
  <2>5. Tree(r)[p] = ContentOf(r[n], p)
    BY <1>2, <2>1, <2>3, <2>4, TreeSame
  <2>6. h[i] \in Range(h)
    BY <1>3
  <2> QED BY <2>1, <2>3, <2>5, <2>6 DEF r
<1>5. CASE \A j \in 1..Len(h) : p \in Touched(h[j]) => j <= k
  <2>1. ASSUME NEW j \in 1..Len(r), p \in Touched(r[j]) PROVE j <= Len(o)
    <3> SUFFICES ASSUME j > Len(o) PROVE FALSE
      BY <1>2
    <3>1. r[j] = h[j - Len(o) + k] /\ j - Len(o) + k \in 1..Len(h) /\ j - Len(o) + k > k
      BY <1>r
    <3>2. j - Len(o) + k <= k
      BY <1>5, <2>1, <3>1
    <3> QED BY <1>2, <3>1, <3>2
  <2>2. \A c \in Range(r) : p \in Touched(c) => c \in Range(o)
    <3> SUFFICES ASSUME NEW j \in 1..Len(r), p \in Touched(r[j]) PROVE r[j] \in Range(o)
      BY <1>3
    <3>1. j \in 1..Len(o) /\ r[j] = o[j]
      BY <1>1, <1>2, <2>1
    <3> QED BY <1>3, <3>1
  <2>3. CASE \A j \in 1..Len(o) : p \notin Touched(o[j])
    <3>1. \A j \in 1..Len(r) : p \notin Touched(r[j])
      BY <1>1, <1>2, <2>1, <2>3
    <3>2. Tree(r)[p] = 0 /\ Tree(o)[p] = 0
      BY <1>2, <2>3, <3>1, TreeUntouched
    <3> QED BY <2>2, <3>2 DEF r
  <2>4. CASE \E j \in 1..Len(o) : p \in Touched(o[j])
    <3>1. PICK i \in 1..Len(o) :
            /\ p \in Touched(o[i])
            /\ \A j \in 1..Len(o) : p \in Touched(o[j]) => j <= i
            /\ Tree(o)[p] = ContentOf(o[i], p)
      BY <1>2, <2>4, TreeLast
    <3>2. /\ i \in 1..Len(r) /\ r[i] = o[i]
          /\ \A j \in 1..Len(r) : p \in Touched(r[j]) => j <= i
      BY <1>1, <1>2, <2>1, <3>1
    <3>3. Tree(r)[p] = ContentOf(r[i], p)
      BY <1>2, <3>1, <3>2, TreeSame
    <3> QED BY <2>2, <3>1, <3>2, <3>3 DEF r
  <2> QED BY <2>3, <2>4
<1> QED BY <1>1, <1>2, <1>4, <1>5

-----------------------------------------------------------------------------
(* The inductive invariant.                                                *)

Contents == 0..(MaxWrites + MaxForeign)
CommitType == [changes : SUBSET (Path \X Contents), names : SUBSET Writes]

(* The files, the journal and the run under way.                           *)
DataTyped ==
  /\ writes \in 0..MaxWrites /\ foreign \in 0..MaxForeign
  /\ db \in [Path -> 0..MaxWrites] /\ unlogged \in 0..MaxWrites
  /\ pending \subseteq Writes /\ sending \subseteq Writes /\ saved \subseteq Writes
  /\ tree \in [Path -> Contents]
  /\ snap \in [Path -> 0..MaxWrites] /\ todo \subseteq Path

HistoriesTyped ==
  /\ local \in Seq(CommitType) /\ tracking \in Seq(CommitType) /\ remote \in Seq(CommitType)
  /\ sha \in Seq(CommitType) /\ synced \in Seq(CommitType)
  /\ sent \in [Pushers -> Seq(CommitType)] /\ known \in BOOLEAN

ProcessTyped ==
  /\ mode \in {"read", "truncate", "fill", "remove", "redo", "load", "up"}
  /\ stage \in [Actors -> Stages]
  /\ waiting \subseteq {"manual", "background"} /\ (waiting = {} <=> stage["sync"] = "idle")
  /\ notice \in {"none", "backup-failed", "backup-deferred", "backup-no-remote"}
  /\ autoSync \in BOOLEAN /\ autoFile \in BOOLEAN /\ toggles \subseteq BOOLEAN

Typed == DataTyped /\ HistoriesTyped /\ ProcessTyped

(* The clone never knows of a commit that the remote does not have.        *)
TrackingIsPast == IsPrefix(tracking, remote)

(* The stages in which a push is under way.                                *)
InFlight == {"sent", "resent", "pushed"}

(* A push that has landed is on the remote, whoever pushes after it.       *)
LandedIsKept == \A a \in Pushers : stage[a] = "pushed" => IsPrefix(sent[a], remote)

(* With nobody else pushing, the clone is ahead of everything, and the     *)
(* push of a run carries the commit of that run.                           *)
OursIsAhead ==
  foreign = 0 =>
    /\ IsPrefix(sha, local) /\ IsPrefix(remote, local) /\ IsPrefix(tracking, local)
    /\ \A a \in Pushers : stage[a] \in InFlight => IsPrefix(sent[a], local)
    /\ stage["sync"] \in InFlight => IsPrefix(sha, sent["sync"])

(* The stages in which the snapshot goes to git.                           *)
Mirroring == {"mirror", "status", "commit"}

(* What was mirrored is in the working tree, unless git has it already: a  *)
(* rebase or a pull in between may have replaced the file.                 *)
MirroredIsKept ==
  stage["sync"] \in Mirroring =>
    /\ stage["sync"] # "mirror" => todo = {}
    /\ \A p \in Path \ todo :
         snap[p] # 0 =>
           tree[p] = snap[p] \/ \E c \in Range(local) : <<p, snap[p]>> \in c.changes

(* The served content of p is a settled write that git does not have.      *)
Owed(p) == db[p] # 0 /\ db[p] # unlogged /\ ~ Holds(local, p)

(* The journal has the entry of that write, on disk or in recover().       *)
Entered(p) == db[p] \in pending \cup sending \cup saved

(* Where the entry of an owed write is, if it was not lost: nowhere that   *)
(* the run or the recovery under way will overlook it.                     *)
Journaled(p) ==
  /\ mode = "up" =>
       \/ db[p] \in pending
       \/ db[p] \in sending /\ stage["sync"] \in {"idle", "rotate", "snapshot"}
       \/ db[p] \in sending /\ stage["sync"] \in Mirroring /\ snap[p] = db[p]
  /\ mode = "read" => db[p] \in pending \cup sending
  /\ mode = "truncate" => db[p] \in (pending \cap saved) \cup sending
  /\ mode = "fill" => db[p] \in saved \cup sending
  /\ mode \in {"remove", "redo", "load"} => db[p] \in pending

WritersKnown == \A p \in Path : Owed(p) /\ Entered(p) => Journaled(p)

(* recover() keeps nothing in memory once it is done.                      *)
SavedInBoot == mode \in {"up", "read", "redo", "load"} => saved = {}

(* A history gives a file one of the contents its commits name.            *)
LEMMA ContentIsChange ==
  ASSUME NEW c \in CommitType, NEW p \in Touched(c)
  PROVE  <<p, ContentOf(c, p)>> \in c.changes /\ ContentOf(c, p) \in Contents
<1> DEFINE x == CHOOSE change \in c.changes : change[1] = p
<1>1. \E change \in c.changes : change[1] = p
  BY DEF Touched
<1>2. x \in c.changes /\ x[1] = p
  BY <1>1
<1>3. c.changes \subseteq Path \X Contents
  BY DEF CommitType
<1>4. ContentOf(c, p) = x[2]
  BY DEF ContentOf
<1> HIDE DEF x
<1>5. x \in Path \X Contents
  BY <1>2, <1>3
<1>6. x = <<p, x[2]>> /\ x[2] \in Contents
  BY <1>2, <1>5
<1> QED BY <1>2, <1>4, <1>6

(* The files of a history, and where their content comes from.             *)
LEMMA TreeFromCommits ==
  ASSUME BoundsAssumption, NEW h \in Seq(CommitType)
  PROVE  /\ Tree(h) \in [Path -> Contents]
         /\ \A p \in Path : Tree(h)[p] # 0 =>
              \E c \in Range(h) : <<p, Tree(h)[p]>> \in c.changes
<1>1. ASSUME NEW p \in Path
      PROVE  \/ Tree(h)[p] = 0
             \/ Tree(h)[p] \in Contents /\ \E c \in Range(h) : <<p, Tree(h)[p]>> \in c.changes
  <2>1. Len(h) \in Nat
    OBVIOUS
  <2>2. CASE \E i \in 1..Len(h) : p \in Touched(h[i]) /\ Tree(h)[p] = ContentOf(h[i], p)
    <3>1. PICK i \in 1..Len(h) : p \in Touched(h[i]) /\ Tree(h)[p] = ContentOf(h[i], p)
      BY <2>2
    <3>2. h[i] \in CommitType
      BY ElementOfSeq
    <3>3. h[i] \in Range(h)
      BY RangeEquality
    <3>4. <<p, ContentOf(h[i], p)>> \in h[i].changes /\ ContentOf(h[i], p) \in Contents
      BY <3>1, <3>2, ContentIsChange
    <3> QED BY <3>1, <3>3, <3>4
  <2> QED BY <2>1, <2>2, TreeLast
<1>2. 0 \in Contents
  BY DEF Contents
<1>3. Tree(h) = [p \in Path |-> Tree(h)[p]]
  BY DEF Tree
<1>4. \A p \in Path : Tree(h)[p] \in Contents
  BY <1>1, <1>2
<1>5. Tree(h) \in [Path -> Contents]
  <2> DEFINE t == Tree(h)
  <2>1. t = [p \in Path |-> t[p]] /\ \A p \in Path : t[p] \in Contents
    BY <1>3, <1>4
  <2> HIDE DEF t
  <2>2. t \in [Path -> Contents]
    BY <2>1
  <2> QED BY <2>2 DEF t
<1> QED BY <1>1, <1>5

(* Before the first commit every file has its first content.               *)
LEMMA FirstTree ==
  Tree(<<>>) = [p \in Path |-> 0]
<1>1. Len(<<>>) = 0
  OBVIOUS
<1>2. \A p \in Path : Tree(<<>>)[p] = 0
  BY <1>1, TreeUntouched
<1> DEFINE t == Tree(<<>>)
<1>3. t = [p \in Path |-> t[p]]
  BY DEF Tree
<1> HIDE DEF t
<1>4. t = [p \in Path |-> 0]
  BY <1>2, <1>3 DEF t
<1> QED BY <1>4 DEF t

(* The commit of a sync run is a commit.                                   *)
LEMMA DiffIsCommit ==
  ASSUME NEW from, NEW to \in [Path -> Contents], NEW names \in SUBSET Writes
  PROVE  Diff(from, to, names) \in CommitType
<1> QED BY DEF Diff, CommitType

-----------------------------------------------------------------------------
(* Types.                                                                  *)

(* Every step keeps the files, the journal and the snapshot typed.         *)
LEMMA DataStep ==
  ASSUME BoundsAssumption, Typed, [Next]_vars
  PROVE  DataTyped'
<1>1. ASSUME NEW p \in Path, Publish(p) PROVE DataTyped'
  BY <1>1 DEF Publish, journal, git, run, Typed, DataTyped
<1>2. ASSUME NEW p \in Path, ForeignPush(p) PROVE DataTyped'
  BY <1>2 DEF ForeignPush, disk, journal, run, Typed, DataTyped
<1>3. CASE Append1
  BY <1>3 DEF Append1, git, run, counts, Typed, DataTyped, Writes
<1>4. CASE Manual
  BY <1>4 DEF Manual, disk, journal, git, run, counts, Typed, DataTyped
<1>5. CASE Tick
  BY <1>5 DEF Tick, disk, journal, git, run, counts, Typed, DataTyped
<1>6. CASE IdleFires
  BY <1>6 DEF IdleFires, disk, journal, git, run, counts, Typed, DataTyped
<1>7. CASE Dismiss
  BY <1>7 DEF Dismiss, disk, journal, git, run, counts, Typed, DataTyped
<1>8. ASSUME NEW on \in BOOLEAN, Toggle(on) PROVE DataTyped'
  BY <1>8 DEF Toggle, journal, git, run, Typed, DataTyped
<1>9. ASSUME NEW on \in BOOLEAN, Toggled(on) PROVE DataTyped'
  BY <1>9 DEF Toggled, disk, journal, git, run, counts, Typed, DataTyped
<1>10. CASE RotateRemove
  BY <1>10 DEF RotateRemove, disk, git, run, counts, Typed, DataTyped
<1>11. CASE RotateRename
  BY <1>11 DEF RotateRename, disk, git, run, counts, Typed, DataTyped
<1>12. CASE TakeSnapshot
  BY <1>12 DEF TakeSnapshot, disk, journal, git, counts, Typed, DataTyped
<1>13. CASE Mirror
  <2>1. PICK p \in todo : tree' = [tree EXCEPT ![p] = snap[p]] /\ todo' = todo \ {p}
    BY <1>13 DEF Mirror
  <2>2. p \in Path /\ snap[p] \in Contents
    BY <2>1 DEF Typed, DataTyped, Contents
  <2>3. tree' \in [Path -> Contents]
    BY <2>1, <2>2 DEF Typed, DataTyped
  <2> QED BY <1>13, <2>1, <2>3 DEF Mirror, disk, journal, counts, Typed, DataTyped
<1>14. CASE Status
  BY <1>14 DEF Status, disk, journal, git, counts, Typed, DataTyped
<1>15. CASE Commit
  BY <1>15 DEF Commit, disk, journal, counts, Typed, DataTyped
<1>16. CASE Discard
  BY <1>16 DEF Discard, disk, git, run, counts, Typed, DataTyped
<1>17. CASE SyncThrows
  BY <1>17 DEF SyncThrows, Fault, disk, journal, git, run, counts, Typed, DataTyped
<1>18. ASSUME NEW a \in {"sync", "retry"}, Send(a) PROVE DataTyped'
  BY <1>18 DEF Send, disk, journal, git, counts, Typed, DataTyped
<1>19. ASSUME NEW a \in {"sync", "retry"}, PushNowhere(a) PROVE DataTyped'
  BY <1>19 DEF PushNowhere, disk, journal, git, run, counts, Typed, DataTyped
<1>20. ASSUME NEW a \in {"sync", "retry"}, PushFails(a) PROVE DataTyped'
  BY <1>20 DEF PushFails, Refused, Fault, disk, journal, counts, Typed, DataTyped
<1>21. ASSUME NEW a \in {"sync", "retry"}, Fetch(a) PROVE DataTyped'
  BY <1>21 DEF Fetch, disk, journal, run, counts, Typed, DataTyped
<1>22. ASSUME NEW a \in {"sync", "retry"}, FetchFails(a) PROVE DataTyped'
  BY <1>22 DEF FetchFails, Fault, disk, journal, git, run, Typed, DataTyped
<1>23. ASSUME NEW a \in {"sync", "retry"}, Rebase(a) PROVE DataTyped'
  <2>1. local' \in Seq(CommitType) /\ tree' = Tree(local')
    BY <1>23, RebasedKeepsBoth DEF Rebase, Replayed, Typed, HistoriesTyped
  <2>2. tree' \in [Path -> Contents]
    BY <2>1, TreeFromCommits
  <2> QED BY <1>23, <2>2 DEF Rebase, disk, journal, run, counts, Typed, DataTyped
<1>24. ASSUME NEW a \in {"sync", "retry"}, RebaseFails(a) PROVE DataTyped'
  BY <1>24 DEF RebaseFails, Fault, disk, journal, git, run, counts, Typed, DataTyped
<1>25. ASSUME NEW a \in {"sync", "retry"}, Lands(a) PROVE DataTyped'
  BY <1>25 DEF Lands, disk, journal, run, counts, Typed, DataTyped
<1>26. ASSUME NEW a \in {"sync", "retry"}, Pushed(a) PROVE DataTyped'
  BY <1>26 DEF Pushed, disk, journal, git, counts, Typed, DataTyped
<1>27. ASSUME NEW a \in {"sync", "retry"}, RepushFails(a) PROVE DataTyped'
  BY <1>27 DEF RepushFails, Refused, Fault, disk, journal, counts, Typed, DataTyped
<1>28. CASE Retry
  BY <1>28 DEF Retry, disk, journal, git, run, counts, Typed, DataTyped
<1>29. CASE PollFetch
  BY <1>29 DEF PollFetch, disk, journal, run, counts, Typed, DataTyped
<1>30. CASE PollMerge
  <2>1. Tree(tracking) \in [Path -> Contents]
    BY TreeFromCommits DEF Typed, HistoriesTyped
  <2>2. tree' = tree \/ tree' = [p \in Path |-> IF Tree(tracking)[p] # Tree(local)[p]
                                                 THEN Tree(tracking)[p] ELSE tree[p]]
    BY <1>30 DEF PollMerge
  <2>3. tree' \in [Path -> Contents]
    BY <2>1, <2>2 DEF Typed, DataTyped
  <2> QED BY <1>30, <2>3 DEF PollMerge, disk, journal, run, counts, Typed, DataTyped
<1>31. CASE Crash
  <2>1. snap' = [p \in Path |-> 0]
    BY <1>31, FirstTree DEF Crash
  <2>2. snap' \in [Path -> 0..MaxWrites]
    BY <2>1
  <2> QED BY <1>31, <2>2 DEF Crash, disk, journal, git, Typed, DataTyped
<1>32. CASE RecoverRead
  BY <1>32 DEF RecoverRead, Boot, journal, git, run, counts, Typed, DataTyped
<1>33. CASE RecoverTruncate
  BY <1>33 DEF RecoverTruncate, Boot, git, run, counts, Typed, DataTyped
<1>34. CASE RecoverFill
  BY <1>34 DEF RecoverFill, Boot, git, run, counts, Typed, DataTyped
<1>35. CASE RecoverRemove
  BY <1>35 DEF RecoverRemove, Boot, git, run, counts, Typed, DataTyped
<1>36. CASE Redo
  BY <1>36 DEF Redo, Boot, git, run, counts, Typed, DataTyped, Writes
<1>37. CASE Load
  BY <1>37 DEF Load, Boot, journal, git, run, counts, Typed, DataTyped
<1>38. CASE UNCHANGED vars
  BY <1>38, SMTT(30) DEF vars, disk, journal, git, run, counts, Typed, DataTyped
<1> QED BY <1>1, <1>2, <1>3, <1>4, <1>5, <1>6, <1>7, <1>8, <1>9, <1>10, <1>11, <1>12,
           <1>13, <1>14, <1>15, <1>16, <1>17, <1>18, <1>19, <1>20, <1>21, <1>22, <1>23,
           <1>24, <1>25, <1>26, <1>27, <1>28, <1>29, <1>30, <1>31, <1>32, <1>33, <1>34,
           <1>35, <1>36, <1>37, <1>38, SMTT(60) DEF Next, Sync, Pushing, Booting

(* Every step keeps the histories typed.                                   *)
LEMMA HistoriesStep ==
  ASSUME BoundsAssumption, Typed, [Next]_vars
  PROVE  HistoriesTyped'
<1>1. ASSUME NEW p \in Path, Publish(p) PROVE HistoriesTyped'
  BY <1>1 DEF Publish, git, run, Typed, HistoriesTyped
<1>2. ASSUME NEW p \in Path, ForeignPush(p) PROVE HistoriesTyped'
  <2>1. [changes |-> {<<p, MaxWrites + foreign'>>}, names |-> {}] \in CommitType
    BY <1>2 DEF ForeignPush, CommitType, Contents, Typed, DataTyped
  <2> QED BY <1>2, <2>1 DEF ForeignPush, run, Typed, HistoriesTyped
<1>3. CASE Append1
  BY <1>3 DEF Append1, git, run, Typed, HistoriesTyped
<1>4. CASE Manual
  BY <1>4 DEF Manual, git, run, Typed, HistoriesTyped
<1>5. CASE Tick
  BY <1>5 DEF Tick, git, run, Typed, HistoriesTyped
<1>6. CASE IdleFires
  BY <1>6 DEF IdleFires, git, run, Typed, HistoriesTyped
<1>7. CASE Dismiss
  BY <1>7 DEF Dismiss, git, run, Typed, HistoriesTyped
<1>8. ASSUME NEW on \in BOOLEAN, Toggle(on) PROVE HistoriesTyped'
  BY <1>8 DEF Toggle, git, run, Typed, HistoriesTyped
<1>9. ASSUME NEW on \in BOOLEAN, Toggled(on) PROVE HistoriesTyped'
  BY <1>9 DEF Toggled, git, run, Typed, HistoriesTyped
<1>10. CASE RotateRemove
  BY <1>10 DEF RotateRemove, git, run, Typed, HistoriesTyped
<1>11. CASE RotateRename
  BY <1>11 DEF RotateRename, git, run, Typed, HistoriesTyped
<1>12. CASE TakeSnapshot
  BY <1>12 DEF TakeSnapshot, git, Typed, HistoriesTyped
<1>13. CASE Mirror
  BY <1>13 DEF Mirror, Typed, HistoriesTyped
<1>14. CASE Status
  BY <1>14 DEF Status, git, Typed, HistoriesTyped
<1>15. CASE Commit
  <2>1. Diff(Tree(local), tree, sending) \in CommitType
    BY DiffIsCommit DEF Typed, DataTyped
  <2>2. local' \in Seq(CommitType) /\ sha' = local'
    BY <1>15, <2>1 DEF Commit, Typed, HistoriesTyped
  <2> QED BY <1>15, <2>2 DEF Commit, Typed, HistoriesTyped
<1>16. CASE Discard
  BY <1>16 DEF Discard, git, run, Typed, HistoriesTyped
<1>17. CASE SyncThrows
  BY <1>17 DEF SyncThrows, git, run, Typed, HistoriesTyped
<1>18. ASSUME NEW a \in {"sync", "retry"}, Send(a) PROVE HistoriesTyped'
  BY <1>18 DEF Send, git, Typed, HistoriesTyped, Pushers
<1>19. ASSUME NEW a \in {"sync", "retry"}, PushNowhere(a) PROVE HistoriesTyped'
  BY <1>19 DEF PushNowhere, NotPushed, git, run, Typed, HistoriesTyped
<1>20. ASSUME NEW a \in {"sync", "retry"}, PushFails(a) PROVE HistoriesTyped'
  BY <1>20 DEF PushFails, Refused, Typed, HistoriesTyped, Pushers
<1>21. ASSUME NEW a \in {"sync", "retry"}, Fetch(a) PROVE HistoriesTyped'
  BY <1>21 DEF Fetch, run, Typed, HistoriesTyped
<1>22. ASSUME NEW a \in {"sync", "retry"}, FetchFails(a) PROVE HistoriesTyped'
  BY <1>22 DEF FetchFails, NotPushed, git, run, Typed, HistoriesTyped
<1>23. ASSUME NEW a \in {"sync", "retry"}, Rebase(a) PROVE HistoriesTyped'
  <2>1. local' \in Seq(CommitType)
    BY <1>23, RebasedKeepsBoth DEF Rebase, Replayed, Typed, HistoriesTyped
  <2> QED BY <1>23, <2>1 DEF Rebase, run, Typed, HistoriesTyped
<1>24. ASSUME NEW a \in {"sync", "retry"}, RebaseFails(a) PROVE HistoriesTyped'
  BY <1>24 DEF RebaseFails, NotPushed, git, run, Typed, HistoriesTyped
<1>25. ASSUME NEW a \in {"sync", "retry"}, Lands(a) PROVE HistoriesTyped'
  BY <1>25 DEF Lands, run, Typed, HistoriesTyped, Pushers
<1>26. ASSUME NEW a \in {"sync", "retry"}, Pushed(a) PROVE HistoriesTyped'
  BY <1>26 DEF Pushed, git, Typed, HistoriesTyped, Pushers
<1>27. ASSUME NEW a \in {"sync", "retry"}, RepushFails(a) PROVE HistoriesTyped'
  BY <1>27 DEF RepushFails, Refused, NotPushed, Typed, HistoriesTyped, Pushers
<1>28. CASE Retry
  BY <1>28 DEF Retry, git, run, Typed, HistoriesTyped
<1>29. CASE PollFetch
  BY <1>29 DEF PollFetch, run, Typed, HistoriesTyped
<1>30. CASE PollMerge
  BY <1>30 DEF PollMerge, run, Typed, HistoriesTyped
<1>31. CASE Crash
  <2>1. <<>> \in Seq(CommitType)
    OBVIOUS
  <2> QED BY <1>31, <2>1 DEF Crash, git, Typed, HistoriesTyped
<1>32. CASE RecoverRead
  BY <1>32 DEF RecoverRead, Boot, git, run, Typed, HistoriesTyped
<1>33. CASE RecoverTruncate
  BY <1>33 DEF RecoverTruncate, Boot, git, run, Typed, HistoriesTyped
<1>34. CASE RecoverFill
  BY <1>34 DEF RecoverFill, Boot, git, run, Typed, HistoriesTyped
<1>35. CASE RecoverRemove
  BY <1>35 DEF RecoverRemove, Boot, git, run, Typed, HistoriesTyped
<1>36. CASE Redo
  BY <1>36 DEF Redo, Boot, git, run, Typed, HistoriesTyped
<1>37. CASE Load
  BY <1>37 DEF Load, Boot, git, run, Typed, HistoriesTyped
<1>38. CASE UNCHANGED vars
  BY <1>38 DEF vars, git, run, Typed, HistoriesTyped
<1> QED BY <1>1, <1>2, <1>3, <1>4, <1>5, <1>6, <1>7, <1>8, <1>9, <1>10, <1>11, <1>12,
           <1>13, <1>14, <1>15, <1>16, <1>17, <1>18, <1>19, <1>20, <1>21, <1>22, <1>23,
           <1>24, <1>25, <1>26, <1>27, <1>28, <1>29, <1>30, <1>31, <1>32, <1>33, <1>34,
           <1>35, <1>36, <1>37, <1>38, SMTT(60) DEF Next, Sync, Pushing, Booting

(* Every step keeps the state of the process typed.                        *)
LEMMA ProcessStep ==
  ASSUME Typed, [Next]_vars
  PROVE  ProcessTyped'
<1>1. ASSUME NEW p \in Path, Publish(p) PROVE ProcessTyped'
  BY <1>1 DEF Publish, switch, Typed, ProcessTyped
<1>2. ASSUME NEW p \in Path, ForeignPush(p) PROVE ProcessTyped'
  BY <1>2 DEF ForeignPush, disk, switch, Typed, ProcessTyped
<1>3. CASE Append1
  BY <1>3 DEF Append1, Typed, ProcessTyped
<1>4. CASE Manual
  BY <1>4 DEF Manual, SyncNow, disk, switch, Typed, ProcessTyped, Actors, Pushers, Stages
<1>5. CASE Tick
  BY <1>5 DEF Tick, SyncNow, disk, switch, Typed, ProcessTyped, Actors, Pushers, Stages
<1>6. CASE IdleFires
  BY <1>6, ZenonT(60) DEF IdleFires, SyncNow, disk, Typed, ProcessTyped, Actors, Pushers, Stages
<1>7. CASE Dismiss
  BY <1>7 DEF Dismiss, disk, switch, Typed, ProcessTyped
<1>8. ASSUME NEW on \in BOOLEAN, Toggle(on) PROVE ProcessTyped'
  BY <1>8 DEF Toggle, Typed, ProcessTyped
<1>9. ASSUME NEW on \in BOOLEAN, Toggled(on) PROVE ProcessTyped'
  BY <1>9, ZenonT(60) DEF Toggled, SyncNow, disk, Typed, ProcessTyped, Actors, Pushers, Stages
<1>10. CASE RotateRemove
  BY <1>10 DEF RotateRemove, Goto, At, disk, switch, Typed, ProcessTyped, Stages
<1>11. CASE RotateRename
  BY <1>11 DEF RotateRename, Goto, At, disk, switch, Typed, ProcessTyped, Stages
<1>12. CASE TakeSnapshot
  <2>1. stage' = [stage EXCEPT !["sync"] = "mirror"] /\ stage["sync"] = "snapshot"
    BY <1>12 DEF TakeSnapshot, Goto, At
  <2>2. UNCHANGED <<mode, waiting, notice, autoSync, autoFile, toggles>>
    BY <1>12 DEF TakeSnapshot, disk, switch
  <2>3. stage \in [Actors -> Stages] /\ stage' \in [Actors -> Stages] /\ stage'["sync"] = "mirror"
    BY <2>1 DEF Typed, ProcessTyped, Stages, Actors, Pushers
  <2> QED BY <2>1, <2>2, <2>3 DEF Typed, ProcessTyped
<1>13. CASE Mirror
  <2>1. PICK s \in {"status", "mirror"} :
          stage' = [stage EXCEPT !["sync"] = s] /\ stage["sync"] = "mirror"
    BY <1>13 DEF Mirror, Goto, At
  <2>2. UNCHANGED <<mode, waiting, notice, autoSync, autoFile, toggles>>
    BY <1>13 DEF Mirror, disk, switch
  <2>3. stage \in [Actors -> Stages] /\ stage' \in [Actors -> Stages] /\ stage'["sync"] = s
    BY <2>1 DEF Typed, ProcessTyped, Stages, Actors, Pushers
  <2> QED BY <2>1, <2>2, <2>3 DEF Typed, ProcessTyped
<1>14. CASE Status
  BY <1>14 DEF Status, Goto, At, disk, switch, Typed, ProcessTyped, Stages
<1>15. CASE Commit
  BY <1>15 DEF Commit, Goto, At, disk, switch, Typed, ProcessTyped, Stages
<1>16. CASE Discard
  BY <1>16
  DEF Discard, Goto, Finish, NoteResult, At, disk, switch, Typed, ProcessTyped, Actors, Pushers,
      Stages
<1>17. CASE SyncThrows
  BY <1>17
  DEF SyncThrows, Finish, NoteResult, disk, switch, Typed, ProcessTyped, Actors, Pushers,
      Stages
<1>18. ASSUME NEW a \in {"sync", "retry"}, Send(a) PROVE ProcessTyped'
  BY <1>18 DEF Send, Goto, At, disk, switch, Typed, ProcessTyped, Actors, Pushers, Stages
<1>19. ASSUME NEW a \in {"sync", "retry"}, PushNowhere(a) PROVE ProcessTyped'
  BY <1>19
  DEF PushNowhere, NotPushed, Finish, NoteResult, disk, switch, Typed, ProcessTyped, Actors,
      Pushers, Stages
<1>20. ASSUME NEW a \in {"sync", "retry"}, PushFails(a) PROVE ProcessTyped'
  BY <1>20
  DEF PushFails, Refused, Goto, At, disk, switch, Typed, ProcessTyped, Actors, Pushers, Stages
<1>21. ASSUME NEW a \in {"sync", "retry"}, Fetch(a) PROVE ProcessTyped'
  BY <1>21 DEF Fetch, Goto, At, disk, switch, Typed, ProcessTyped, Actors, Pushers, Stages
<1>22. ASSUME NEW a \in {"sync", "retry"}, FetchFails(a) PROVE ProcessTyped'
  BY <1>22
  DEF FetchFails, NotPushed, Finish, NoteResult, disk, switch, Typed, ProcessTyped, Actors, Pushers,
      Stages
<1>23. ASSUME NEW a \in {"sync", "retry"}, Rebase(a) PROVE ProcessTyped'
  BY <1>23 DEF Rebase, Goto, At, disk, switch, Typed, ProcessTyped, Actors, Pushers, Stages
<1>24. ASSUME NEW a \in {"sync", "retry"}, RebaseFails(a) PROVE ProcessTyped'
  BY <1>24
  DEF RebaseFails, NotPushed, Finish, NoteResult, disk, switch, Typed, ProcessTyped, Actors,
      Pushers, Stages
<1>25. ASSUME NEW a \in {"sync", "retry"}, Lands(a) PROVE ProcessTyped'
  BY <1>25 DEF Lands, Goto, At, disk, switch, Typed, ProcessTyped, Actors, Pushers, Stages
<1>26. ASSUME NEW a \in {"sync", "retry"}, Pushed(a) PROVE ProcessTyped'
  BY <1>26
  DEF Pushed, Finish, NoteResult, disk, switch, Typed, ProcessTyped, Actors, Pushers, Stages
<1>27. ASSUME NEW a \in {"sync", "retry"}, RepushFails(a) PROVE ProcessTyped'
  BY <1>27
  DEF RepushFails, NotPushed, Finish, NoteResult, disk, switch, Typed, ProcessTyped, Actors,
      Pushers, Stages
<1>28. CASE Retry
  BY <1>28 DEF Retry, Goto, disk, switch, Typed, ProcessTyped, Actors, Pushers, Stages
<1>29. CASE PollFetch
  BY <1>29 DEF PollFetch, Goto, disk, switch, Typed, ProcessTyped, Actors, Pushers, Stages
<1>30. CASE PollMerge
  BY <1>30 DEF PollMerge, Goto, disk, switch, Typed, ProcessTyped, Actors, Pushers, Stages
<1>31. CASE Crash
  BY <1>31 DEF Crash, disk, Typed, ProcessTyped, Actors, Pushers, Stages
<1>32. CASE RecoverRead
  BY <1>32 DEF RecoverRead, Boot, Typed, ProcessTyped
<1>33. CASE RecoverTruncate
  BY <1>33 DEF RecoverTruncate, Boot, Typed, ProcessTyped
<1>34. CASE RecoverFill
  BY <1>34 DEF RecoverFill, Boot, Typed, ProcessTyped
<1>35. CASE RecoverRemove
  BY <1>35 DEF RecoverRemove, Boot, Typed, ProcessTyped
<1>36. CASE Redo
  BY <1>36 DEF Redo, Boot, Typed, ProcessTyped
<1>37. CASE Load
  BY <1>37 DEF Load, Boot, Typed, ProcessTyped
<1>38. CASE UNCHANGED vars
  BY <1>38 DEF vars, disk, switch, Typed, ProcessTyped
<1> QED BY <1>1, <1>2, <1>3, <1>4, <1>5, <1>6, <1>7, <1>8, <1>9, <1>10, <1>11, <1>12,
           <1>13, <1>14, <1>15, <1>16, <1>17, <1>18, <1>19, <1>20, <1>21, <1>22, <1>23,
           <1>24, <1>25, <1>26, <1>27, <1>28, <1>29, <1>30, <1>31, <1>32, <1>33, <1>34,
           <1>35, <1>36, <1>37, <1>38, SMTT(60) DEF Next, Sync, Pushing, Booting

(* The first state is typed.                                               *)
LEMMA TypedInit ==
  ASSUME BoundsAssumption, Init
  PROVE  Typed
<1>1. <<>> \in Seq(CommitType)
  OBVIOUS
<1>2. DataTyped
  BY DEF Init, DataTyped, Contents
<1>3. HistoriesTyped
  BY <1>1 DEF Init, HistoriesTyped, Pushers
<1>4. ProcessTyped
  BY DEF Init, ProcessTyped, Actors, Pushers, Stages
<1> QED BY <1>2, <1>3, <1>4 DEF Typed

(* The type invariant is inductive.                                        *)
LEMMA TypedStep ==
  ASSUME BoundsAssumption, Typed, [Next]_vars
  PROVE  Typed'
<1> QED BY DataStep, HistoriesStep, ProcessStep DEF Typed

(* It says all that TypeOK says.                                           *)
LEMMA TypedMeansTypeOK ==
  ASSUME BoundsAssumption, Typed
  PROVE  TypeOK
<1>1. ASSUME NEW h \in Seq(CommitType), NEW c \in Range(h)
      PROVE  Touched(c) \subseteq Path /\ c.names \subseteq Writes
  <2>1. c \in CommitType
    BY RangeOfSeq
  <2> QED BY <2>1 DEF CommitType, Touched
<1>2. \A h \in {local, tracking, remote, sha, synced} \cup {sent[a] : a \in Pushers} :
        \A c \in Range(h) : Touched(c) \subseteq Path /\ c.names \subseteq Writes
  BY <1>1 DEF Typed, HistoriesTyped
<1>3. DataTyped /\ ProcessTyped /\ known \in BOOLEAN
  BY DEF Typed, HistoriesTyped
<1> QED BY <1>2, <1>3 DEF TypeOK, DataTyped, ProcessTyped, Contents

(* Every reachable state is well typed.                                    *)
THEOREM TypeCorrect == Spec => []TypeOK
<1>1. Init => Typed
  BY BoundsAssumption, TypedInit
<1>2. Typed /\ [Next]_vars => Typed'
  BY BoundsAssumption, TypedStep
<1>3. Typed => TypeOK
  BY BoundsAssumption, TypedMeansTypeOK
<1> QED BY <1>1, <1>2, <1>3, PTL DEF Spec

-----------------------------------------------------------------------------
(* Histories: nothing is lost, and what is reported is on the remote.      *)

(* The steps that move a history or a counter of one.                      *)
HistoryMoves ==
  \/ Commit \/ PollFetch \/ PollMerge \/ Crash \/ Load
  \/ \E p \in Path : ForeignPush(p)
  \/ \E a \in Pushers :
       \/ Send(a) \/ Lands(a) \/ Pushed(a) \/ PushFails(a) \/ RepushFails(a)
       \/ Fetch(a) \/ Rebase(a)

(* All other steps leave the histories alone.                              *)
LEMMA HistoriesAtRest ==
  ASSUME [Next]_vars
  PROVE  HistoryMoves \/ UNCHANGED <<local, tracking, remote, sha, synced, sent, foreign>>
<1> DEFINE Rest == UNCHANGED <<local, tracking, remote, sha, synced, sent, foreign>>
<1>1. ASSUME NEW p \in Path, Publish(p) PROVE Rest
  BY <1>1 DEF Publish, git, run
<1>2. ASSUME Append1 PROVE Rest
  BY <1>2 DEF Append1, git, run, counts
<1>3. ASSUME Manual PROVE Rest
  BY <1>3 DEF Manual, git, run, counts
<1>4. ASSUME Tick PROVE Rest
  BY <1>4 DEF Tick, git, run, counts
<1>5. ASSUME IdleFires PROVE Rest
  BY <1>5 DEF IdleFires, git, run, counts
<1>6. ASSUME Dismiss PROVE Rest
  BY <1>6 DEF Dismiss, git, run, counts
<1>7. ASSUME NEW on \in BOOLEAN, Toggle(on) PROVE Rest
  BY <1>7 DEF Toggle, git, run
<1>8. ASSUME NEW on \in BOOLEAN, Toggled(on) PROVE Rest
  BY <1>8 DEF Toggled, git, run, counts
<1>9. ASSUME RotateRemove PROVE Rest
  BY <1>9 DEF RotateRemove, git, run, counts
<1>10. ASSUME RotateRename PROVE Rest
  BY <1>10 DEF RotateRename, git, run, counts
<1>11. ASSUME TakeSnapshot PROVE Rest
  BY <1>11 DEF TakeSnapshot, git, counts
<1>12. ASSUME Mirror PROVE Rest
  BY <1>12 DEF Mirror, counts
<1>13. ASSUME Status PROVE Rest
  BY <1>13 DEF Status, git, counts
<1>14. ASSUME Discard PROVE Rest
  BY <1>14 DEF Discard, git, run, counts
<1>15. ASSUME SyncThrows PROVE Rest
  BY <1>15 DEF SyncThrows, Fault, git, run, counts
<1>16. ASSUME NEW a \in Pushers, PushNowhere(a) PROVE Rest
  BY <1>16 DEF PushNowhere, NotPushed, git, run, counts
<1>17. ASSUME NEW a \in Pushers, FetchFails(a) PROVE Rest
  BY <1>17 DEF FetchFails, NotPushed, Fault, git, run
<1>18. ASSUME NEW a \in Pushers, RebaseFails(a) PROVE Rest
  BY <1>18 DEF RebaseFails, NotPushed, Fault, git, run, counts
<1>19. ASSUME Retry PROVE Rest
  BY <1>19 DEF Retry, git, run, counts
<1>20. ASSUME RecoverRead PROVE Rest
  BY <1>20 DEF RecoverRead, Boot, git, run, counts
<1>21. ASSUME RecoverTruncate PROVE Rest
  BY <1>21 DEF RecoverTruncate, Boot, git, run, counts
<1>22. ASSUME RecoverFill PROVE Rest
  BY <1>22 DEF RecoverFill, Boot, git, run, counts
<1>23. ASSUME RecoverRemove PROVE Rest
  BY <1>23 DEF RecoverRemove, Boot, git, run, counts
<1>24. ASSUME Redo PROVE Rest
  BY <1>24 DEF Redo, Boot, git, run, counts
<1>25. ASSUME UNCHANGED vars PROVE Rest
  BY <1>25 DEF vars, git, run, counts
<1> HIDE DEF Rest
<1>90. HistoryMoves \/ Rest
  BY <1>1, <1>2, <1>3, <1>4, <1>5, <1>6, <1>7, <1>8, <1>9, <1>10, <1>11, <1>12,
     <1>13, <1>14, <1>15, <1>16, <1>17, <1>18, <1>19, <1>20, <1>21, <1>22, <1>23,
     <1>24, <1>25, SMTT(60)
  DEF Next, Sync, Pushing, Booting, HistoryMoves, Pushers
<1> QED BY <1>90 DEF Rest

(* No step takes a commit from the remote, or from the clone.              *)
NothingLost == IsPrefix(remote, remote') /\ Range(local) \subseteq Range(local')

(* Pushes fast-forward, rebases replay, pulls fast-forward, and every      *)
(* other step leaves both alone.                                           *)
LEMMA NothingLostStep ==
  ASSUME BoundsAssumption, Typed, Typed', [Next]_vars
  PROVE  NothingLost
<1>1. /\ local \in Seq(CommitType) /\ tracking \in Seq(CommitType) /\ remote \in Seq(CommitType)
      /\ local' \in Seq(CommitType) /\ remote' \in Seq(CommitType)
  BY DEF Typed, HistoriesTyped
<1>2. remote' = remote => IsPrefix(remote, remote')
  BY <1>1, PrefixReflexive
<1>3. IsPrefix(local, local') => Range(local) \subseteq Range(local')
  BY <1>1, PrefixRange
<1>4. CASE Commit
  <2>1. Diff(Tree(local), tree, sending) \in CommitType
    BY DiffIsCommit DEF Typed, DataTyped
  <2>2. IsPrefix(local, local') /\ remote' = remote
    BY <1>1, <1>4, <2>1, PrefixAppend DEF Commit
  <2> QED BY <1>2, <1>3, <2>2 DEF NothingLost
<1>5. CASE PollMerge
  <2>1. local' = local \/ (CanMerge /\ local' = tracking)
    BY <1>5 DEF PollMerge
  <2>2. IsPrefix(local, local') /\ remote' = remote
    BY <1>1, <1>5, <2>1, PrefixReflexive DEF PollMerge, CanMerge, FastForwards
  <2> QED BY <1>2, <1>3, <2>2 DEF NothingLost
<1>6. CASE \E p \in Path : ForeignPush(p)
  <2>1. PICK p \in Path : ForeignPush(p)
    BY <1>6
  <2> DEFINE c == [changes |-> {<<p, MaxWrites + foreign'>>}, names |-> {}]
  <2>2. c \in CommitType
    BY <2>1 DEF CommitType, Contents, Typed, DataTyped
  <2>3. remote' = Append(remote, c) /\ local' = local
    BY <2>1 DEF ForeignPush
  <2> HIDE DEF c
  <2>4. IsPrefix(remote, remote')
    BY <1>1, <2>2, <2>3, PrefixAppend
  <2> QED BY <2>3, <2>4 DEF NothingLost
<1>7. ASSUME NEW a \in Pushers, Lands(a) \/ PushFails(a) \/ RepushFails(a) PROVE NothingLost
  <2>1. local' = local
    BY <1>7 DEF Lands, PushFails, RepushFails
  <2>2. remote' = remote \/ (remote' = sent[a] /\ FastForwards(sent[a], remote))
    BY <1>7 DEF Lands, PushFails, RepushFails, Refused, Accepts
  <2> QED BY <1>2, <2>1, <2>2 DEF FastForwards, NothingLost
<1>8. ASSUME NEW a \in Pushers, Rebase(a) PROVE NothingLost
  <2>1. local' = Rebased(local, tracking) /\ remote' = remote
    BY <1>8 DEF Rebase, Replayed
  <2>2. Range(local) \subseteq Range(local')
    BY <1>1, <2>1, RebasedKeepsBoth
  <2> QED BY <1>2, <2>1, <2>2 DEF NothingLost
<1>9. ASSUME NEW a \in Pushers, Fetch(a) \/ Send(a) \/ Pushed(a) PROVE NothingLost
  BY <1>2, <1>9 DEF Fetch, Send, Pushed, git, NothingLost
<1>10. CASE PollFetch \/ Crash \/ Load
  BY <1>2, <1>10 DEF PollFetch, Crash, Load, Boot, git, NothingLost
<1>11. CASE UNCHANGED <<local, tracking, remote, sha, synced, sent, foreign>>
  BY <1>2, <1>11 DEF NothingLost
<1> QED BY <1>4, <1>5, <1>6, <1>7, <1>8, <1>9, <1>10, <1>11, HistoriesAtRest DEF HistoryMoves

(* However pushes, fetches, rebases and pulls of the sync run, the retry   *)
(* and the poll interleave with the pushes of others, neither side loses a *)
(* commit.                                                                 *)
THEOREM NeitherSideLoses == Spec => BothSidesKept
<1>1. Init => Typed
  BY BoundsAssumption, TypedInit
<1>2. Typed /\ [Next]_vars => Typed'
  BY BoundsAssumption, TypedStep
<1>3. Typed /\ Typed' /\ [Next]_vars =>
        [FastForwards(remote', remote) /\ Range(local) \subseteq Range(local')]_<<local, remote>>
  BY BoundsAssumption, NothingLostStep DEF NothingLost, FastForwards
<1> QED BY <1>1, <1>2, <1>3, PTL DEF Spec, BothSidesKept

(* The clone learns of the remote's commits by fetching or by pushing      *)
(* them.                                                                   *)
LEMMA TrackingStep ==
  ASSUME BoundsAssumption, Typed, Typed', TrackingIsPast, [Next]_vars
  PROVE  TrackingIsPast'
<1>1. /\ tracking \in Seq(CommitType) /\ remote \in Seq(CommitType)
      /\ tracking' \in Seq(CommitType) /\ remote' \in Seq(CommitType)
  BY DEF Typed, HistoriesTyped
<1>2. tracking' = remote' => TrackingIsPast'
  BY <1>1, PrefixReflexive DEF TrackingIsPast
<1>3. tracking' = tracking => TrackingIsPast'
  BY <1>1, NothingLostStep, PrefixTransitive DEF TrackingIsPast, NothingLost
<1>4. CASE Commit \/ PollMerge \/ Crash \/ Load
  BY <1>3, <1>4 DEF Commit, PollMerge, Crash, Load, Boot, git
<1>5. CASE PollFetch
  BY <1>2, <1>5 DEF PollFetch
<1>6. ASSUME NEW p \in Path, ForeignPush(p) PROVE TrackingIsPast'
  BY <1>3, <1>6 DEF ForeignPush
<1>7. ASSUME NEW a \in Pushers, Lands(a) \/ Fetch(a) PROVE TrackingIsPast'
  BY <1>2, <1>7 DEF Lands, Fetch
<1>8. ASSUME NEW a \in Pushers,
             Rebase(a) \/ Send(a) \/ Pushed(a) \/ PushFails(a) \/ RepushFails(a)
      PROVE  TrackingIsPast'
  BY <1>3, <1>8 DEF Rebase, Send, Pushed, PushFails, RepushFails, git
<1>9. CASE UNCHANGED <<local, tracking, remote, sha, synced, sent, foreign>>
  BY <1>3, <1>9
<1> QED BY <1>4, <1>5, <1>6, <1>7, <1>8, <1>9, HistoriesAtRest DEF HistoryMoves

(* Of the steps that leave a push under way, one begins it, one lands it,  *)
(* and the others do not touch what it carries.                            *)
PushGoesOn(a) ==
  \/ Send(a)
  \/ /\ stage[a] \in InFlight /\ sent'[a] = sent[a]
     /\ a = "sync" => sha' = sha
     /\ stage'[a] = "pushed" => stage[a] = "pushed" \/ Lands(a)

(* Every step that leaves a's push under way is one of these.              *)
LEMMA PushStep ==
  ASSUME Typed, [Next]_vars, NEW a \in Pushers, stage'[a] \in InFlight
  PROVE  PushGoesOn(a)
<1>a. stage \in [Actors -> Stages] /\ a \in Actors /\ sent \in [Pushers -> Seq(CommitType)]
  BY DEF Typed, ProcessTyped, HistoriesTyped, Actors
<1>1. ASSUME NEW p \in Path, Publish(p) PROVE PushGoesOn(a)
  BY <1>a, <1>1 DEF Publish, run, PushGoesOn, InFlight, Actors, Pushers
<1>2. ASSUME NEW p \in Path, ForeignPush(p) PROVE PushGoesOn(a)
  BY <1>a, <1>2 DEF ForeignPush, run, PushGoesOn, InFlight, Actors, Pushers
<1>3. CASE Append1
  BY <1>a, <1>3 DEF Append1, run, PushGoesOn, InFlight, Actors, Pushers
<1>4. CASE Manual
  BY <1>a, <1>4 DEF Manual, SyncNow, run, PushGoesOn, InFlight, Actors, Pushers
<1>5. CASE Tick
  BY <1>a, <1>5 DEF Tick, SyncNow, run, PushGoesOn, InFlight, Actors, Pushers
<1>6. CASE IdleFires
  BY <1>a, <1>6 DEF IdleFires, SyncNow, run, PushGoesOn, InFlight, Actors, Pushers
<1>7. CASE Dismiss
  BY <1>a, <1>7 DEF Dismiss, run, PushGoesOn, InFlight, Actors, Pushers
<1>8. ASSUME NEW on \in BOOLEAN, Toggle(on) PROVE PushGoesOn(a)
  BY <1>a, <1>8 DEF Toggle, run, PushGoesOn, InFlight, Actors, Pushers
<1>9. ASSUME NEW on \in BOOLEAN, Toggled(on) PROVE PushGoesOn(a)
  BY <1>a, <1>9 DEF Toggled, SyncNow, run, PushGoesOn, InFlight, Actors, Pushers
<1>10. CASE RotateRemove
  BY <1>a, <1>10 DEF RotateRemove, Goto, At, run, PushGoesOn, InFlight, Actors, Pushers
<1>11. CASE RotateRename
  BY <1>a, <1>11 DEF RotateRename, Goto, At, run, PushGoesOn, InFlight, Actors, Pushers
<1>12. CASE TakeSnapshot
  BY <1>a, <1>12 DEF TakeSnapshot, Goto, At, PushGoesOn, InFlight, Actors, Pushers
<1>13. CASE Mirror
  BY <1>a, <1>13 DEF Mirror, Goto, At, PushGoesOn, InFlight, Actors, Pushers
<1>14. CASE Status
  BY <1>a, <1>14 DEF Status, Goto, At, PushGoesOn, InFlight, Actors, Pushers
<1>15. CASE Commit
  BY <1>a, <1>15 DEF Commit, Goto, At, PushGoesOn, InFlight, Actors, Pushers
<1>16. CASE Discard
  BY <1>a, <1>16 DEF Discard, Goto, Finish, At, run, PushGoesOn, InFlight, Actors, Pushers
<1>17. CASE SyncThrows
  BY <1>a, <1>17 DEF SyncThrows, Finish, run, PushGoesOn, InFlight, Actors, Pushers
<1>18. ASSUME NEW b \in Pushers, PushNowhere(b) PROVE PushGoesOn(a)
  BY <1>a, <1>18 DEF PushNowhere, NotPushed, Finish, At, run, PushGoesOn, InFlight, Actors, Pushers
<1>19. ASSUME NEW b \in Pushers, Send(b) PROVE PushGoesOn(a)
  BY <1>a, <1>19 DEF Send, Goto, At, PushGoesOn, InFlight, Actors, Pushers
<1>20. ASSUME NEW b \in Pushers, Lands(b) PROVE PushGoesOn(a)
  BY <1>a, <1>20 DEF Lands, Goto, At, run, PushGoesOn, InFlight, Actors, Pushers
<1>21. ASSUME NEW b \in Pushers, Pushed(b) PROVE PushGoesOn(a)
  BY <1>a, <1>21 DEF Pushed, Finish, At, PushGoesOn, InFlight, Actors, Pushers
<1>22. ASSUME NEW b \in Pushers, PushFails(b) PROVE PushGoesOn(a)
  BY <1>a, <1>22 DEF PushFails, Refused, Goto, At, PushGoesOn, InFlight, Actors, Pushers
<1>23. ASSUME NEW b \in Pushers, Fetch(b) PROVE PushGoesOn(a)
  BY <1>a, <1>23 DEF Fetch, Goto, At, run, PushGoesOn, InFlight, Actors, Pushers
<1>24. ASSUME NEW b \in Pushers, FetchFails(b) PROVE PushGoesOn(a)
  BY <1>a, <1>24 DEF FetchFails, NotPushed, Finish, At, run, PushGoesOn, InFlight, Actors, Pushers
<1>25. ASSUME NEW b \in Pushers, Rebase(b) PROVE PushGoesOn(a)
  BY <1>a, <1>25 DEF Rebase, Goto, At, run, PushGoesOn, InFlight, Actors, Pushers
<1>26. ASSUME NEW b \in Pushers, RebaseFails(b) PROVE PushGoesOn(a)
  BY <1>a, <1>26 DEF RebaseFails, NotPushed, Finish, At, run, PushGoesOn, InFlight, Actors, Pushers
<1>27. ASSUME NEW b \in Pushers, RepushFails(b) PROVE PushGoesOn(a)
  BY <1>a, <1>27
  DEF RepushFails, Refused, NotPushed, Finish, At, PushGoesOn, InFlight, Actors, Pushers
<1>28. CASE Retry
  BY <1>a, <1>28 DEF Retry, Goto, At, run, PushGoesOn, InFlight, Actors, Pushers
<1>29. CASE PollFetch
  BY <1>a, <1>29 DEF PollFetch, Goto, At, run, PushGoesOn, InFlight, Actors, Pushers
<1>30. CASE PollMerge
  BY <1>a, <1>30 DEF PollMerge, Goto, At, run, PushGoesOn, InFlight, Actors, Pushers
<1>31. CASE Crash
  BY <1>a, <1>31 DEF Crash, PushGoesOn, InFlight, Actors, Pushers
<1>32. CASE RecoverRead
  BY <1>a, <1>32 DEF RecoverRead, Boot, run, PushGoesOn, InFlight, Actors, Pushers
<1>33. CASE RecoverTruncate
  BY <1>a, <1>33 DEF RecoverTruncate, Boot, run, PushGoesOn, InFlight, Actors, Pushers
<1>34. CASE RecoverFill
  BY <1>a, <1>34 DEF RecoverFill, Boot, run, PushGoesOn, InFlight, Actors, Pushers
<1>35. CASE RecoverRemove
  BY <1>a, <1>35 DEF RecoverRemove, Boot, run, PushGoesOn, InFlight, Actors, Pushers
<1>36. CASE Redo
  BY <1>a, <1>36 DEF Redo, Boot, run, PushGoesOn, InFlight, Actors, Pushers
<1>37. CASE Load
  BY <1>a, <1>37 DEF Load, Boot, run, PushGoesOn, InFlight, Actors, Pushers
<1>38. CASE UNCHANGED vars
  BY <1>a, <1>38 DEF vars, run, PushGoesOn, InFlight, Actors, Pushers
<1> QED BY <1>1, <1>2, <1>3, <1>4, <1>5, <1>6, <1>7, <1>8, <1>9, <1>10, <1>11, <1>12,
           <1>13, <1>14, <1>15, <1>16, <1>17, <1>18, <1>19, <1>20, <1>21, <1>22, <1>23, <1>24,
           <1>25, <1>26, <1>27, <1>28, <1>29, <1>30, <1>31, <1>32, <1>33, <1>34, <1>35, <1>36,
           <1>37, <1>38, SMTT(60)
        DEF Next, Sync, Pushing, Booting, Pushers

(* What has landed stays on the remote: nobody's push takes it away.       *)
LEMMA LandedStep ==
  ASSUME BoundsAssumption, Typed, Typed', LandedIsKept, [Next]_vars
  PROVE  LandedIsKept'
<1> SUFFICES ASSUME NEW a \in Pushers, stage'[a] = "pushed" PROVE IsPrefix(sent'[a], remote')
  BY DEF LandedIsKept
<1>1. /\ remote \in Seq(CommitType) /\ remote' \in Seq(CommitType)
      /\ sent[a] \in Seq(CommitType) /\ IsPrefix(remote, remote')
  BY NothingLostStep, SMTT(30) DEF Typed, HistoriesTyped, NothingLost
<1>2. PushGoesOn(a)
  BY PushStep DEF InFlight
<1>3. ~ Send(a)
  BY DEF Send, Goto, Typed, ProcessTyped, Actors, Pushers
<1>4. CASE Lands(a)
  BY <1>1, <1>4, PrefixReflexive DEF Lands, run
<1>5. CASE stage[a] = "pushed" /\ sent'[a] = sent[a]
  BY <1>1, <1>5, PrefixTransitive DEF LandedIsKept
<1> QED BY <1>2, <1>3, <1>4, <1>5 DEF PushGoesOn

(* With nobody else pushing, a rebase replays onto our own past, which     *)
(* changes nothing, and a pull finds nothing new.                          *)
LEMMA AheadStep ==
  ASSUME Typed, Typed', OursIsAhead, [Next]_vars
  PROVE  OursIsAhead'
<1>1. /\ local \in Seq(CommitType) /\ tracking \in Seq(CommitType) /\ remote \in Seq(CommitType)
      /\ sha \in Seq(CommitType) /\ sent \in [Pushers -> Seq(CommitType)]
      /\ local' \in Seq(CommitType) /\ tracking' \in Seq(CommitType)
      /\ remote' \in Seq(CommitType) /\ sha' \in Seq(CommitType)
  BY DEF Typed, HistoriesTyped
<1>2. foreign \in Nat /\ foreign' \in Nat
  BY DEF Typed, DataTyped
<1> DEFINE Ahead == IsPrefix(sha, local) /\ IsPrefix(remote, local) /\ IsPrefix(tracking, local)
<1>3. CASE foreign' = foreign
  <2> SUFFICES ASSUME foreign = 0, Ahead,
                      \A a \in Pushers : stage[a] \in InFlight => IsPrefix(sent[a], local),
                      stage["sync"] \in InFlight => IsPrefix(sha, sent["sync"])
               PROVE  /\ Ahead'
                      /\ \A a \in Pushers : stage'[a] \in InFlight => IsPrefix(sent'[a], local')
                      /\ stage'["sync"] \in InFlight => IsPrefix(sha', sent'["sync"])
    BY <1>3 DEF OursIsAhead
  <2>0. IsPrefix(local, local)
    BY <1>1, PrefixReflexive
  <2>1. ASSUME Commit PROVE Ahead' /\ IsPrefix(local, local')
    <3>1. Diff(Tree(local), tree, sending) \in CommitType
      BY DiffIsCommit DEF Typed, DataTyped
    <3>2. IsPrefix(local, local') /\ sha' = local' /\ remote' = remote /\ tracking' = tracking
      BY <1>1, <2>1, <3>1, PrefixAppend DEF Commit
    <3> QED BY <1>1, <3>2, PrefixReflexive, PrefixTransitive
  <2>2. ASSUME PollFetch PROVE Ahead' /\ local' = local
    BY <2>2 DEF PollFetch, run
  <2>3. ASSUME PollMerge PROVE Ahead' /\ local' = local
    <3>1. local' = local
      <4>1. CanMerge => local = tracking
        BY <1>1, PrefixAntisymmetric DEF CanMerge, FastForwards
      <4> QED BY <2>3, <4>1 DEF PollMerge
    <3> QED BY <2>3, <3>1 DEF PollMerge, run
  <2>4. ASSUME Crash PROVE Ahead' /\ local' = local
    <3>1. IsPrefix(<<>>, local)
      BY <1>1, PrefixEmpty
    <3> QED BY <2>4, <3>1 DEF Crash, git
  <2>5. ASSUME Load PROVE Ahead' /\ local' = local
    BY <2>5 DEF Load, Boot, git, run
  <2>6. ASSUME NEW p \in Path, ForeignPush(p) PROVE FALSE
    BY <1>2, <1>3, <2>6 DEF ForeignPush
  <2>7. ASSUME NEW a \in Pushers, Lands(a) \/ PushFails(a) \/ RepushFails(a)
        PROVE  Ahead' /\ local' = local
    <3>1. IsPrefix(sent[a], local)
      BY <2>7 DEF Lands, PushFails, RepushFails, Goto, At, InFlight
    <3>2. local' = local /\ sha' = sha
      BY <2>7 DEF Lands, PushFails, RepushFails, run
    <3>3. remote' \in {remote, sent[a]} /\ tracking' \in {tracking, sent[a]}
      BY <2>7 DEF Lands, PushFails, RepushFails, Refused
    <3> QED BY <3>1, <3>2, <3>3
  <2>8. ASSUME NEW a \in Pushers, Fetch(a) \/ Send(a) \/ Pushed(a) PROVE Ahead' /\ local' = local
    BY <2>8 DEF Fetch, Send, Pushed, git, run
  <2>9. ASSUME NEW a \in Pushers, Rebase(a) PROVE Ahead' /\ local' = local
    <3>1. local' = local
      BY <1>1, <2>9, RebasedOnPast DEF Rebase, Replayed
    <3> QED BY <2>9, <3>1 DEF Rebase, run
  <2>10. ASSUME UNCHANGED <<local, tracking, remote, sha, synced, sent, foreign>>
         PROVE  Ahead' /\ local' = local
    BY <2>10
  <2> HIDE DEF Ahead
  <2>11. Ahead' /\ IsPrefix(local, local')
    BY <2>0, <2>1, <2>2, <2>3, <2>4, <2>5, <2>6, <2>7, <2>8, <2>9, <2>10, HistoriesAtRest
    DEF HistoryMoves
  <2>12. IsPrefix(sha, local) /\ IsPrefix(local, local')
    BY <2>11 DEF Ahead
  <2>13. ASSUME NEW a \in Pushers, Send(a) PROVE sent'[a] = local' /\ sha' = sha
    BY <1>1, <2>13 DEF Send, git
  <2>14. ASSUME NEW a \in Pushers, stage'[a] \in InFlight
         PROVE  /\ IsPrefix(sent'[a], local')
                /\ a = "sync" => IsPrefix(sha', sent'[a])
    <3>1. PushGoesOn(a)
      BY <2>14, PushStep
    <3>2. CASE Send(a)
      <4>1. IsPrefix(local', local')
        BY <1>1, PrefixReflexive
      <4>2. IsPrefix(sha, local')
        BY <1>1, <2>12, PrefixTransitive
      <4> QED BY <2>13, <3>2, <4>1, <4>2
    <3>3. CASE stage[a] \in InFlight /\ sent'[a] = sent[a] /\ (a = "sync" => sha' = sha)
      <4>1. sent[a] \in Seq(CommitType) /\ IsPrefix(sent[a], local)
        BY <1>1, <3>3
      <4>2. IsPrefix(sent[a], local')
        BY <1>1, <2>12, <4>1, PrefixTransitive
      <4> QED BY <3>3, <4>2
    <3> QED BY <3>1, <3>2, <3>3 DEF PushGoesOn
  <2> QED BY <2>11, <2>14 DEF Pushers
<1>4. CASE foreign' # foreign
  <2>1. PICK p \in Path : ForeignPush(p)
    BY <1>4, HistoriesAtRest, ZenonT(30)
       DEF HistoryMoves, Commit, PollFetch, PollMerge, Crash, Load, Boot, Send, Lands, Pushed,
           PushFails, RepushFails, Refused, Fault, Fetch, Rebase, counts
  <2>2. foreign' # 0
    BY <1>2, <2>1 DEF ForeignPush
  <2> QED BY <2>2 DEF OursIsAhead
<1> QED BY <1>3, <1>4

(* At first there is no commit.                                            *)
LEMMA AheadInit ==
  ASSUME BoundsAssumption, Init
  PROVE  TrackingIsPast /\ LandedIsKept /\ OursIsAhead
<1>1. <<>> \in Seq(CommitType)
  OBVIOUS
<1>2. IsPrefix(<<>>, <<>>)
  BY <1>1, PrefixEmpty
<1> QED BY <1>2
        DEF Init, TrackingIsPast, LandedIsKept, OursIsAhead, InFlight, Actors, Pushers

(* What a sync reports as synchronized is on the remote, as long as nobody *)
(* else pushes: what the run's push carried, after a rebase or not, begins *)
(* with the commit that was made, and it is still there when the run goes  *)
(* on.                                                                     *)
THEOREM ReportedIsPublished == Spec => SyncedIsOnRemote
<1> DEFINE Inv == Typed /\ LandedIsKept /\ OursIsAhead
<1>1. Init => Inv
  BY BoundsAssumption, TypedInit, AheadInit
<1>2. Inv /\ [Next]_vars => Inv'
  BY BoundsAssumption, TypedStep, LandedStep, AheadStep
<1>3. ASSUME Inv, [Next]_vars
      PROVE  [Up /\ foreign = 0 /\ synced' # synced => FastForwards(remote', synced')]_vars
  <2> SUFFICES ASSUME Up, foreign = 0, synced' # synced PROVE IsPrefix(synced', remote')
    BY DEF FastForwards
  <2>1. /\ remote \in Seq(CommitType) /\ sha \in Seq(CommitType)
        /\ sent["sync"] \in Seq(CommitType)
    BY <1>3 DEF Typed, HistoriesTyped, Pushers
  <2>2. CASE Commit \/ PollFetch \/ PollMerge
    BY <2>2 DEF Commit, PollFetch, PollMerge
  <2>3. CASE Crash
    BY <2>1, <2>3, PrefixEmpty DEF Crash, git
  <2>4. CASE Load
    BY <2>4 DEF Load, Boot, Up
  <2>5. ASSUME NEW p \in Path, ForeignPush(p) PROVE IsPrefix(synced', remote')
    BY <2>5 DEF ForeignPush
  <2>6. ASSUME NEW a \in Pushers, Pushed(a) PROVE IsPrefix(synced', remote')
    <3>1. a = "sync" /\ synced' = sha /\ remote' = remote /\ stage["sync"] = "pushed"
      BY <2>6 DEF Pushed, At, git
    <3>2. IsPrefix(sha, sent["sync"]) /\ IsPrefix(sent["sync"], remote)
      BY <1>3, <3>1 DEF OursIsAhead, LandedIsKept, InFlight, Pushers
    <3> QED BY <2>1, <3>1, <3>2, PrefixTransitive
  <2>7. ASSUME NEW a \in Pushers,
               \/ Send(a) \/ Lands(a) \/ PushFails(a) \/ RepushFails(a)
               \/ Fetch(a) \/ Rebase(a)
        PROVE  IsPrefix(synced', remote')
    BY <2>7 DEF Send, Lands, PushFails, RepushFails, NotPushed, Fetch, Rebase
  <2> QED BY <1>3, <2>2, <2>3, <2>4, <2>5, <2>6, <2>7, HistoriesAtRest DEF HistoryMoves
<1> QED BY <1>1, <1>2, <1>3, PTL DEF Spec, SyncedIsOnRemote

(* A notice goes away for one of the reasons of ClearedAfterPush.          *)
Excused ==
  notice # "none" /\ notice' = "none" =>
    \/ Dismiss \/ Crash
    \/ \E a \in Pushers : stage[a] = "pushed" /\ FastForwards(remote, sent[a])

(* Only the end of a push that landed clears the notice unasked.           *)
LEMMA NoticeStep ==
  ASSUME LandedIsKept, [Next]_vars
  PROVE  Excused
<1>1. ASSUME NEW p \in Path, Publish(p) PROVE Excused
  BY <1>1 DEF Publish, Excused
<1>2. ASSUME NEW p \in Path, ForeignPush(p) PROVE Excused
  BY <1>2 DEF ForeignPush, Excused
<1>3. CASE Append1
  BY <1>3 DEF Append1, Excused
<1>4. CASE Manual
  BY <1>4 DEF Manual, Excused
<1>5. CASE Tick
  BY <1>5 DEF Tick, Excused
<1>6. CASE IdleFires
  BY <1>6 DEF IdleFires, Excused
<1>7. CASE Dismiss
  BY <1>7 DEF Excused
<1>8. ASSUME NEW on \in BOOLEAN, Toggle(on) PROVE Excused
  BY <1>8 DEF Toggle, Excused
<1>9. ASSUME NEW on \in BOOLEAN, Toggled(on) PROVE Excused
  BY <1>9 DEF Toggled, Excused
<1>10. CASE RotateRemove
  BY <1>10 DEF RotateRemove, Excused
<1>11. CASE RotateRename
  BY <1>11 DEF RotateRename, Excused
<1>12. CASE TakeSnapshot
  BY <1>12 DEF TakeSnapshot, Excused
<1>13. CASE Mirror
  BY <1>13 DEF Mirror, Excused
<1>14. CASE Status
  BY <1>14 DEF Status, Excused
<1>15. CASE Commit
  BY <1>15 DEF Commit, Excused
<1>16. CASE Discard
  BY <1>16 DEF Discard, Finish, NoteResult, Excused
<1>17. CASE SyncThrows
  BY <1>17 DEF SyncThrows, Finish, NoteResult, Excused
<1>18. ASSUME NEW a \in {"sync", "retry"}, Send(a) PROVE Excused
  BY <1>18 DEF Send, Excused
<1>19. ASSUME NEW a \in {"sync", "retry"}, PushNowhere(a) PROVE Excused
  BY <1>19 DEF PushNowhere, NotPushed, Finish, NoteResult, Excused
<1>20. ASSUME NEW a \in {"sync", "retry"}, PushFails(a) PROVE Excused
  BY <1>20 DEF PushFails, Excused
<1>21. ASSUME NEW a \in {"sync", "retry"}, Fetch(a) PROVE Excused
  BY <1>21 DEF Fetch, Excused
<1>22. ASSUME NEW a \in {"sync", "retry"}, FetchFails(a) PROVE Excused
  BY <1>22 DEF FetchFails, NotPushed, Finish, NoteResult, Excused
<1>23. ASSUME NEW a \in {"sync", "retry"}, Rebase(a) PROVE Excused
  BY <1>23 DEF Rebase, Excused
<1>24. ASSUME NEW a \in {"sync", "retry"}, RebaseFails(a) PROVE Excused
  BY <1>24 DEF RebaseFails, NotPushed, Finish, NoteResult, Excused
<1>25. ASSUME NEW a \in {"sync", "retry"}, Lands(a) PROVE Excused
  BY <1>25 DEF Lands, Excused
<1>26. ASSUME NEW a \in {"sync", "retry"}, Pushed(a) PROVE Excused
  <2>1. a \in Pushers /\ stage[a] = "pushed"
    BY <1>26 DEF Pushed, At, Pushers
  <2> QED BY <2>1 DEF LandedIsKept, FastForwards, Excused
<1>27. ASSUME NEW a \in {"sync", "retry"}, RepushFails(a) PROVE Excused
  BY <1>27 DEF RepushFails, NotPushed, Finish, NoteResult, Excused
<1>28. CASE Retry
  BY <1>28 DEF Retry, Excused
<1>29. CASE PollFetch
  BY <1>29 DEF PollFetch, Excused
<1>30. CASE PollMerge
  BY <1>30 DEF PollMerge, Excused
<1>31. CASE Crash
  BY <1>31 DEF Excused
<1>32. CASE RecoverRead
  BY <1>32 DEF RecoverRead, Boot, Excused
<1>33. CASE RecoverTruncate
  BY <1>33 DEF RecoverTruncate, Boot, Excused
<1>34. CASE RecoverFill
  BY <1>34 DEF RecoverFill, Boot, Excused
<1>35. CASE RecoverRemove
  BY <1>35 DEF RecoverRemove, Boot, Excused
<1>36. CASE Redo
  BY <1>36 DEF Redo, Boot, Excused
<1>37. CASE Load
  BY <1>37 DEF Load, Boot, Excused
<1>38. CASE UNCHANGED vars
  BY <1>38 DEF vars, Excused
<1> QED BY <1>1, <1>2, <1>3, <1>4, <1>5, <1>6, <1>7, <1>8, <1>9, <1>10, <1>11, <1>12,
           <1>13, <1>14, <1>15, <1>16, <1>17, <1>18, <1>19, <1>20, <1>21, <1>22, <1>23,
           <1>24, <1>25, <1>26, <1>27, <1>28, <1>29, <1>30, <1>31, <1>32, <1>33, <1>34,
           <1>35, <1>36, <1>37, <1>38, SMTT(60) DEF Next, Sync, Pushing, Booting

(* A notice that nobody dismissed goes away only when the sync run or the  *)
(* retry goes on after its push, and what that push carried is then on the *)
(* remote, also when others have pushed since.                             *)
THEOREM ClearedOnlyAfterPush == Spec => ClearedAfterPush
<1>1. Init => Typed /\ LandedIsKept
  BY BoundsAssumption, TypedInit, AheadInit
<1>2. Typed /\ LandedIsKept /\ [Next]_vars => Typed' /\ LandedIsKept'
  BY BoundsAssumption, TypedStep, LandedStep
<1>3. ASSUME LandedIsKept, [Next]_vars
      PROVE  [notice # "none" /\ notice' = "none" =>
                \/ Dismiss \/ Crash
                \/ \E a \in Pushers : stage[a] = "pushed" /\ FastForwards(remote, sent[a])]_vars
  BY <1>3, NoticeStep DEF Excused
<1> QED BY <1>1, <1>2, <1>3, PTL DEF Spec, ClearedAfterPush

-----------------------------------------------------------------------------
(* Attribution.                                                            *)

(* What was mirrored of p is in the working tree or in git.                *)
Kept(p) == snap[p] # 0 => tree[p] = snap[p] \/ \E c \in Range(local) : <<p, snap[p]>> \in c.changes

(* A working tree without changes is in the history.                       *)
LEMMA CleanTreeIsInGit ==
  ASSUME BoundsAssumption, Typed, NEW p \in Path, Kept(p), tree[p] = Tree(local)[p], snap[p] # 0
  PROVE  \E c \in Range(local) : <<p, snap[p]>> \in c.changes
<1>1. local \in Seq(CommitType)
  BY DEF Typed, HistoriesTyped
<1> QED BY <1>1, TreeFromCommits DEF Kept

(* A step that moves the clone from one clean tree to the next keeps what  *)
(* was mirrored.                                                           *)
LEMMA KeptByGit ==
  ASSUME BoundsAssumption, Typed, Range(local) \subseteq Range(local'), snap' = snap,
         NEW p \in Path, Kept(p), tree'[p] = tree[p] \/ tree[p] = Tree(local)[p]
  PROVE  Kept(p)'
<1>1. CASE \E c \in Range(local) : <<p, snap[p]>> \in c.changes
  BY <1>1 DEF Kept
<1>2. CASE tree'[p] = tree[p]
  BY <1>2 DEF Kept
<1>3. CASE tree[p] = Tree(local)[p] /\ snap[p] # 0
  BY <1>1, <1>3, CleanTreeIsInGit
<1> QED BY <1>1, <1>2, <1>3 DEF Kept

(* Mirroring, and what others do meanwhile, keeps what was mirrored: a     *)
(* rebase needs a clean tree, and a pull leaves changed files alone.       *)
LEMMA MirroredStep ==
  ASSUME BoundsAssumption, Typed, Typed', MirroredIsKept, [Next]_vars
  PROVE  MirroredIsKept'
<1>a. Range(local) \subseteq Range(local')
  BY NothingLostStep DEF NothingLost
<1>b. stage \in [Actors -> Stages]
  BY DEF Typed, ProcessTyped
<1>c. stage["sync"] \in Mirroring =>
        (stage["sync"] # "mirror" => todo = {}) /\ \A p \in Path \ todo : Kept(p)
  BY DEF MirroredIsKept, Kept
<1>d. ASSUME stage'["sync"] \in Mirroring =>
               (stage'["sync"] # "mirror" => todo' = {}) /\ \A p \in Path \ todo' : Kept(p)'
      PROVE  MirroredIsKept'
  BY <1>d DEF MirroredIsKept, Kept
<1>1. ASSUME NEW p \in Path, Publish(p) PROVE MirroredIsKept'
  <2>1. UNCHANGED <<tree, local, snap, todo>>
    BY <1>1 DEF Publish, git, run
  <2>2. stage'["sync"] \in Mirroring => stage'["sync"] = stage["sync"]
    BY <1>1, <1>b DEF Publish
  <2> QED BY <1>c, <1>d, <2>1, <2>2 DEF Kept
<1>2. ASSUME NEW p \in Path, ForeignPush(p) PROVE MirroredIsKept'
  <2>1. UNCHANGED <<tree, local, snap, todo>>
    BY <1>2 DEF ForeignPush, run
  <2>2. stage'["sync"] \in Mirroring => stage'["sync"] = stage["sync"]
    BY <1>2, <1>b DEF ForeignPush
  <2> QED BY <1>c, <1>d, <2>1, <2>2 DEF Kept
<1>3. CASE Append1
  <2>1. UNCHANGED <<tree, local, snap, todo>>
    BY <1>3 DEF Append1, git, run
  <2>2. stage'["sync"] \in Mirroring => stage'["sync"] = stage["sync"]
    BY <1>3, <1>b DEF Append1
  <2> QED BY <1>c, <1>d, <2>1, <2>2 DEF Kept
<1>4. CASE Manual
  <2>1. UNCHANGED <<tree, local, snap, todo>>
    BY <1>4 DEF Manual, git, run
  <2>2. stage'["sync"] \in Mirroring => stage'["sync"] = stage["sync"]
    BY <1>4, <1>b DEF Manual, SyncNow, Mirroring
  <2> QED BY <1>c, <1>d, <2>1, <2>2 DEF Kept
<1>5. CASE Tick
  <2>1. UNCHANGED <<tree, local, snap, todo>>
    BY <1>5 DEF Tick, git, run
  <2>2. stage'["sync"] \in Mirroring => stage'["sync"] = stage["sync"]
    BY <1>5, <1>b DEF Tick, SyncNow, Mirroring
  <2> QED BY <1>c, <1>d, <2>1, <2>2 DEF Kept
<1>6. CASE IdleFires
  <2>1. UNCHANGED <<tree, local, snap, todo>>
    BY <1>6 DEF IdleFires, git, run
  <2>2. stage'["sync"] \in Mirroring => stage'["sync"] = stage["sync"]
    BY <1>6, <1>b DEF IdleFires, SyncNow, Mirroring
  <2> QED BY <1>c, <1>d, <2>1, <2>2 DEF Kept
<1>7. CASE Dismiss
  <2>1. UNCHANGED <<tree, local, snap, todo>>
    BY <1>7 DEF Dismiss, git, run
  <2>2. stage'["sync"] \in Mirroring => stage'["sync"] = stage["sync"]
    BY <1>7, <1>b DEF Dismiss
  <2> QED BY <1>c, <1>d, <2>1, <2>2 DEF Kept
<1>8. ASSUME NEW on \in BOOLEAN, Toggle(on) PROVE MirroredIsKept'
  <2>1. UNCHANGED <<tree, local, snap, todo>>
    BY <1>8 DEF Toggle, git, run
  <2>2. stage'["sync"] \in Mirroring => stage'["sync"] = stage["sync"]
    BY <1>8, <1>b DEF Toggle
  <2> QED BY <1>c, <1>d, <2>1, <2>2 DEF Kept
<1>9. ASSUME NEW on \in BOOLEAN, Toggled(on) PROVE MirroredIsKept'
  <2>1. UNCHANGED <<tree, local, snap, todo>>
    BY <1>9 DEF Toggled, git, run
  <2>2. stage'["sync"] \in Mirroring => stage'["sync"] = stage["sync"]
    BY <1>9, <1>b DEF Toggled, SyncNow, Mirroring
  <2> QED BY <1>c, <1>d, <2>1, <2>2 DEF Kept
<1>10. CASE RotateRemove
  <2>1. UNCHANGED <<tree, local, snap, todo>>
    BY <1>10 DEF RotateRemove, git, run
  <2>2. stage'["sync"] \in Mirroring => stage'["sync"] = stage["sync"]
    BY <1>10, <1>b DEF RotateRemove, Goto, Mirroring
  <2> QED BY <1>c, <1>d, <2>1, <2>2 DEF Kept
<1>11. CASE RotateRename
  <2>1. UNCHANGED <<tree, local, snap, todo>>
    BY <1>11 DEF RotateRename, git, run
  <2>2. stage'["sync"] \in Mirroring => stage'["sync"] = stage["sync"]
    BY <1>11, <1>b DEF RotateRename, Goto, Mirroring
  <2> QED BY <1>c, <1>d, <2>1, <2>2 DEF Kept
<1>12. CASE TakeSnapshot
  BY <1>12, <1>b, <1>d DEF TakeSnapshot, Goto, Actors, Pushers
<1>13. CASE Mirror
  <2>1. PICK q \in todo :
          /\ tree' = [tree EXCEPT ![q] = snap[q]] /\ todo' = todo \ {q}
          /\ Goto("sync", "mirror", IF todo = {q} THEN "status" ELSE "mirror")
    BY <1>13 DEF Mirror
  <2>2. stage["sync"] = "mirror" /\ (stage'["sync"] # "mirror" => todo' = {})
    BY <1>b, <2>1 DEF Goto, At
  <2>3. local' = local /\ snap' = snap /\ tree \in [Path -> Contents] /\ q \in Path
    BY <1>13, <2>1 DEF Mirror, Typed, DataTyped
  <2>4. ASSUME NEW p \in Path \ todo' PROVE Kept(p)'
    <3>1. CASE p = q
      BY <2>1, <2>3, <3>1 DEF Kept
    <3>2. CASE p # q
      <4>1. Kept(p) /\ tree'[p] = tree[p]
        BY <1>c, <2>1, <2>2, <2>3, <2>4, <3>2 DEF Mirroring
      <4> QED BY <2>3, <4>1 DEF Kept
    <3> QED BY <3>1, <3>2
  <2> QED BY <1>d, <2>2, <2>4
<1>14. CASE Status
  <2>1. UNCHANGED <<tree, local, snap, todo>>
    BY <1>14 DEF Status, git
  <2>2. stage'["sync"] \in Mirroring => stage["sync"] = "status"
    BY <1>14, <1>b DEF Status, Goto, At
  <2> QED BY <1>c, <1>d, <2>1, <2>2 DEF Kept, Mirroring
<1>15. CASE Commit
  BY <1>15, <1>b, <1>d DEF Commit, Goto, Mirroring, Actors, Pushers
<1>16. CASE Discard
  <2>1. UNCHANGED <<tree, local, snap, todo>>
    BY <1>16 DEF Discard, git, run
  <2>2. stage'["sync"] \in Mirroring => stage'["sync"] = stage["sync"]
    BY <1>16, <1>b DEF Discard, Goto, Finish, Mirroring
  <2> QED BY <1>c, <1>d, <2>1, <2>2 DEF Kept
<1>17. CASE SyncThrows
  <2>1. UNCHANGED <<tree, local, snap, todo>>
    BY <1>17 DEF SyncThrows, git, run
  <2>2. stage'["sync"] \in Mirroring => stage'["sync"] = stage["sync"]
    BY <1>17, <1>b DEF SyncThrows, Finish, Mirroring
  <2> QED BY <1>c, <1>d, <2>1, <2>2 DEF Kept
<1>18. ASSUME NEW a \in {"sync", "retry"}, Send(a) PROVE MirroredIsKept'
  <2>1. UNCHANGED <<tree, local, snap, todo>>
    BY <1>18 DEF Send, git
  <2>2. stage'["sync"] \in Mirroring => stage'["sync"] = stage["sync"]
    BY <1>18, <1>b DEF Send, Goto, Mirroring, Actors, Pushers
  <2> QED BY <1>c, <1>d, <2>1, <2>2 DEF Kept
<1>19. ASSUME NEW a \in {"sync", "retry"}, PushNowhere(a) PROVE MirroredIsKept'
  <2>1. UNCHANGED <<tree, local, snap, todo>>
    BY <1>19 DEF PushNowhere, git, run
  <2>2. stage'["sync"] \in Mirroring => stage'["sync"] = stage["sync"]
    BY <1>19, <1>b DEF PushNowhere, NotPushed, Finish, Mirroring, Actors, Pushers
  <2> QED BY <1>c, <1>d, <2>1, <2>2 DEF Kept
<1>20. ASSUME NEW a \in {"sync", "retry"}, PushFails(a) PROVE MirroredIsKept'
  <2>1. UNCHANGED <<tree, local, snap, todo>>
    BY <1>20 DEF PushFails
  <2>2. stage'["sync"] \in Mirroring => stage'["sync"] = stage["sync"]
    BY <1>20, <1>b DEF PushFails, Goto, Mirroring
  <2> QED BY <1>c, <1>d, <2>1, <2>2 DEF Kept
<1>21. ASSUME NEW a \in {"sync", "retry"}, Fetch(a) PROVE MirroredIsKept'
  <2>1. UNCHANGED <<tree, local, snap, todo>>
    BY <1>21 DEF Fetch, run
  <2>2. stage'["sync"] \in Mirroring => stage'["sync"] = stage["sync"]
    BY <1>21, <1>b DEF Fetch, Goto, Mirroring
  <2> QED BY <1>c, <1>d, <2>1, <2>2 DEF Kept
<1>22. ASSUME NEW a \in {"sync", "retry"}, FetchFails(a) PROVE MirroredIsKept'
  <2>1. UNCHANGED <<tree, local, snap, todo>>
    BY <1>22 DEF FetchFails, git, run
  <2>2. stage'["sync"] \in Mirroring => stage'["sync"] = stage["sync"]
    BY <1>22, <1>b DEF FetchFails, NotPushed, Finish, Mirroring, Actors, Pushers
  <2> QED BY <1>c, <1>d, <2>1, <2>2 DEF Kept
<1>23. ASSUME NEW a \in {"sync", "retry"}, Rebase(a) PROVE MirroredIsKept'
  <2>1. tree = Tree(local) /\ snap' = snap /\ todo' = todo
    BY <1>23 DEF Rebase, CanRebase, run
  <2>2. stage'["sync"] = stage["sync"] \/ stage'["sync"] = "repush"
    BY <1>23, <1>b DEF Rebase, Goto
  <2>3. \A p \in Path : Kept(p) => Kept(p)'
    BY <1>a, <2>1, KeptByGit
  <2> QED BY <1>c, <1>d, <2>1, <2>2, <2>3 DEF Mirroring
<1>24. ASSUME NEW a \in {"sync", "retry"}, RebaseFails(a) PROVE MirroredIsKept'
  <2>1. UNCHANGED <<tree, local, snap, todo>>
    BY <1>24 DEF RebaseFails, git, run
  <2>2. stage'["sync"] \in Mirroring => stage'["sync"] = stage["sync"]
    BY <1>24, <1>b DEF RebaseFails, NotPushed, Finish, Mirroring, Actors, Pushers
  <2> QED BY <1>c, <1>d, <2>1, <2>2 DEF Kept
<1>25. ASSUME NEW a \in {"sync", "retry"}, Lands(a) PROVE MirroredIsKept'
  <2>1. UNCHANGED <<tree, local, snap, todo>>
    BY <1>25 DEF Lands, run
  <2>2. stage'["sync"] \in Mirroring => stage'["sync"] = stage["sync"]
    BY <1>25, <1>b DEF Lands, Goto, Mirroring, Actors, Pushers
  <2> QED BY <1>c, <1>d, <2>1, <2>2 DEF Kept
<1>26. ASSUME NEW a \in {"sync", "retry"}, Pushed(a) PROVE MirroredIsKept'
  <2>1. UNCHANGED <<tree, local, snap, todo>>
    BY <1>26 DEF Pushed, git
  <2>2. stage'["sync"] \in Mirroring => stage'["sync"] = stage["sync"]
    BY <1>26, <1>b DEF Pushed, Finish, Mirroring, Actors, Pushers
  <2> QED BY <1>c, <1>d, <2>1, <2>2 DEF Kept
<1>27. ASSUME NEW a \in {"sync", "retry"}, RepushFails(a) PROVE MirroredIsKept'
  <2>1. UNCHANGED <<tree, local, snap, todo>>
    BY <1>27 DEF RepushFails
  <2>2. stage'["sync"] \in Mirroring => stage'["sync"] = stage["sync"]
    BY <1>27, <1>b DEF RepushFails, NotPushed, Finish, Mirroring, Actors, Pushers
  <2> QED BY <1>c, <1>d, <2>1, <2>2 DEF Kept
<1>28. CASE Retry
  <2>1. UNCHANGED <<tree, local, snap, todo>>
    BY <1>28 DEF Retry, git, run
  <2>2. stage'["sync"] \in Mirroring => stage'["sync"] = stage["sync"]
    BY <1>28, <1>b DEF Retry, Goto
  <2> QED BY <1>c, <1>d, <2>1, <2>2 DEF Kept
<1>29. CASE PollFetch
  <2>1. UNCHANGED <<tree, local, snap, todo>>
    BY <1>29 DEF PollFetch, run
  <2>2. stage'["sync"] \in Mirroring => stage'["sync"] = stage["sync"]
    BY <1>29, <1>b DEF PollFetch, Goto
  <2> QED BY <1>c, <1>d, <2>1, <2>2 DEF Kept
<1>30. CASE PollMerge
  <2>1. snap' = snap /\ todo' = todo
    BY <1>30 DEF PollMerge, run
  <2>2. stage'["sync"] = stage["sync"]
    BY <1>30, <1>b DEF PollMerge, Goto
  <2>3. ASSUME NEW p \in Path PROVE tree'[p] = tree[p] \/ tree[p] = Tree(local)[p]
    BY <1>30 DEF PollMerge, CanMerge
  <2>4. \A p \in Path : Kept(p) => Kept(p)'
    BY <1>a, <2>1, <2>3, KeptByGit
  <2> QED BY <1>c, <1>d, <2>1, <2>2, <2>4
<1>31. CASE Crash
  BY <1>31, <1>b, <1>d DEF Crash, Mirroring, Actors, Pushers
<1>32. CASE RecoverRead
  <2>1. UNCHANGED <<tree, local, snap, todo>>
    BY <1>32 DEF RecoverRead, Boot, git, run
  <2>2. stage'["sync"] \in Mirroring => stage'["sync"] = stage["sync"]
    BY <1>32, <1>b DEF RecoverRead, Boot
  <2> QED BY <1>c, <1>d, <2>1, <2>2 DEF Kept
<1>33. CASE RecoverTruncate
  <2>1. UNCHANGED <<tree, local, snap, todo>>
    BY <1>33 DEF RecoverTruncate, Boot, git, run
  <2>2. stage'["sync"] \in Mirroring => stage'["sync"] = stage["sync"]
    BY <1>33, <1>b DEF RecoverTruncate, Boot
  <2> QED BY <1>c, <1>d, <2>1, <2>2 DEF Kept
<1>34. CASE RecoverFill
  <2>1. UNCHANGED <<tree, local, snap, todo>>
    BY <1>34 DEF RecoverFill, Boot, git, run
  <2>2. stage'["sync"] \in Mirroring => stage'["sync"] = stage["sync"]
    BY <1>34, <1>b DEF RecoverFill, Boot
  <2> QED BY <1>c, <1>d, <2>1, <2>2 DEF Kept
<1>35. CASE RecoverRemove
  <2>1. UNCHANGED <<tree, local, snap, todo>>
    BY <1>35 DEF RecoverRemove, Boot, git, run
  <2>2. stage'["sync"] \in Mirroring => stage'["sync"] = stage["sync"]
    BY <1>35, <1>b DEF RecoverRemove, Boot
  <2> QED BY <1>c, <1>d, <2>1, <2>2 DEF Kept
<1>36. CASE Redo
  <2>1. UNCHANGED <<tree, local, snap, todo>>
    BY <1>36 DEF Redo, Boot, git, run
  <2>2. stage'["sync"] \in Mirroring => stage'["sync"] = stage["sync"]
    BY <1>36, <1>b DEF Redo, Boot
  <2> QED BY <1>c, <1>d, <2>1, <2>2 DEF Kept
<1>37. CASE Load
  <2>1. UNCHANGED <<tree, local, snap, todo>>
    BY <1>37 DEF Load, Boot, git, run
  <2>2. stage'["sync"] \in Mirroring => stage'["sync"] = stage["sync"]
    BY <1>37, <1>b DEF Load, Boot
  <2> QED BY <1>c, <1>d, <2>1, <2>2 DEF Kept
<1>38. CASE UNCHANGED vars
  <2>1. UNCHANGED <<tree, local, snap, todo, stage>>
    BY <1>38 DEF vars, git, run
  <2> QED BY <1>c, <1>d, <2>1 DEF Kept
<1> QED BY <1>1, <1>2, <1>3, <1>4, <1>5, <1>6, <1>7, <1>8, <1>9, <1>10, <1>11, <1>12,
           <1>13, <1>14, <1>15, <1>16, <1>17, <1>18, <1>19, <1>20, <1>21, <1>22, <1>23,
           <1>24, <1>25, <1>26, <1>27, <1>28, <1>29, <1>30, <1>31, <1>32, <1>33, <1>34,
           <1>35, <1>36, <1>37, <1>38, SMTT(60) DEF Next, Sync, Pushing, Booting

(* After the mirror nothing of p is owed outside the new journal, unless   *)
(* git has changes to commit.                                              *)
LEMMA OwedAfterMirror ==
  ASSUME BoundsAssumption, Typed, MirroredIsKept, NEW p \in Path, Owed(p), Journaled(p),
         mode = "up", stage["sync"] \in {"status", "commit"}, tree = Tree(local)
  PROVE  db[p] \in pending
<1> SUFFICES ASSUME db[p] \notin pending PROVE FALSE
  OBVIOUS
<1>1. snap[p] = db[p] /\ snap[p] # 0
  BY DEF Journaled, Owed
<1>2. Kept(p)
  BY DEF MirroredIsKept, Mirroring, Kept
<1>3. \E c \in Range(local) : <<p, db[p]>> \in c.changes
  BY <1>1, <1>2, CleanTreeIsInGit
<1> QED BY <1>3 DEF Owed, Holds

(* The journal follows a write from its appending through the rotation to  *)
(* the commit, back to the next rotation when the run fails, and through   *)
(* the recovery of a boot, except in a lapse; what a lapse leaves of it is *)
(* where the next step looks.                                              *)
LEMMA JournalStep ==
  ASSUME BoundsAssumption, Typed, Typed', MirroredIsKept, SavedInBoot, [Next]_vars,
         NEW p \in Path, Owed(p)', Owed(p) => Journaled(p), Lapse => Entered(p)'
  PROVE  Journaled(p)'
<1>a. db'[p] = db[p] /\ db[p] # unlogged => Owed(p) /\ Journaled(p)
  <2>1. Range(local) \subseteq Range(local')
    BY NothingLostStep DEF NothingLost
  <2>2. db'[p] = db[p] /\ Holds(local, p) => Holds(local, p)'
    BY <2>1 DEF Holds
  <2> QED BY <2>2 DEF Owed
<1>b. /\ stage \in [Actors -> Stages]
      /\ mode \in {"read", "truncate", "fill", "remove", "redo", "load", "up"}
  BY DEF Typed, ProcessTyped
<1>c. db'[p] # 0 /\ db'[p] # unlogged'
  BY DEF Owed
<1>1. CASE \E q \in Path : Publish(q)
  <2>1. PICK q \in Path : Publish(q)
    BY <1>1
  <2>2. q # p /\ db'[p] = db[p] /\ unlogged = 0
    BY <1>c, <2>1 DEF Publish, Typed, DataTyped
  <2> QED BY <1>a, <1>c, <2>1, <2>2 DEF Publish, journal, run, Journaled
<1>2. ASSUME NEW q \in Path, ForeignPush(q) PROVE Journaled(p)'
  <2>1. UNCHANGED <<db, unlogged>>
    BY <1>2 DEF ForeignPush, disk
  <2>2. Journaled(p)
    BY <1>a, <1>c, <2>1
  <2> QED BY <1>2, <1>b, <2>1, <2>2
          DEF ForeignPush, journal, run, Actors, Pushers, Mirroring, Journaled
<1>3. CASE Append1
  <2>1. db' = db /\ mode' = mode /\ mode = "up"
    BY <1>3 DEF Append1, Up
  <2>2. CASE db[p] = unlogged
    <3>1. db'[p] \in pending'
      BY <1>3, <2>1, <2>2 DEF Append1
    <3> QED BY <2>1, <3>1 DEF Journaled
  <2>3. CASE db[p] # unlogged
    <3>1. Journaled(p)
      BY <1>a, <2>1, <2>3
    <3> QED BY <1>3, <2>1, <3>1 DEF Append1, run, Journaled
  <2> QED BY <2>2, <2>3
<1>4. CASE Manual
  <2>1. UNCHANGED <<db, unlogged>>
    BY <1>4 DEF Manual, disk
  <2>2. Journaled(p)
    BY <1>a, <1>c, <2>1
  <2> QED BY <1>4, <1>b, <2>1, <2>2
          DEF Manual, Up, SyncNow, journal, run, Actors, Pushers, Mirroring, Journaled
<1>5. CASE Tick
  <2>1. UNCHANGED <<db, unlogged>>
    BY <1>5 DEF Tick, disk
  <2>2. Journaled(p)
    BY <1>a, <1>c, <2>1
  <2> QED BY <1>5, <1>b, <2>1, <2>2
          DEF Tick, Up, SyncNow, journal, run, Actors, Pushers, Mirroring, Journaled
<1>6. CASE IdleFires
  <2>1. UNCHANGED <<db, unlogged>>
    BY <1>6 DEF IdleFires, disk
  <2>2. Journaled(p)
    BY <1>a, <1>c, <2>1
  <2> QED BY <1>6, <1>b, <2>1, <2>2
          DEF IdleFires, Up, SyncNow, journal, run, Actors, Pushers, Mirroring, Journaled
<1>7. CASE Dismiss
  <2>1. UNCHANGED <<db, unlogged>>
    BY <1>7 DEF Dismiss, disk
  <2>2. Journaled(p)
    BY <1>a, <1>c, <2>1
  <2> QED BY <1>7, <1>b, <2>1, <2>2
          DEF Dismiss, Up, journal, run, Actors, Pushers, Mirroring, Journaled
<1>8. ASSUME NEW on \in BOOLEAN, Toggle(on) PROVE Journaled(p)'
  <2>1. UNCHANGED <<db, unlogged>>
    BY <1>8 DEF Toggle
  <2>2. Journaled(p)
    BY <1>a, <1>c, <2>1
  <2> QED BY <1>8, <1>b, <2>1, <2>2
          DEF Toggle, Up, journal, run, Actors, Pushers, Mirroring, Journaled
<1>9. ASSUME NEW on \in BOOLEAN, Toggled(on) PROVE Journaled(p)'
  <2>1. UNCHANGED <<db, unlogged>>
    BY <1>9 DEF Toggled, disk
  <2>2. Journaled(p)
    BY <1>a, <1>c, <2>1
  <2> QED BY <1>9, <1>b, <2>1, <2>2
          DEF Toggled, Up, SyncNow, journal, run, Actors, Pushers, Mirroring, Journaled
<1>10. CASE RotateRemove
  <2>1. db' = db /\ unlogged' = unlogged /\ pending' = pending /\ sending' = {} /\ saved' = saved
    BY <1>10 DEF RotateRemove, disk
  <2>2. mode = "up" /\ mode' = "up" /\ stage["sync"] = "rotate" /\ saved = {}
    BY <1>10 DEF RotateRemove, Goto, At, Up, SavedInBoot
  <2>3. Journaled(p)
    BY <1>a, <1>c, <2>1
  <2>4. db[p] \in pending
    <3>1. CASE sending = {}
      BY <2>2, <2>3, <3>1 DEF Journaled
    <3>2. CASE sending # {}
      BY <1>10, <2>1, <2>2, <3>2 DEF Lapse, Entered
    <3> QED BY <3>1, <3>2
  <2> QED BY <2>1, <2>2, <2>4 DEF Journaled
<1>11. CASE RotateRename
  <2>1. UNCHANGED <<db, unlogged>>
    BY <1>11 DEF RotateRename, disk
  <2>2. Journaled(p)
    BY <1>a, <1>c, <2>1
  <2> QED BY <1>11, <1>b, <2>1, <2>2
          DEF RotateRename, Goto, At, Up, journal, run, Actors, Pushers, Mirroring, Journaled
<1>12. CASE TakeSnapshot
  <2>1. UNCHANGED <<db, unlogged>>
    BY <1>12 DEF TakeSnapshot, disk
  <2>2. Journaled(p)
    BY <1>a, <1>c, <2>1
  <2> QED BY <1>12, <1>b, <2>1, <2>2
          DEF TakeSnapshot, Goto, At, Up, journal, run, Actors, Pushers, Mirroring, Journaled
<1>13. CASE Mirror
  <2>1. UNCHANGED <<db, unlogged>>
    BY <1>13 DEF Mirror, disk
  <2>2. Journaled(p)
    BY <1>a, <1>c, <2>1
  <2> QED BY <1>13, <1>b, <2>1, <2>2
          DEF Mirror, Goto, At, Up, journal, run, Actors, Pushers, Mirroring, Journaled
<1>14. CASE Status
  <2>1. db' = db /\ unlogged' = unlogged /\ mode' = mode /\ mode = "up" /\ pending' = pending
    BY <1>14 DEF Status, Goto, At, Up, disk, journal
  <2>2. Owed(p) /\ Journaled(p)
    BY <1>a, <1>c, <2>1
  <2>3. stage["sync"] = "status"
    BY <1>14 DEF Status, Goto, At
  <2>4. CASE tree = Tree(local)
    <3>1. db[p] \in pending
      BY <2>1, <2>2, <2>3, <2>4, OwedAfterMirror
    <3> QED BY <2>1, <3>1 DEF Journaled
  <2>5. CASE tree # Tree(local)
    <3>1. stage'["sync"] = "commit" /\ sending' = sending /\ snap' = snap
      BY <1>14, <1>b, <2>5 DEF Status, Goto, Actors, Pushers, journal
    <3> QED BY <2>1, <2>2, <2>3, <3>1 DEF Journaled, Mirroring
  <2> QED BY <2>4, <2>5
<1>15. CASE Commit
  <2>1. db' = db /\ unlogged' = unlogged /\ mode' = mode /\ mode = "up" /\ pending' = pending
    BY <1>15 DEF Commit, Goto, At, Up, disk, journal
  <2>2. Owed(p) /\ Journaled(p)
    BY <1>a, <1>c, <2>1
  <2>3. stage["sync"] = "commit"
    BY <1>15 DEF Commit, Goto, At
  <2> SUFFICES ASSUME db[p] \notin pending PROVE FALSE
    BY <2>1 DEF Journaled
  <2>4. snap[p] = db[p] /\ snap[p] # 0 /\ Kept(p)
    BY <2>1, <2>2, <2>3 DEF Journaled, Owed, MirroredIsKept, Kept
  <2>5. tree[p] = db[p]
    BY <2>2, <2>4 DEF Kept, Owed, Holds
  <2>6. tree[p] # Tree(local)[p]
    BY <2>2, <2>4, CleanTreeIsInGit DEF Owed, Holds
  <2> DEFINE c == Diff(Tree(local), tree, sending)
  <2>7. c \in CommitType /\ local' = Append(local, c) /\ local \in Seq(CommitType)
    BY <1>15, DiffIsCommit DEF Commit, Typed, HistoriesTyped
  <2>8. <<p, db[p]>> \in c.changes
    BY <2>5, <2>6, DiffChanges
  <2> HIDE DEF c
  <2>9. c \in Range(local')
    BY <2>7, RangeAppend
  <2>10. Holds(local, p)'
    BY <2>1, <2>8, <2>9 DEF Holds
  <2> QED BY <2>10 DEF Owed
<1>16. CASE Discard
  <2>1. UNCHANGED <<db, unlogged>>
    BY <1>16 DEF Discard, disk
  <2>2. Journaled(p)
    BY <1>a, <1>c, <2>1
  <2> QED BY <1>16, <1>b, <2>1, <2>2
          DEF Discard, Goto, Finish, At, Up, journal, run, Actors, Pushers, Mirroring, Journaled
<1>17. CASE SyncThrows
  <2>1. db' = db /\ unlogged' = unlogged /\ mode' = mode /\ mode = "up"
        /\ pending' = pending /\ sending' = sending
    BY <1>17 DEF SyncThrows, Fault, At, Up, disk, journal
  <2>2. stage'["sync"] = "idle"
    BY <1>17, <1>b DEF SyncThrows, Finish, Actors, Pushers
  <2>3. Journaled(p)
    BY <1>a, <1>c, <2>1
  <2> QED BY <2>1, <2>2, <2>3 DEF Journaled
<1>18. ASSUME NEW a \in {"sync", "retry"}, Send(a) PROVE Journaled(p)'
  <2>1. UNCHANGED <<db, unlogged>>
    BY <1>18 DEF Send, disk
  <2>2. Journaled(p)
    BY <1>a, <1>c, <2>1
  <2> QED BY <1>18, <1>b, <2>1, <2>2
          DEF Send, Goto, Up, At, journal, run, Actors, Pushers, Mirroring, Journaled
<1>19. ASSUME NEW a \in {"sync", "retry"}, PushNowhere(a) PROVE Journaled(p)'
  <2>1. UNCHANGED <<db, unlogged>>
    BY <1>19 DEF PushNowhere, disk
  <2>2. Journaled(p)
    BY <1>a, <1>c, <2>1
  <2> QED BY <1>19, <1>b, <2>1, <2>2
          DEF PushNowhere, NotPushed, Finish, At, Up, journal, run, Actors, Pushers, Mirroring,
              Journaled
<1>20. ASSUME NEW a \in {"sync", "retry"}, PushFails(a) PROVE Journaled(p)'
  <2>1. UNCHANGED <<db, unlogged>>
    BY <1>20 DEF PushFails, disk
  <2>2. Journaled(p)
    BY <1>a, <1>c, <2>1
  <2> QED BY <1>20, <1>b, <2>1, <2>2
          DEF PushFails, Refused, Goto, Fault, Up, At, journal, run, Actors, Pushers, Mirroring,
              Journaled
<1>21. ASSUME NEW a \in {"sync", "retry"}, Fetch(a) PROVE Journaled(p)'
  <2>1. UNCHANGED <<db, unlogged>>
    BY <1>21 DEF Fetch, disk
  <2>2. Journaled(p)
    BY <1>a, <1>c, <2>1
  <2> QED BY <1>21, <1>b, <2>1, <2>2
          DEF Fetch, Goto, At, Up, journal, run, Actors, Pushers, Mirroring, Journaled
<1>22. ASSUME NEW a \in {"sync", "retry"}, FetchFails(a) PROVE Journaled(p)'
  <2>1. UNCHANGED <<db, unlogged>>
    BY <1>22 DEF FetchFails, disk
  <2>2. Journaled(p)
    BY <1>a, <1>c, <2>1
  <2> QED BY <1>22, <1>b, <2>1, <2>2
          DEF FetchFails, NotPushed, Finish, Fault, Up, At, journal, run, Actors, Pushers,
              Mirroring, Journaled
<1>23. ASSUME NEW a \in {"sync", "retry"}, Rebase(a) PROVE Journaled(p)'
  <2>1. UNCHANGED <<db, unlogged>>
    BY <1>23 DEF Rebase, disk
  <2>2. Journaled(p)
    BY <1>a, <1>c, <2>1
  <2> QED BY <1>23, <1>b, <2>1, <2>2
          DEF Rebase, Goto, At, Up, journal, run, Actors, Pushers, Mirroring, Journaled
<1>24. ASSUME NEW a \in {"sync", "retry"}, RebaseFails(a) PROVE Journaled(p)'
  <2>1. UNCHANGED <<db, unlogged>>
    BY <1>24 DEF RebaseFails, disk
  <2>2. Journaled(p)
    BY <1>a, <1>c, <2>1
  <2> QED BY <1>24, <1>b, <2>1, <2>2
          DEF RebaseFails, NotPushed, Finish, Fault, Up, At, journal, run, Actors, Pushers,
              Mirroring, Journaled
<1>25. ASSUME NEW a \in {"sync", "retry"}, Lands(a) PROVE Journaled(p)'
  <2>1. UNCHANGED <<db, unlogged>>
    BY <1>25 DEF Lands, disk
  <2>2. Journaled(p)
    BY <1>a, <1>c, <2>1
  <2> QED BY <1>25, <1>b, <2>1, <2>2
          DEF Lands, Goto, Up, At, journal, run, Actors, Pushers, Mirroring, Journaled
<1>26. ASSUME NEW a \in {"sync", "retry"}, Pushed(a) PROVE Journaled(p)'
  <2>1. UNCHANGED <<db, unlogged>>
    BY <1>26 DEF Pushed, disk
  <2>2. Journaled(p)
    BY <1>a, <1>c, <2>1
  <2> QED BY <1>26, <1>b, <2>1, <2>2
          DEF Pushed, Finish, Up, At, journal, run, Actors, Pushers, Mirroring, Journaled
<1>27. ASSUME NEW a \in {"sync", "retry"}, RepushFails(a) PROVE Journaled(p)'
  <2>1. UNCHANGED <<db, unlogged>>
    BY <1>27 DEF RepushFails, disk
  <2>2. Journaled(p)
    BY <1>a, <1>c, <2>1
  <2> QED BY <1>27, <1>b, <2>1, <2>2
          DEF RepushFails, NotPushed, Finish, Refused, Fault, Up, At, journal, run, Actors,
              Pushers, Mirroring, Journaled
<1>28. CASE Retry
  <2>1. UNCHANGED <<db, unlogged>>
    BY <1>28 DEF Retry, disk
  <2>2. Journaled(p)
    BY <1>a, <1>c, <2>1
  <2> QED BY <1>28, <1>b, <2>1, <2>2
          DEF Retry, Goto, At, Up, journal, run, Actors, Pushers, Mirroring, Journaled
<1>29. CASE PollFetch
  <2>1. UNCHANGED <<db, unlogged>>
    BY <1>29 DEF PollFetch, disk
  <2>2. Journaled(p)
    BY <1>a, <1>c, <2>1
  <2> QED BY <1>29, <1>b, <2>1, <2>2
          DEF PollFetch, Goto, At, Up, journal, run, Actors, Pushers, Mirroring, Journaled
<1>30. CASE PollMerge
  <2>1. UNCHANGED <<db, unlogged>>
    BY <1>30 DEF PollMerge, disk
  <2>2. Journaled(p)
    BY <1>a, <1>c, <2>1
  <2> QED BY <1>30, <1>b, <2>1, <2>2
          DEF PollMerge, Goto, At, Up, journal, run, Actors, Pushers, Mirroring, Journaled
<1>31. CASE Crash
  <2>1. db' = db /\ unlogged' = unlogged /\ mode' = "read"
        /\ pending' = pending /\ sending' = sending /\ saved' = {}
    BY <1>31 DEF Crash, disk, journal
  <2>2. Journaled(p)
    BY <1>a, <1>c, <2>1
  <2>3. CASE mode = "fill"
    BY <1>31, <2>1, <2>3 DEF Lapse, Entered, Journaled
  <2>4. CASE mode # "fill"
    BY <1>b, <2>1, <2>2, <2>4 DEF Journaled
  <2> QED BY <2>3, <2>4
<1>32. CASE RecoverRead
  <2>1. UNCHANGED <<db, unlogged>>
    BY <1>32 DEF RecoverRead, Boot
  <2>2. Journaled(p)
    BY <1>a, <1>c, <2>1
  <2> QED BY <1>32, <1>b, <2>1, <2>2
          DEF RecoverRead, Boot, journal, run, Actors, Pushers, Mirroring, Journaled
<1>33. CASE RecoverTruncate
  <2>1. UNCHANGED <<db, unlogged>>
    BY <1>33 DEF RecoverTruncate, Boot
  <2>2. Journaled(p)
    BY <1>a, <1>c, <2>1
  <2> QED BY <1>33, <1>b, <2>1, <2>2
          DEF RecoverTruncate, Boot, journal, run, Actors, Pushers, Mirroring, Journaled
<1>34. CASE RecoverFill
  <2>1. UNCHANGED <<db, unlogged>>
    BY <1>34 DEF RecoverFill, Boot
  <2>2. Journaled(p)
    BY <1>a, <1>c, <2>1
  <2> QED BY <1>34, <1>b, <2>1, <2>2
          DEF RecoverFill, Boot, journal, run, Actors, Pushers, Mirroring, Journaled
<1>35. CASE RecoverRemove
  <2>1. UNCHANGED <<db, unlogged>>
    BY <1>35 DEF RecoverRemove, Boot
  <2>2. Journaled(p)
    BY <1>a, <1>c, <2>1
  <2> QED BY <1>35, <1>b, <2>1, <2>2
          DEF RecoverRemove, Boot, journal, run, Actors, Pushers, Mirroring, Journaled
<1>36. CASE Redo
  <2>1. db' = db /\ mode = "redo" /\ mode' = "load" /\ unlogged' = 0
        /\ pending' = IF unlogged = 0 THEN pending ELSE pending \cup {unlogged}
    BY <1>36 DEF Redo, Boot
  <2>2. CASE db[p] = unlogged
    BY <1>c, <2>1, <2>2 DEF Journaled
  <2>3. CASE db[p] # unlogged
    <3>1. Journaled(p)
      BY <1>a, <2>1, <2>3
    <3> QED BY <2>1, <3>1 DEF Journaled
  <2> QED BY <2>2, <2>3
<1>37. CASE Load
  <2>1. UNCHANGED <<db, unlogged>>
    BY <1>37 DEF Load, Boot
  <2>2. Journaled(p)
    BY <1>a, <1>c, <2>1
  <2> QED BY <1>37, <1>b, <2>1, <2>2
          DEF Load, Boot, journal, run, Actors, Pushers, Mirroring, Journaled
<1>38. CASE UNCHANGED vars
  <2>1. UNCHANGED <<db, unlogged, pending, sending, mode, saved, stage, snap>>
    BY <1>38 DEF vars, disk, journal, run
  <2> QED BY <1>a, <1>c, <2>1 DEF Journaled
<1> QED BY <1>1, <1>2, <1>3, <1>4, <1>5, <1>6, <1>7, <1>8, <1>9, <1>10, <1>11, <1>12,
           <1>13, <1>14, <1>15, <1>16, <1>17, <1>18, <1>19, <1>20, <1>21, <1>22, <1>23,
           <1>24, <1>25, <1>26, <1>27, <1>28, <1>29, <1>30, <1>31, <1>32, <1>33, <1>34,
           <1>35, <1>36, <1>37, <1>38, SMTT(60) DEF Next, Sync, Pushing, Booting

(* At first no run is under way and nothing was written.                   *)
LEMMA AttributionInit ==
  ASSUME Init
  PROVE  MirroredIsKept /\ SavedInBoot /\ WritersKnown
<1> QED BY DEF Init, MirroredIsKept, Mirroring, Actors, Pushers, SavedInBoot, WritersKnown, Owed

(* No entry comes from nowhere, only a write in progress changes a served  *)
(* document, and recover() forgets what it has put back.                   *)
EntriesMove ==
  /\ pending' \cup sending' \cup saved' \subseteq pending \cup sending \cup saved \cup {unlogged}
  /\ \A p \in Path : db'[p] = db[p] \/ db'[p] = unlogged'
  /\ SavedInBoot'

LEMMA EntriesStep ==
  ASSUME Typed, SavedInBoot, [Next]_vars
  PROVE  EntriesMove
<1>1. ASSUME NEW q \in Path, Publish(q) PROVE EntriesMove
  BY <1>1 DEF Publish, journal, EntriesMove, SavedInBoot, Typed, DataTyped
<1>2. ASSUME NEW q \in Path, ForeignPush(q) PROVE EntriesMove
  BY <1>2 DEF ForeignPush, disk, journal, EntriesMove, SavedInBoot
<1>3. CASE Append1
  BY <1>3 DEF Append1, EntriesMove, SavedInBoot
<1>4. CASE Manual
  BY <1>4 DEF Manual, disk, journal, EntriesMove, SavedInBoot
<1>5. CASE Tick
  BY <1>5 DEF Tick, disk, journal, EntriesMove, SavedInBoot
<1>6. CASE IdleFires
  BY <1>6 DEF IdleFires, disk, journal, EntriesMove, SavedInBoot
<1>7. CASE Dismiss
  BY <1>7 DEF Dismiss, disk, journal, EntriesMove, SavedInBoot
<1>8. ASSUME NEW on \in BOOLEAN, Toggle(on) PROVE EntriesMove
  BY <1>8 DEF Toggle, journal, EntriesMove, SavedInBoot
<1>9. ASSUME NEW on \in BOOLEAN, Toggled(on) PROVE EntriesMove
  BY <1>9 DEF Toggled, disk, journal, EntriesMove, SavedInBoot
<1>10. CASE RotateRemove
  BY <1>10 DEF RotateRemove, disk, EntriesMove, SavedInBoot
<1>11. CASE RotateRename
  BY <1>11 DEF RotateRename, disk, EntriesMove, SavedInBoot
<1>12. CASE TakeSnapshot
  BY <1>12 DEF TakeSnapshot, disk, journal, EntriesMove, SavedInBoot
<1>13. CASE Mirror
  BY <1>13 DEF Mirror, disk, journal, EntriesMove, SavedInBoot
<1>14. CASE Status
  BY <1>14 DEF Status, disk, journal, EntriesMove, SavedInBoot
<1>15. CASE Commit
  BY <1>15 DEF Commit, disk, journal, EntriesMove, SavedInBoot
<1>16. CASE Discard
  BY <1>16 DEF Discard, disk, EntriesMove, SavedInBoot
<1>17. CASE SyncThrows
  BY <1>17 DEF SyncThrows, disk, journal, EntriesMove, SavedInBoot
<1>18. ASSUME NEW a \in Pushers, PushNowhere(a) PROVE EntriesMove
  BY <1>18 DEF PushNowhere, disk, journal, EntriesMove, SavedInBoot
<1>19. ASSUME NEW a \in Pushers, Send(a) PROVE EntriesMove
  BY <1>19 DEF Send, disk, journal, EntriesMove, SavedInBoot
<1>20. ASSUME NEW a \in Pushers, Lands(a) PROVE EntriesMove
  BY <1>20 DEF Lands, disk, journal, EntriesMove, SavedInBoot
<1>21. ASSUME NEW a \in Pushers, Pushed(a) PROVE EntriesMove
  BY <1>21 DEF Pushed, disk, journal, EntriesMove, SavedInBoot
<1>22. ASSUME NEW a \in Pushers, PushFails(a) PROVE EntriesMove
  BY <1>22 DEF PushFails, disk, journal, EntriesMove, SavedInBoot
<1>23. ASSUME NEW a \in Pushers, Fetch(a) PROVE EntriesMove
  BY <1>23 DEF Fetch, disk, journal, EntriesMove, SavedInBoot
<1>24. ASSUME NEW a \in Pushers, FetchFails(a) PROVE EntriesMove
  BY <1>24 DEF FetchFails, disk, journal, EntriesMove, SavedInBoot
<1>25. ASSUME NEW a \in Pushers, Rebase(a) PROVE EntriesMove
  BY <1>25 DEF Rebase, disk, journal, EntriesMove, SavedInBoot
<1>26. ASSUME NEW a \in Pushers, RebaseFails(a) PROVE EntriesMove
  BY <1>26 DEF RebaseFails, disk, journal, EntriesMove, SavedInBoot
<1>27. ASSUME NEW a \in Pushers, RepushFails(a) PROVE EntriesMove
  BY <1>27 DEF RepushFails, disk, journal, EntriesMove, SavedInBoot
<1>28. CASE Retry
  BY <1>28 DEF Retry, disk, journal, EntriesMove, SavedInBoot
<1>29. CASE PollFetch
  BY <1>29 DEF PollFetch, disk, journal, EntriesMove, SavedInBoot
<1>30. CASE PollMerge
  BY <1>30 DEF PollMerge, disk, journal, EntriesMove, SavedInBoot
<1>31. CASE Crash
  BY <1>31 DEF Crash, disk, journal, EntriesMove, SavedInBoot
<1>32. CASE RecoverRead
  BY <1>32 DEF RecoverRead, Boot, journal, EntriesMove, SavedInBoot
<1>33. CASE RecoverTruncate
  BY <1>33 DEF RecoverTruncate, Boot, EntriesMove, SavedInBoot
<1>34. CASE RecoverFill
  BY <1>34 DEF RecoverFill, Boot, EntriesMove, SavedInBoot
<1>35. CASE RecoverRemove
  BY <1>35 DEF RecoverRemove, Boot, EntriesMove, SavedInBoot
<1>36. CASE Redo
  BY <1>36 DEF Redo, Boot, EntriesMove, SavedInBoot
<1>37. CASE Load
  BY <1>37 DEF Load, Boot, journal, EntriesMove, SavedInBoot
<1>38. CASE UNCHANGED vars
  BY <1>38 DEF vars, disk, journal, EntriesMove, SavedInBoot
<1> QED BY <1>1, <1>2, <1>3, <1>4, <1>5, <1>6, <1>7, <1>8, <1>9, <1>10, <1>11, <1>12,
           <1>13, <1>14, <1>15, <1>16, <1>17, <1>18, <1>19, <1>20, <1>21, <1>22, <1>23, <1>24,
           <1>25, <1>26, <1>27, <1>28, <1>29, <1>30, <1>31, <1>32, <1>33, <1>34, <1>35, <1>36,
           <1>37, <1>38, SMTT(60)
        DEF Next, Sync, Pushing, Booting, Pushers

(* What the journal still has of an owed write is where it will be found.  *)
LEMMA WritersStep ==
  ASSUME BoundsAssumption, Typed, Typed', MirroredIsKept, SavedInBoot, WritersKnown, [Next]_vars
  PROVE  WritersKnown'
<1> SUFFICES ASSUME NEW p \in Path, Owed(p)', Entered(p)' PROVE Journaled(p)'
  BY DEF WritersKnown
<1>1. EntriesMove
  BY EntriesStep
<1>2. db'[p] = db[p]
  BY <1>1 DEF EntriesMove, Owed
<1>3. ASSUME Owed(p) PROVE Journaled(p)
  <2>1. Entered(p)
    BY <1>1, <1>2, <1>3 DEF EntriesMove, Entered, Owed
  <2> QED BY <1>3, <2>1 DEF WritersKnown
<1> QED BY <1>3, JournalStep

(* The journal says who made a served write until the write is in a        *)
(* commit, across rotations, failed runs and pushes, rebases of the retry  *)
(* and pulls of the poll in the middle of a mirror, and deaths of the      *)
(* process in service and in its boot: the rotation that finds the entries *)
(* of a failed run, and the death between the two halves of writeFile, are *)
(* the only steps that lose it.                                            *)
THEOREM AttributionHolds == Spec => AttributionKept
<1> DEFINE Inv == Typed /\ MirroredIsKept /\ SavedInBoot /\ WritersKnown
<1>1. Init => Inv
  BY BoundsAssumption, TypedInit, AttributionInit
<1>2. Inv /\ [Next]_vars => Inv'
  BY BoundsAssumption, TypedStep, MirroredStep, EntriesStep, WritersStep DEF EntriesMove
<1>3. ASSUME Inv, Inv', [Next]_vars
      PROVE  [\A p \in Path : Attributed(p) => Attributed(p)' \/ Lapse]_vars
  <2> SUFFICES ASSUME NEW p \in Path, Attributed(p), ~ Lapse, Owed(p)' PROVE Entered(p)'
    BY DEF Attributed, Owed, Entered
  <2>1. Owed(p) => Journaled(p)
    BY <1>3 DEF Attributed, Owed, Entered, WritersKnown
  <2>2. Journaled(p)'
    BY <1>3, <2>1, BoundsAssumption, JournalStep
  <2>3. mode' \in {"read", "truncate", "fill", "remove", "redo", "load", "up"}
    BY <1>3 DEF Typed, ProcessTyped
  <2> QED BY <2>2, <2>3 DEF Journaled, Entered
<1> QED BY <1>1, <1>2, <1>3, PTL DEF Spec, AttributionKept

-----------------------------------------------------------------------------
(* The report of pending work.                                             *)

(* While no run is under way, every attributed write that the remote lacks *)
(* is reported: its entry is in the journal, or its commit is beyond what  *)
(* the clone knows of the remote, which is never more than the remote has. *)
THEOREM ReportHolds == Spec => []ReportIsHonest
<1> DEFINE Inv == Typed /\ SavedInBoot /\ TrackingIsPast
<1>1. Init => Inv
  BY BoundsAssumption, TypedInit, AttributionInit, AheadInit
<1>2. Inv /\ [Next]_vars => Inv'
  BY BoundsAssumption, TypedStep, EntriesStep, TrackingStep DEF EntriesMove
<1>3. Inv => ReportIsHonest
  <2> SUFFICES ASSUME Inv, hasRemote, known, Up, unlogged = 0, NEW p \in Path,
                      db[p] # 0, Attributed(p), ~ Holds(remote, p),
                      pending \cup sending = {}, Beyond(local, tracking) = <<>>
               PROVE  FALSE
    BY DEF ReportIsHonest, Ready, Unpushed
  <2>1. local \in Seq(CommitType) /\ tracking \in Seq(CommitType) /\ remote \in Seq(CommitType)
    BY DEF Typed, HistoriesTyped
  <2>2. saved = {}
    BY DEF SavedInBoot, Up
  <2>3. Holds(local, p)
    BY <2>2 DEF Attributed
  <2>4. Range(local) \subseteq Range(tracking) /\ Range(tracking) \subseteq Range(remote)
    BY <2>1, BeyondEmpty, PrefixRange DEF TrackingIsPast
  <2> QED BY <2>3, <2>4 DEF Holds
<1> QED BY <1>1, <1>2, <1>3, PTL DEF Spec
=============================================================================
