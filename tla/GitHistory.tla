---------------------------- MODULE GitHistory ----------------------------
(***************************************************************************)
(* The parts of git that src/src/git/repository.ts relies on.  A history   *)
(* is the sequence of the commits made since the clone was created; as in  *)
(* git, where a sha covers all ancestors, it also stands for the sha of    *)
(* its last commit.  A commit is the set of files it changes, each with    *)
(* its new content, and the writers its message names.                     *)
(***************************************************************************)
EXTENDS Integers, Sequences, FiniteSets, SequencesExt

CONSTANT Path

Touched(commit) == {change[1] : change \in commit.changes}

(* The content that commit gives to a path it touches.                     *)
ContentOf(commit, p) == (CHOOSE change \in commit.changes : change[1] = p)[2]

(* The files as of the last commit; 0 is the content of the first clone.   *)
Tree(history) ==
  [p \in Path |->
     LET i == SelectLastInSeq(history, LAMBDA c : p \in Touched(c))
     IN  IF i = 0 THEN 0 ELSE ContentOf(history[i], p)]

(* The commit that turns one tree into another.                            *)
Diff(from, to, names) ==
  [changes |-> {<<p, to[p]>> : p \in {q \in Path : from[q] # to[q]}}, names |-> names]

(* The commits of one history that the other does not have.                *)
Beyond(history, other) ==
  SubSeq(history, Len(LongestCommonPrefix({history, other})) + 1, Len(history))

(* Rebasing fails where both sides changed one file: a document is a few   *)
(* lines, and its "version" line is changed by every write.                *)
RebaseConflicts(ours, theirs) ==
  \E c \in Range(Beyond(ours, theirs)), d \in Range(Beyond(theirs, ours)) :
    Touched(c) \cap Touched(d) # {}

Rebased(ours, theirs) == theirs \o Beyond(ours, theirs)

FastForwards(to, from) == IsPrefix(from, to)
=============================================================================
