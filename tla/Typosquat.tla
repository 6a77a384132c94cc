------------------------------ MODULE Typosquat ------------------------------
(***************************************************************************)
(* The look-alike detector (signals/typosquat.rs) and a reference for it:  *)
(* names that are made from a popular one, edit by edit.  A name is a      *)
(* sequence of characters; a confusable character is written with a stroke *)
(* behind the ASCII character it folds to.                                 *)
(***************************************************************************)
EXTENDS Integers, FiniteSets, Sequences

CONSTANTS
  Popular,     \* the corpus, which is the allow-list too
  Letters,     \* ASCII characters
  Folded,      \* those the table of confusables has look-alikes of
  MaxEdits,    \* bound on the edits
  MaxLooks     \* bound on separators put in and characters replaced by confusables

VARIABLE
  squat   \* the target, the name made from it and how it was made

Separators == {"-", "_", "."}
Confusable == [c \in Folded |-> c \o "'"]
Confusables == {Confusable[c] : c \in Folded}

\* A popular name is ASCII, and a confusable is not and looks like one letter.
NamesAssumption ==
  /\ \A t \in Popular : t \in Seq(Letters \cup Separators)
  /\ Confusables \cap (Letters \cup Separators) = {} /\ Letters \cap Separators = {}
  /\ Folded \subseteq Letters
  /\ \A c, e \in Folded : Confusable[c] = Confusable[e] => c = e
ASSUME NamesAssumption

SquatInit ==
  squat \in [target : Popular, name : Popular, edits : {0}, swaps : {0}, seps : {0}, folds : {0}]
  /\ squat.name = squat.target

Cut(s, i) == SubSeq(s, 1, i - 1) \o SubSeq(s, i + 1, Len(s))
Put(s, i, c) == SubSeq(s, 1, i - 1) \o <<c>> \o SubSeq(s, i, Len(s))

Edited(name, swap) ==
  /\ squat.edits < MaxEdits /\ squat.seps = 0 /\ squat.folds = 0
  /\ squat' = [squat EXCEPT !.name = name, !.edits = @ + 1, !.swaps = @ + swap]

Insert == \E i \in 1..(Len(squat.name) + 1), c \in Letters : Edited(Put(squat.name, i, c), 0)
Delete == \E i \in DOMAIN squat.name : Edited(Cut(squat.name, i), 0)
Substitute == \E i \in DOMAIN squat.name, c \in Letters : Edited([squat.name EXCEPT ![i] = c], 0)
Swap ==
  \E i \in 1..(Len(squat.name) - 1) :
    Edited([squat.name EXCEPT ![i] = squat.name[i + 1], ![i + 1] = squat.name[i]], 1)

Separate ==
  /\ squat.edits = 0 /\ squat.folds = 0 /\ squat.seps < MaxLooks
  /\ \E i \in 2..Len(squat.name), c \in Separators :
       squat' = [squat EXCEPT !.name = Put(@, i, c), !.seps = @ + 1]

Imitate ==
  /\ squat.edits = 0 /\ squat.seps = 0 /\ squat.folds < MaxLooks
  /\ \E i \in DOMAIN squat.name :
       /\ squat.name[i] \in Folded
       /\ squat' = [squat EXCEPT !.name[i] = Confusable[@], !.folds = @ + 1]

SquatNext == Insert \/ Delete \/ Substitute \/ Swap \/ Separate \/ Imitate

-----------------------------------------------------------------------------
Least(S) == CHOOSE x \in S : \A y \in S : x <= y

\* Mutated: without the transposition (plain Levenshtein).
Cell_NoSwap(a, b, d, i, j) ==
  Least({d[i - 1][j] + 1, d[i][j - 1] + 1, d[i - 1][j - 1] + (IF a[i] = b[j] THEN 0 ELSE 1)})

\* The cell of the table d for the first i characters of a and j of b.
Cell(a, b, d, i, j) ==
  Least({d[i - 1][j] + 1, d[i][j - 1] + 1, d[i - 1][j - 1] + (IF a[i] = b[j] THEN 0 ELSE 1)}
        \cup (IF i > 1 /\ j > 1 /\ a[i] = b[j - 1] /\ a[i - 1] = b[j]
                 THEN {d[i - 2][j - 2] + 1} ELSE {}))

\* The first row and the first column count up, the rest is to be filled.
Margins(n, m) == [i \in 0..n |-> [j \in 0..m |-> IF j = 0 THEN i ELSE IF i = 0 THEN j ELSE 0]]

FillRow(a, b, d, i) ==
  LET row[j \in 0..Len(b)] ==
        IF j = 0 THEN d
        ELSE LET e == row[j - 1] IN [e EXCEPT ![i] = [e[i] EXCEPT ![j] = Cell(a, b, e, i, j)]]
  IN  row[Len(b)]

osa_distance(a, b) ==
  LET table[i \in 0..Len(a)] ==
        IF i = 0 THEN Margins(Len(a), Len(b)) ELSE FillRow(a, b, table[i - 1], i)
  IN  IF a = <<>> THEN Len(b)
      ELSE IF b = <<>> THEN Len(a)
      ELSE table[Len(a)][Len(a)][Len(b)]

fold_confusables(s) == [i \in DOMAIN s |-> IF s[i] \in Confusables
                                     THEN CHOOSE c \in Folded : Confusable[c] = s[i] ELSE s[i]]

strip_separators(s) ==
  LET kept[i \in 0..Len(s)] ==
        IF i = 0 THEN <<>>
        ELSE IF s[i] \in Separators THEN kept[i - 1] ELSE Append(kept[i - 1], s[i])
  IN  kept[Len(s)]

\* Bytes of a name: the confusables take two.
Bytes(s) == Len(s) + Cardinality({i \in DOMAIN s : s[i] \in Confusables})

\* Mutated: only a name that differs by one character class is folded.
classify_FoldsOne(name, target) ==
  LET d == osa_distance(name, target)
      folded == fold_confusables(name)
      confused == Cardinality({i \in DOMAIN name : name[i] \in Confusables})
  IN  IF confused = 1 /\ folded = target THEN 0
      ELSE IF strip_separators(name) = strip_separators(target) /\ name # target THEN 0
      ELSE IF d = 1 /\ Bytes(target) >= 4 THEN 1
      ELSE IF d = 2 /\ Bytes(target) >= 8 THEN 2
      ELSE 3

\* The rank of the resemblance, 3 for none.
classify(name, target) ==
  LET d == osa_distance(name, target)
      folded == fold_confusables(name)
  IN  IF folded # name /\ folded = target THEN 0
      ELSE IF strip_separators(name) = strip_separators(target) /\ name # target THEN 0
      ELSE IF d = 1 /\ Bytes(target) >= 4 THEN 1
      ELSE IF d = 2 /\ Bytes(target) >= 8 THEN 2
      ELSE 3

Scoped(name) == name # <<>> /\ name[1] = "@"

\* A name that is scoped, shorter than three bytes or popular itself is not looked at.
detect(name) ==
  IF Scoped(name) \/ Bytes(name) < 3 \/ name \in Popular THEN 3
  ELSE Least({classify(name, t) : t \in Popular})

(* Edits are counted by the distance: never more than were made, unless    *)
(* neighbours were swapped and edited again, the same in both directions,  *)
(* at least the difference in length, and none only for the same name.     *)
DistanceCountsEdits ==
  LET d == osa_distance(squat.name, squat.target)
  IN  /\ squat.swaps = 0 \/ squat.edits <= 1 => d <= squat.edits + squat.seps + squat.folds
      /\ d = osa_distance(squat.target, squat.name)
      /\ d >= Len(squat.name) - Len(squat.target) /\ d >= Len(squat.target) - Len(squat.name)
      /\ d = 0 <=> squat.name = squat.target

(* A look-alike is found: one edit away from a target of four bytes, or    *)
(* any number of separators or confusables of the table away, unless it is *)
(* popular too, scoped or too short.                                       *)
LookalikesAreFound ==
  LET s == squat
  IN  s.name \notin Popular /\ Bytes(s.name) >= 3 /\ ~Scoped(s.name) =>
        /\ s.edits = 1 /\ Bytes(s.target) >= 4 => detect(s.name) <= 1
        /\ s.seps > 0 \/ s.folds > 0 => detect(s.name) = 0
=============================================================================
