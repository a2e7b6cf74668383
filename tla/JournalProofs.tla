---------------------------- MODULE JournalProofs ----------------------------
(***************************************************************************)
(* Lemmas about the journal of a session in MCWorkspace, for every value of the *)
(* constants: what its variables hold, what a reader finds in a file that has    *)
(* grown or lost its end, and that no crash reverts a checkpoint.               *)
(***************************************************************************)
EXTENDS MCWorkspace, Integers, Sequences, SequenceTheorems, WellFoundedInduction, TLAPS

(***************************************************************************)
(* The journal of a session: Log is a session that may do what any of the      *)
(* four journals of MCWorkspace may, and more.                                  *)
(***************************************************************************)
Log == INSTANCE SessionJournal WITH MaxJournals <- 2

LEMMA JournalBounds ==
  MaxTurns \in Nat /\ MaxRecords \in Nat /\ MaxEdits \in Nat /\ NoState \notin Log!States
BY JournalsAssumed DEF Journal!BoundsAssumption, Edited!BoundsAssumption, Journal!States, Log!States

(* The values of plugin states so far: versions, none beyond the last edit.  *)
Values == [Owners -> 0..edits]
Entries == [kind : Log!Kinds, parent : Nat, turn : Nat, state : Values]
Shelved == [file : Seq(Entries), synced : Nat, torn : BOOLEAN,
            published : SUBSET Nat, kept : Values]

(* Every record of a journal follows its parent.                             *)
Chained(f, n) == \A i \in 1..n : f[i].parent \in Nat /\ f[i].parent < i

Readable(j) == j.synced <= Len(j.file) /\ Chained(j.file, Len(j.file))

KindOf(op) == CASE op = "commit" -> "commit" [] op = "checkpoint" -> "state" [] op = "select" -> "select"

(* The append in progress is the last record, and not yet synced.            *)
Appending ==
  /\ head = Len(file) /\ io.offset = Len(file) - 1
  /\ synced <= io.offset /\ io.previous <= io.offset /\ committed <= io.offset
  /\ file[head].kind = KindOf(io.op)

DiskOK ==
  /\ file \in Seq(Entries) /\ synced \in Nat /\ torn \in BOOLEAN
  /\ published \in SUBSET Nat /\ kept \in Values
  /\ synced <= Len(file) /\ Chained(file, Len(file))
  /\ shelf \in Seq(Shelved) /\ \A k \in 1..Len(shelf) : Readable(shelf[k])

StoreOK ==
  /\ up \in BOOLEAN /\ failed \in BOOLEAN
  /\ head \in 0..Len(file) /\ committed \in 0..Len(file)
  /\ io \in [op : Log!Operations \cup {"none"}, owner : Owners \cup {"none"}, previous : Nat,
             offset : Nat, history : Seq(Nat), state : Values]
  /\ io.op # "none" => Appending
  /\ io.op = "checkpoint" => io.owner \in Owners
  /\ (io.op = "commit") <=> (phase = "committing")
  /\ io.op = "select" => phase = "idle"
  /\ ~up => io.op = "none" /\ phase = "idle"

ChatOK ==
  /\ history \in Seq(Nat) /\ start \in Seq(Nat)
  /\ live \in Values /\ child \in Values /\ rollback \in Values \cup {NoState}
  /\ owners \subseteq Owners /\ cmd \in Values
  /\ phase \in Log!Phases /\ turn \in Nat
  /\ edits \in 0..MaxEdits /\ turnEdits \subseteq Nat
  /\ phase = "idle" => rollback = NoState
  /\ phase \in {"open", "running", "child", "restored", "undone", "committing"} =>
       rollback # NoState

JournalTypes == DiskOK /\ StoreOK /\ ChatOK

AtLeast(s, t) == \A o \in Owners : s[o] >= t[o]

(* No crash reverts what the plugins have checkpointed in a journal.         *)
Keeps(j) == \A n \in Log!Lengths(j) : AtLeast(Log!StateAt(j, n), j.kept)

(* Memory holds what the plugins checkpointed, but for what a failed restore  *)
(* has put back.                                                             *)
LiveKept == \A o \in Owners : Log!Undone(o) \/ live[o] >= kept[o]

MemoryKept ==
  /\ up => LiveKept
  /\ rollback # NoState => AtLeast(rollback, kept)
  /\ phase \in {"child", "restored"} => \A o \in Owners \ owners : child[o] >= kept[o]
  /\ io.op = "checkpoint" => file[head].state[io.owner] <= live[io.owner]
  /\ io.op = "select" => AtLeast(io.state, kept)

KeptInv ==
  /\ Keeps(Log!Journal)
  /\ \A k \in 1..Len(shelf) : Keeps(shelf[k])
  /\ MemoryKept

Turns(f, h) == {Log!HistoryOf(f, h)[i] : i \in DOMAIN Log!HistoryOf(f, h)}

(* Where the working branch is: a checkpoint and a selection in progress     *)
(* leave it where it was.                                                    *)
Work == IF io.op \in {"checkpoint", "select"} THEN io.previous ELSE head

(* What has been published, and the turn that is about to be.                *)
Promised == IF phase = "committed" THEN published \cup {turn} ELSE published

Holds(j) == \A n \in Log!Lengths(j) : j.published \subseteq Turns(j.file, Log!Selected(j.file, n))
HoldsOpen == \A n \in Log!Lengths(Log!Journal) : Promised \subseteq Turns(file, Log!Selected(file, n))

MemoryHolds ==
  /\ up => Promised \subseteq Turns(file, committed) /\ Promised \subseteq Turns(file, Work)
  /\ up /\ io.op = "commit" => published \subseteq Turns(file, io.previous)
  /\ io.op = "checkpoint" => file[head].parent = committed
  /\ phase = "open" => history = start
  /\ phase = "running" /\ history # start => turn \in Turns(file, Work)
  /\ phase = "committing" => turn \in Turns(file, head)

PublishedInv == HoldsOpen /\ (\A k \in 1..Len(shelf) : Holds(shelf[k])) /\ MemoryHolds

(* Memory, but for what a pending command has changed, is record h.          *)
Matches(s, h) == \A o \in Owners : cmd[o] = 0 => s[o] = Log!StateOf(file, h)[o]

Level == io.op = "none" => committed = Log!Selected(file, Len(file))

Quiet ==
  rollback = NoState /\ io.op # "select" =>
    Work = committed /\ history = Log!HistoryOf(file, committed) /\ Matches(live, committed)

Undo ==
  rollback # NoState /\ phase # "committing" =>
    start = Log!HistoryOf(file, committed) /\ Matches(rollback, committed)

Spoken ==
  /\ phase \in {"open", "running", "child"} => history = Log!HistoryOf(file, Work)
  /\ phase = "restored" => history = Append(Log!HistoryOf(file, Work), turn)
  /\ phase = "committing" => history = Log!HistoryOf(file, head) /\ Matches(live, head)

Pending ==
  /\ io.op = "select" =>
       history = Log!HistoryOf(file, file[head].parent) /\ Matches(live, file[head].parent)
  /\ io.op = "checkpoint" =>
       /\ cmd[io.owner] # 0
       /\ rollback = NoState => Matches(live, head) /\ live[io.owner] = file[head].state[io.owner]

DurableInv ==
  /\ up /\ ~failed => Level /\ Quiet /\ Undo /\ Spoken /\ Pending
  /\ up /\ io.op # "none" => ~failed

(* No record is of a later turn, and nothing of the open one can be selected *)
(* but what a command has changed.                                           *)
Numbered(f, t) == \A i \in 1..Len(f) : f[i].turn <= t

Apart ==
  rollback # NoState /\ phase # "committing" /\ ~failed =>
    /\ turn \notin Turns(file, committed)
    /\ \A o \in Owners : rollback[o] \in turnEdits => o \in owners
    /\ \A n \in Log!Lengths(Log!Journal) :
         /\ turn \notin Turns(file, Log!Selected(file, n))
         /\ \A o \in Owners : Log!StateOf(file, Log!Selected(file, n))[o] \in turnEdits =>
               o \in owners \/ (io.op = "checkpoint" /\ o = io.owner)

PrivateInv ==
  /\ Numbered(file, turn) /\ \A k \in 1..Len(shelf) : Numbered(shelf[k].file, turn)
  /\ turnEdits \subseteq 1..edits
  /\ Apart

-----------------------------------------------------------------------------
LEMMA Least ==
  ASSUME NEW T, T \subseteq Nat, T # {}
  PROVE  \E x \in T : \A y \in T : x <= y
<1> DEFINE R == OpToRel(<, Nat)
<1>1. R = {ss \in Nat \X Nat : ss[1] < ss[2]}
  BY DEF OpToRel
<1>2. IsWellFoundedOn(R, Nat)
  BY NatLessThanWellFounded
<1> HIDE DEF R
<1>3. ASSUME NEW x \in Nat, NEW y \in Nat, x < y
      PROVE  <<x, y>> \in R
  BY <1>1, <1>3
<1>4. PICK x \in T : \A y \in T : ~ (<<y, x>> \in R)
  BY <1>2, WFMin, Zenon
<1>5. ASSUME NEW y \in T PROVE x <= y
  <2>1. x \in Nat /\ y \in Nat
    OBVIOUS
  <2>2. ~ (y < x)
    <3>1. y < x => <<y, x>> \in R
      BY <2>1, <1>3
    <3>2. QED
      BY <1>4, <3>1
  <2>3. QED
    BY <2>1, <2>2
<1>6. QED
  BY <1>5

LEMMA Greatest ==
  ASSUME NEW n \in Nat, NEW T, T \subseteq 1..n, T # {}
  PROVE  \E m \in T : \A k \in T : k <= m
<1> DEFINE D == {n - i : i \in T}
<1>1. D \subseteq Nat
  OBVIOUS
<1>2. D # {}
  OBVIOUS
<1> HIDE DEF D
<1>3. PICK x \in D : \A y \in D : x <= y
  BY <1>1, <1>2, Least
<1>4. PICK m \in T : x = n - m
  BY DEF D
<1>5. ASSUME NEW k \in T PROVE k <= m
  <2>1. n - k \in D
    BY DEF D
  <2>2. n - m <= n - k
    BY <1>3, <1>4, <2>1
  <2>3. m \in Int /\ k \in Int
    OBVIOUS
  <2>4. QED
    BY <2>2, <2>3
<1>6. QED
  BY <1>5

(* What _load selects: nothing if nothing was selected, otherwise the last   *)
(* selection, or what it points at.                                          *)
LEMMA SelectedIs ==
  ASSUME NEW f, NEW n \in Nat
  PROVE  \/ /\ \A i \in 1..n : f[i].kind \notin Log!Selections
            /\ Log!Selected(f, n) = 0
         \/ \E i \in 1..n :
              /\ f[i].kind \in Log!Selections
              /\ \A k \in 1..n : f[k].kind \in Log!Selections => k <= i
              /\ Log!Selected(f, n) = IF f[i].kind = "select" THEN f[i].parent ELSE i
<1> DEFINE made == {i \in 1..n : f[i].kind \in Log!Selections}
           last == CHOOSE i \in made : \A k \in made : k <= i
<1>1. Log!Selected(f, n) = IF made = {} THEN 0
        ELSE IF f[last].kind = "select" THEN f[last].parent ELSE last
  BY DEF Log!Selected
<1>2. CASE made = {}
  BY <1>1, <1>2
<1>3. CASE made # {}
  <2>1. made \subseteq 1..n
    OBVIOUS
  <2>2. \E i \in made : \A k \in made : k <= i
    BY <1>3, <2>1, Greatest
  <2>3. last \in made /\ \A k \in made : k <= last
    BY <2>2
  <2>4. QED
    BY <1>1, <1>3, <2>3
<1>4. QED
  BY <1>2, <1>3

(* Selection depends on the records before it only.                          *)
LEMMA SelectedSame ==
  ASSUME NEW f, NEW g, NEW n \in Nat, \A i \in 1..n : f[i] = g[i]
  PROVE  Log!Selected(f, n) = Log!Selected(g, n)
<1>1. \A i \in 1..n : (f[i].kind \in Log!Selections) = (g[i].kind \in Log!Selections)
  OBVIOUS
<1>2. CASE \A i \in 1..n : f[i].kind \notin Log!Selections
  BY <1>1, <1>2, SelectedIs
<1>3. CASE ~ \A i \in 1..n : f[i].kind \notin Log!Selections
  <2>1. PICK i \in 1..n :
              /\ f[i].kind \in Log!Selections
              /\ \A k \in 1..n : f[k].kind \in Log!Selections => k <= i
              /\ Log!Selected(f, n) = IF f[i].kind = "select" THEN f[i].parent ELSE i
    BY <1>3, SelectedIs
  <2>2. PICK j \in 1..n :
              /\ g[j].kind \in Log!Selections
              /\ \A k \in 1..n : g[k].kind \in Log!Selections => k <= j
              /\ Log!Selected(g, n) = IF g[j].kind = "select" THEN g[j].parent ELSE j
    BY <1>1, <1>3, SelectedIs
  <2>3. i = j
    BY <1>1, <2>1, <2>2
  <2>4. QED
    BY <2>1, <2>2, <2>3
<1>4. QED
  BY <1>2, <1>3

LEMMA SelectedRange ==
  ASSUME NEW f, NEW n \in Nat, \A i \in 1..n : f[i].parent \in Nat /\ f[i].parent < i
  PROVE  Log!Selected(f, n) \in 0..n
BY SelectedIs

LEMMA SelectedEmpty == ASSUME NEW f PROVE Log!Selected(f, 0) = 0
<1>1. \A i \in 1..0 : FALSE
  OBVIOUS
<1>2. QED
  BY <1>1, SelectedIs

LEMMA SelectedNext ==
  ASSUME NEW f, NEW n \in Nat
  PROVE  Log!Selected(f, n + 1) =
           IF f[n + 1].kind = "select" THEN f[n + 1].parent
           ELSE IF f[n + 1].kind \in Log!Selections THEN n + 1 ELSE Log!Selected(f, n)
<1> DEFINE Last(m, i) == /\ f[i].kind \in Log!Selections
                         /\ \A k \in 1..m : f[k].kind \in Log!Selections => k <= i
           Points(i) == IF f[i].kind = "select" THEN f[i].parent ELSE i
<1>1. \A m \in Nat : \/ (\A i \in 1..m : f[i].kind \notin Log!Selections) /\ Log!Selected(f, m) = 0
                     \/ \E i \in 1..m : Last(m, i) /\ Log!Selected(f, m) = Points(i)
  BY SelectedIs
<1>2. n + 1 \in Nat /\ 1..(n + 1) = 1..n \cup {n + 1}
  OBVIOUS
<1>3. CASE f[n + 1].kind \in Log!Selections
  <2>1. PICK i \in 1..(n + 1) : Last(n + 1, i) /\ Log!Selected(f, n + 1) = Points(i)
    BY <1>1, <1>2, <1>3
  <2>2. i = n + 1
    <3>1. n + 1 <= i
      BY <1>2, <1>3, <2>1
    <3>2. QED
      BY <3>1
  <2>3. QED
    BY <1>3, <2>1, <2>2
<1>4. CASE f[n + 1].kind \notin Log!Selections
  <2>1. CASE \A i \in 1..n : f[i].kind \notin Log!Selections
    <3>1. \A i \in 1..(n + 1) : f[i].kind \notin Log!Selections
      BY <1>2, <1>4, <2>1
    <3>2. Log!Selected(f, n + 1) = 0 /\ Log!Selected(f, n) = 0
      BY <1>1, <1>2, <2>1, <3>1
    <3>3. QED
      BY <1>4, <3>2 DEF Log!Selections
  <2>2. CASE ~ \A i \in 1..n : f[i].kind \notin Log!Selections
    <3>1. PICK i \in 1..n : Last(n, i) /\ Log!Selected(f, n) = Points(i)
      BY <1>1, <2>2
    <3>2. PICK j \in 1..(n + 1) : Last(n + 1, j) /\ Log!Selected(f, n + 1) = Points(j)
      BY <1>1, <1>2, <2>2
    <3>3. j \in 1..n
      BY <1>2, <1>4, <3>2
    <3>4. i = j
      <4>1. j <= i /\ i <= j
        BY <1>2, <3>1, <3>2, <3>3
      <4>2. QED
        BY <4>1
    <3>5. QED
      BY <1>4, <3>1, <3>2, <3>4 DEF Log!Selections
  <2>3. QED
    BY <2>1, <2>2
<1>5. QED
  BY <1>3, <1>4

(* A history is what its parents hold: the chain from a record to the first.  *)
Link(f, c, i) == IF i = 0 THEN <<>>
                 ELSE IF f[i].kind = "message" THEN Append(c[f[i].parent], f[i].turn)
                 ELSE c[f[i].parent]

LEMMA ChainExists ==
  ASSUME NEW f, NEW n \in Nat, Chained(f, n)
  PROVE  \E c : c = [i \in 0..n |-> Link(f, c, i)]
<1> DEFINE Has(m) == \E c : DOMAIN c = 0..m /\ \A i \in 0..m : c[i] = Link(f, c, i)
           Bad == {m \in 0..n : ~ Has(m)}
<1>1. Bad = {}
  <2> SUFFICES ASSUME Bad # {} PROVE FALSE
    OBVIOUS
  <2>1. PICK m \in Bad : \A k \in Bad : m <= k
    <3>1. Bad \subseteq Nat
      OBVIOUS
    <3> HIDE DEF Bad
    <3>2. QED
      BY <3>1, Least
  <2>2. m # 0
    <3> DEFINE c == [i \in 0..0 |-> <<>>]
    <3>1. DOMAIN c = 0..0 /\ \A i \in 0..0 : c[i] = Link(f, c, i)
      BY DEF Link
    <3>2. Has(0)
      BY <3>1
    <3>3. QED
      BY <3>2
  <2>3. m - 1 \in 0..n /\ m \in 1..n /\ m - 1 \notin Bad
    BY <2>1, <2>2
  <2>4. PICK c : DOMAIN c = 0..(m - 1) /\ \A i \in 0..(m - 1) : c[i] = Link(f, c, i)
    BY <2>3
  <2> DEFINE d == [i \in 0..m |-> IF i < m THEN c[i] ELSE Link(f, c, m)]
  <2>5. \A i \in 0..(m - 1) : d[i] = c[i]
    BY <2>3
  <2>6. \A i \in 1..m : f[i].parent \in 0..(m - 1)
    BY <2>3 DEF Chained
  <2>7. d[m] = Link(f, c, m)
    BY <2>3
  <2>8. DOMAIN d = 0..m
    OBVIOUS
  <2> HIDE DEF d
  <2>9. \A i \in 0..m : Link(f, c, i) = Link(f, d, i)
    BY <2>5, <2>6 DEF Link
  <2>10. \A i \in 0..m : d[i] = Link(f, d, i)
    BY <2>3, <2>4, <2>5, <2>7, <2>9
  <2>11. Has(m)
    BY <2>8, <2>10
  <2>12. QED
    BY <2>11
<1>2. PICK c : DOMAIN c = 0..n /\ \A i \in 0..n : c[i] = Link(f, c, i)
  BY <1>1
<1>3. QED
  <2> DEFINE d == [i \in 0..n |-> c[i]]
  <2>1. \A i \in 0..n : Link(f, c, i) = Link(f, d, i)
    <3>1. \A i \in 1..n : f[i].parent \in 0..n
      BY DEF Chained
    <3>2. QED
      BY <3>1 DEF Link
  <2>2. d = [i \in 0..n |-> Link(f, c, i)]
    BY <1>2
  <2>3. d = [i \in 0..n |-> Link(f, d, i)]
    <3> HIDE DEF d
    <3>1. QED
      BY <2>1, <2>2, Zenon
  <2>4. QED
    BY <2>3

LEMMA HistoryChain ==
  ASSUME NEW f, Len(f) \in Nat, Chained(f, Len(f))
  PROVE  /\ Log!HistoryOf(f, 0) = <<>>
         /\ \A h \in 1..Len(f) : Log!HistoryOf(f, h) =
              IF f[h].kind = "message" THEN Append(Log!HistoryOf(f, f[h].parent), f[h].turn)
              ELSE Log!HistoryOf(f, f[h].parent)
<1> DEFINE c == CHOOSE c : c = [i \in 0..Len(f) |->
                   IF i = 0 THEN <<>>
                   ELSE IF f[i].kind = "message" THEN Append(c[f[i].parent], f[i].turn)
                   ELSE c[f[i].parent]]
<1>1. \A h : Log!HistoryOf(f, h) = c[h]
  BY DEF Log!HistoryOf
<1>2. \E d : d = [i \in 0..Len(f) |->
                   IF i = 0 THEN <<>>
                   ELSE IF f[i].kind = "message" THEN Append(d[f[i].parent], f[i].turn)
                   ELSE d[f[i].parent]]
  BY ChainExists DEF Link
<1>3. c = [i \in 0..Len(f) |->
             IF i = 0 THEN <<>>
             ELSE IF f[i].kind = "message" THEN Append(c[f[i].parent], f[i].turn)
             ELSE c[f[i].parent]]
  BY <1>2
<1> HIDE DEF c
<1>4. c[0] = <<>>
  <2>1. 0 \in 0..Len(f)
    OBVIOUS
  <2>2. c[0] = IF 0 = 0 THEN <<>>
             ELSE IF f[0].kind = "message" THEN Append(c[f[0].parent], f[0].turn)
             ELSE c[f[0].parent]
    BY <1>3, <2>1, Zenon
  <2>3. QED
    BY <2>2
<1>5. \A h \in 1..Len(f) : c[h] =
             IF f[h].kind = "message" THEN Append(c[f[h].parent], f[h].turn)
             ELSE c[f[h].parent]
  <2> TAKE h \in 1..Len(f)
  <2>1. h \in 0..Len(f) /\ h # 0
    OBVIOUS
  <2>2. c[h] = IF h = 0 THEN <<>>
             ELSE IF f[h].kind = "message" THEN Append(c[f[h].parent], f[h].turn)
             ELSE c[f[h].parent]
    BY <1>3, <2>1, Zenon
  <2>3. QED
    BY <2>1, <2>2
<1>6. QED
  BY <1>1, <1>4, <1>5

(* A history depends on the records of its chain only, all before its head.   *)
LEMMA HistorySame ==
  ASSUME NEW f, NEW g, NEW n \in Nat, Len(f) \in Nat, Len(g) \in Nat,
         Chained(f, Len(f)), Chained(g, Len(g)), n <= Len(f), n <= Len(g),
         \A i \in 1..n : f[i] = g[i], NEW h \in 0..n
  PROVE  Log!HistoryOf(f, h) = Log!HistoryOf(g, h)
<1> DEFINE Bad == {m \in 0..n : Log!HistoryOf(f, m) # Log!HistoryOf(g, m)}
<1>1. Bad = {}
  <2> SUFFICES ASSUME Bad # {} PROVE FALSE
    OBVIOUS
  <2>1. PICK m \in Bad : \A k \in Bad : m <= k
    <3>1. Bad \subseteq Nat
      OBVIOUS
    <3> HIDE DEF Bad
    <3>2. QED
      BY <3>1, Least
  <2>2. m # 0
    BY HistoryChain
  <2>3. m \in 1..n /\ m \in 1..Len(f) /\ m \in 1..Len(g)
    BY <2>2
  <2>4. f[m].parent \in 0..n /\ f[m].parent \notin Bad /\ f[m] = g[m]
    BY <2>1, <2>3 DEF Chained
  <2>5. Log!HistoryOf(f, f[m].parent) = Log!HistoryOf(g, f[m].parent)
    BY <2>4
  <2>6. Log!HistoryOf(f, m) = Log!HistoryOf(g, m)
    <3>1. Log!HistoryOf(f, m) = IF f[m].kind = "message" THEN Append(Log!HistoryOf(f, f[m].parent), f[m].turn)
              ELSE Log!HistoryOf(f, f[m].parent)
      BY <2>3, HistoryChain
    <3>2. Log!HistoryOf(g, m) = IF g[m].kind = "message" THEN Append(Log!HistoryOf(g, g[m].parent), g[m].turn)
              ELSE Log!HistoryOf(g, g[m].parent)
      BY <2>3, HistoryChain
    <3>3. QED
      <4>1. g[m] = f[m]
        BY <2>4
      <4>2. Log!HistoryOf(g, m) = IF f[m].kind = "message" THEN Append(Log!HistoryOf(g, f[m].parent), f[m].turn)
              ELSE Log!HistoryOf(g, f[m].parent)
        BY <3>2, <4>1, Zenon
      <4>3. QED
        BY <2>5, <3>1, <4>2
  <2>7. QED
    BY <2>6
<1>2. QED
  BY <1>1

(* The turns in a history are turns of messages of the journal.              *)
LEMMA HistoryTurns ==
  ASSUME NEW f, Len(f) \in Nat, Chained(f, Len(f)), NEW S,
         \A i \in 1..Len(f) : f[i].turn \in S, NEW h \in 0..Len(f)
  PROVE  Log!HistoryOf(f, h) \in Seq(S)
<1> DEFINE Bad == {m \in 0..Len(f) : Log!HistoryOf(f, m) \notin Seq(S)}
<1>1. Bad = {}
  <2> SUFFICES ASSUME Bad # {} PROVE FALSE
    OBVIOUS
  <2>1. PICK m \in Bad : \A k \in Bad : m <= k
    <3>1. Bad \subseteq Nat
      OBVIOUS
    <3> HIDE DEF Bad
    <3>2. QED
      BY <3>1, Least
  <2>2. m # 0
    <3>1. Log!HistoryOf(f, 0) = <<>>
      BY HistoryChain
    <3>2. <<>> \in Seq(S)
      OBVIOUS
    <3>3. QED
      BY <3>1, <3>2
  <2>3. m \in 1..Len(f)
    BY <2>2
  <2>4. f[m].parent \in 0..Len(f) /\ f[m].parent \notin Bad
    BY <2>1, <2>3 DEF Chained
  <2>5. Log!HistoryOf(f, f[m].parent) \in Seq(S)
    BY <2>4
  <2>6. Append(Log!HistoryOf(f, f[m].parent), f[m].turn) \in Seq(S)
    BY <2>3, <2>5
  <2>7. Log!HistoryOf(f, m) \in Seq(S)
    <3>1. Log!HistoryOf(f, m) = IF f[m].kind = "message" THEN Append(Log!HistoryOf(f, f[m].parent), f[m].turn)
              ELSE Log!HistoryOf(f, f[m].parent)
      BY <2>3, HistoryChain
    <3>2. QED
      BY <2>5, <2>6, <3>1
  <2>8. QED
    BY <2>7
<1>2. QED
  BY <1>1

-----------------------------------------------------------------------------
(* Types.                                                                    *)

LEMMA Bounds ==
  /\ MaxEdits \in Nat
  /\ edits \in 0..MaxEdits => Values \subseteq Log!States /\ NoState \notin Values
BY JournalBounds DEF Values, Log!States

LEMMA BlankValue == edits \in Nat => Log!Blank \in Values
BY DEF Log!Blank, Values

LEMMA Grown ==
  ASSUME edits \in Nat, edits' \in Nat, edits <= edits'
  PROVE  /\ Values \subseteq Values' /\ Entries \subseteq Entries'
         /\ Seq(Entries) \subseteq Seq(Entries') /\ Shelved \subseteq Shelved'
         /\ Seq(Shelved) \subseteq Seq(Shelved')
<1>1. Values \subseteq Values'
  BY DEF Values
<1>2. Entries \subseteq Entries'
  BY <1>1 DEF Entries
<1>3. \A S, T : S \subseteq T => Seq(S) \subseteq Seq(T)
  BY SeqMonotonic
<1>4. Shelved \subseteq Shelved'
  BY <1>1, <1>2, <1>3, Zenon DEF Shelved
<1>5. QED
  BY <1>1, <1>2, <1>3, <1>4

(* Records are appended, or cut off at a length.                             *)
LEMMA Appended ==
  ASSUME NEW S, NEW f \in Seq(S), NEW r \in S
  PROVE  /\ Append(f, r) \in Seq(S) /\ Len(Append(f, r)) = Len(f) + 1 /\ Len(f) \in Nat
         /\ \A i \in 1..Len(f) : Append(f, r)[i] = f[i]
         /\ Append(f, r)[Len(f) + 1] = r
OBVIOUS

LEMMA CutOff ==
  ASSUME NEW S, NEW f \in Seq(S), NEW n \in 0..Len(f)
  PROVE  /\ SubSeq(f, 1, n) \in Seq(S) /\ Len(SubSeq(f, 1, n)) = n
         /\ \A i \in 1..n : SubSeq(f, 1, n)[i] = f[i]
<1>1. \A i \in 1..n : f[i] \in S
  OBVIOUS
<1>2. QED
  BY <1>1, SubSeqProperties

LEMMA ChainAppended ==
  ASSUME NEW f \in Seq(Entries), NEW r \in Entries, Chained(f, Len(f)), r.parent <= Len(f)
  PROVE  Chained(Append(f, r), Len(Append(f, r)))
BY Appended DEF Chained, Entries

LEMMA ChainCut ==
  ASSUME NEW f \in Seq(Entries), NEW n \in 0..Len(f), Chained(f, Len(f))
  PROVE  Chained(SubSeq(f, 1, n), Len(SubSeq(f, 1, n)))
BY CutOff DEF Chained

LEMMA RecordTyped ==
  ASSUME NEW kind \in Log!Kinds, NEW parent \in Nat, NEW state \in Values, turn \in Nat
  PROVE  /\ Log!Record(kind, parent, state) \in Entries
         /\ Log!Record(kind, parent, state).kind = kind
         /\ Log!Record(kind, parent, state).parent = parent
         /\ Log!Record(kind, parent, state).turn = turn
         /\ Log!Record(kind, parent, state).state = state
BY DEF Log!Record, Entries

(* What the parts of the state rest on.                                      *)
LEMMA DiskSame ==
  ASSUME DiskOK, UNCHANGED <<Log!diskVars, Log!keptVars>>, edits \in Nat, edits' \in Nat,
         edits <= edits'
  PROVE  DiskOK'
<1>1. file' \in Seq(Entries') /\ kept' \in Values' /\ shelf' \in Seq(Shelved')
  BY Grown, Zenon DEF DiskOK, Log!diskVars, Log!keptVars
<1>2. QED
  BY <1>1 DEF DiskOK, Log!diskVars, Log!keptVars, Readable, Chained

LEMMA StoreSame ==
  ASSUME StoreOK, UNCHANGED <<file, synced, Log!storeVars, phase>>, edits \in Nat, edits' \in Nat,
         edits <= edits'
  PROVE  StoreOK'
<1>1. io'.state \in Values'
  BY Grown DEF StoreOK, Log!storeVars
<1>2. QED
  BY <1>1 DEF StoreOK, Log!storeVars, Appending

(* One record more, or the records up to a length.                           *)
LEMMA DiskAppended ==
  ASSUME DiskOK, NEW r \in Entries, r.parent <= Len(file), file' = Append(file, r),
         UNCHANGED <<synced, torn, shelf, edits>>, published' \in SUBSET Nat, kept' \in Values
  PROVE  /\ DiskOK' /\ Len(file') = Len(file) + 1 /\ Len(file) \in Nat /\ file'[Len(file) + 1] = r
         /\ \A i \in 1..Len(file) : file'[i] = file[i]
<1>1. /\ file' \in Seq(Entries) /\ Len(file') = Len(file) + 1 /\ Len(file) \in Nat
      /\ file'[Len(file) + 1] = r /\ \A i \in 1..Len(file) : file'[i] = file[i]
  BY Appended DEF DiskOK
<1>2. Chained(file', Len(file'))
  BY ChainAppended DEF DiskOK
<1>3. Entries' = Entries /\ Values' = Values /\ Shelved' = Shelved
  BY DEF Entries, Values, Shelved
<1>4. DiskOK'
  BY <1>1, <1>2, <1>3 DEF DiskOK, Readable, Chained
<1>5. QED
  BY <1>1, <1>4

LEMMA DiskCut ==
  ASSUME DiskOK, NEW n \in synced..Len(file), file' = SubSeq(file, 1, n),
         UNCHANGED <<synced, shelf, Log!keptVars, edits>>, torn' \in BOOLEAN
  PROVE  DiskOK' /\ Len(file') = n /\ \A i \in 1..n : file'[i] = file[i]
<1>1. n \in 0..Len(file)
  BY DEF DiskOK
<1>2. file' \in Seq(Entries) /\ Len(file') = n /\ \A i \in 1..n : file'[i] = file[i]
  BY <1>1, CutOff DEF DiskOK
<1>3. Chained(file', Len(file'))
  BY <1>1, ChainCut DEF DiskOK
<1>4. Entries' = Entries /\ Values' = Values /\ Shelved' = Shelved
  BY DEF Entries, Values, Shelved
<1>5. DiskOK'
  BY <1>2, <1>3, <1>4 DEF DiskOK, Readable, Chained, Log!keptVars
<1>6. QED
  BY <1>2, <1>5

(* A durable append.                                                         *)
LEMMA BeginTypes ==
  ASSUME JournalTypes, NEW op \in Log!Operations, NEW owner \in Owners \cup {"none"},
         NEW parent \in 0..Len(file), NEW state \in Values,
         Log!BeginAppend(op, owner, KindOf(op), parent, state),
         op = "checkpoint" => owner \in Owners,
         op = "commit" <=> phase' = "committing", op = "select" => phase' = "idle",
         UNCHANGED edits, published' \in SUBSET Nat, kept' \in Values
  PROVE  /\ DiskOK' /\ StoreOK'
         /\ Len(file') = Len(file) + 1 /\ Len(file) \in Nat
         /\ \A i \in 1..Len(file) : file'[i] = file[i]
         /\ file'[head'] = Log!Record(KindOf(op), parent, state)
<1> DEFINE r == Log!Record(KindOf(op), parent, state)
<1>1. KindOf(op) \in Log!Kinds /\ turn \in Nat /\ parent \in Nat
  BY DEF KindOf, Log!Operations, Log!Kinds, Log!Selections, JournalTypes, ChatOK, DiskOK
<1>2. r \in Entries /\ r.parent = parent /\ r.kind = KindOf(op)
  BY <1>1, RecordTyped
<1> HIDE DEF r
<1>3. /\ DiskOK' /\ Len(file') = Len(file) + 1 /\ Len(file) \in Nat /\ file'[Len(file) + 1] = r
      /\ \A i \in 1..Len(file) : file'[i] = file[i]
  <2>1. DiskOK /\ r.parent <= Len(file) /\ file' = Append(file, r)
        /\ UNCHANGED <<synced, torn, shelf, edits>>
    BY <1>2 DEF JournalTypes, Log!BeginAppend, r
  <2>2. QED
    BY <1>2, <2>1, DiskAppended
<1>4. head' = Len(file) + 1
  BY DEF Log!BeginAppend
<1>5. io' = [op |-> op, owner |-> owner, previous |-> head, offset |-> Len(file),
              history |-> history, state |-> live]
  BY DEF Log!BeginAppend
<1>6. Appending'
  BY <1>2, <1>3, <1>4, <1>5 DEF Appending, Log!BeginAppend, JournalTypes, StoreOK, DiskOK
<1>7. io' \in [op : Log!Operations \cup {"none"}, owner : Owners \cup {"none"}, previous : Nat,
             offset : Nat, history : Seq(Nat), state : Values']
  <2>1. Values' = Values /\ live \in Values /\ history \in Seq(Nat) /\ head \in Nat
    BY <1>3 DEF Values, JournalTypes, ChatOK, StoreOK
  <2>2. QED
    BY <1>3, <1>5, <2>1
<1>8. StoreOK'
  <2>1. up' = TRUE /\ failed' \in BOOLEAN /\ committed' \in 0..Len(file')
        /\ head' \in 0..Len(file')
    BY <1>3, <1>4 DEF Log!BeginAppend, Log!Free, JournalTypes, StoreOK
  <2>2. io'.op = op /\ io'.owner = owner /\ op # "none"
    BY <1>5 DEF Log!Operations
  <2>3. QED
    BY <1>6, <1>7, <2>1, <2>2 DEF StoreOK
<1>9. QED
  BY <1>3, <1>4, <1>8 DEF r

LEMMA SyncedTypes ==
  ASSUME JournalTypes, NEW op \in Log!Operations, Log!Synced(op), UNCHANGED edits,
         published' \in SUBSET Nat, kept' \in Values, head' \in 0..Len(file),
         committed' \in 0..Len(file),
         phase' # "committing"
  PROVE  DiskOK' /\ StoreOK'
<1>1. Entries' = Entries /\ Values' = Values /\ Shelved' = Shelved
  BY DEF Entries, Values, Shelved
<1>2. DiskOK'
  BY <1>1 DEF JournalTypes, DiskOK, Readable, Chained, Log!Synced
<1>3. io'.op = "none"
      /\ io' \in [op : Log!Operations \cup {"none"}, owner : Owners \cup {"none"}, previous : Nat,
             offset : Nat, history : Seq(Nat), state : Values']
  <2>1. Log!Blank \in Values'
    BY <1>1, BlankValue DEF JournalTypes, ChatOK
  <2>2. QED
    BY <2>1 DEF Log!Synced, Log!NoIo
<1>4. StoreOK'
  BY <1>3 DEF StoreOK, JournalTypes, Log!Synced
<1>5. QED
  BY <1>2, <1>4

LEMMA FailedTypes ==
  ASSUME JournalTypes, NEW op \in Log!Operations, Log!AppendFailed(op),
         UNCHANGED <<edits, Log!keptVars>>,
         phase' = IF op = "commit" THEN "finishing" ELSE phase
  PROVE  /\ DiskOK' /\ StoreOK' /\ Appending
         /\ Len(file') \in io.offset..Len(file) /\ \A i \in 1..Len(file') : file'[i] = file[i]
<1>1. Appending /\ io.op = op /\ io.op # "none"
  BY DEF JournalTypes, StoreOK, Log!AppendFailed, Log!Operations
<1>2. io.offset \in synced..Len(file) /\ io.previous \in 0..io.offset
      /\ committed \in 0..io.offset
  BY <1>1 DEF Appending, JournalTypes, StoreOK, DiskOK
<1>3. DiskOK' /\ Len(file') \in io.offset..Len(file)
      /\ \A i \in 1..Len(file') : file'[i] = file[i]
  <2>1. CASE UNCHANGED <<file, torn>>
    <3>1. UNCHANGED <<Log!diskVars, Log!keptVars>>
      BY <2>1 DEF Log!AppendFailed, Log!diskVars
    <3>2. QED
      BY <1>2, <3>1, DiskSame DEF JournalTypes, ChatOK, Log!diskVars, DiskOK
  <2>2. CASE file' = SubSeq(file, 1, io.offset) /\ torn' \in BOOLEAN
    <3>1. UNCHANGED <<synced, shelf, Log!keptVars, edits>> /\ DiskOK
      BY DEF Log!AppendFailed, JournalTypes
    <3>2. DiskOK' /\ Len(file') = io.offset /\ \A i \in 1..io.offset : file'[i] = file[i]
      BY <1>2, <2>2, <3>1, DiskCut, Zenon
    <3>3. io.offset \in Nat
      BY DEF JournalTypes, StoreOK
    <3>4. QED
      BY <1>2, <3>2, <3>3
  <2>3. QED
    BY <2>1, <2>2 DEF Log!AppendFailed
<1>4. io'.op = "none"
      /\ io' \in [op : Log!Operations \cup {"none"}, owner : Owners \cup {"none"}, previous : Nat,
             offset : Nat, history : Seq(Nat), state : Values']
  <2>1. Log!Blank \in Values'
    BY BlankValue DEF JournalTypes, ChatOK, Values
  <2>2. QED
    BY <2>1 DEF Log!AppendFailed, Log!NoIo
<1>5. StoreOK'
  <2>1. up' = TRUE /\ failed' = TRUE /\ head' \in 0..Len(file') /\ committed' \in 0..Len(file')
    BY <1>2, <1>3 DEF Log!AppendFailed, JournalTypes, StoreOK
  <2>2. phase' # "committing"
    BY <1>1 DEF JournalTypes, StoreOK
  <2>3. QED
    BY <1>4, <2>1, <2>2 DEF StoreOK
<1>6. QED
  BY <1>1, <1>3, <1>5

LEMMA RecordTypes ==
  ASSUME JournalTypes, NEW kind \in {"start", "message"}, Log!AppendRecord(kind),
         UNCHANGED <<edits, Log!keptVars>>,
         phase' \in Log!Phases, phase' # "committing", phase # "idle"
  PROVE  /\ DiskOK' /\ StoreOK'
         /\ Len(file') = Len(file) + 1 /\ Len(file) \in Nat
         /\ \A i \in 1..Len(file) : file'[i] = file[i]
         /\ file'[head'] = Log!Record(kind, head, Log!Blank)
<1> DEFINE r == Log!Record(kind, head, Log!Blank)
<1>1. kind \in Log!Kinds /\ turn \in Nat /\ head \in Nat /\ Log!Blank \in Values
      /\ head <= Len(file)
  BY BlankValue DEF Log!Kinds, JournalTypes, ChatOK, StoreOK, DiskOK
<1>2. r \in Entries /\ r.parent = head
  BY <1>1, RecordTyped
<1> HIDE DEF r
<1>3. /\ DiskOK' /\ Len(file') = Len(file) + 1 /\ Len(file) \in Nat /\ file'[Len(file) + 1] = r
      /\ \A i \in 1..Len(file) : file'[i] = file[i]
  <2>1. DiskOK /\ r.parent <= Len(file) /\ file' = Append(file, r)
        /\ UNCHANGED <<synced, torn, shelf, edits>>
    BY <1>1, <1>2 DEF JournalTypes, Log!AppendRecord, r
  <2>2. published' \in SUBSET Nat /\ kept' \in Values
    BY DEF JournalTypes, DiskOK, Log!keptVars
  <2>3. QED
    BY <1>2, <2>1, <2>2, DiskAppended
<1>4. head' = Len(file) + 1 /\ UNCHANGED <<up, committed, failed, io>> /\ io.op = "none" /\ up
  BY DEF Log!AppendRecord, Log!Free
<1>5. Values' = Values
  BY DEF Values
<1>6. StoreOK'
  BY <1>3, <1>4, <1>5 DEF StoreOK, JournalTypes
<1>7. QED
  BY <1>3, <1>4, <1>6 DEF r

LEMMA ChildTypes ==
  ASSUME JournalTypes, Log!CommitChild
  PROVE  /\ DiskOK' /\ StoreOK'
         /\ Len(file) \in Nat /\ Len(file') = Len(file) + 2
         /\ \A i \in 1..Len(file) : file'[i] = file[i]
         /\ file'[Len(file) + 1] = Log!Record("message", head, Log!Blank)
         /\ file'[Len(file) + 2] = Log!Record("commit", Len(file) + 1, live)
<1> DEFINE r == Log!Record("message", head, Log!Blank)
           c == Log!Record("commit", Len(file) + 1, live)
<1>1. /\ turn \in Nat /\ head \in Nat /\ Log!Blank \in Values /\ live \in Values
      /\ head <= Len(file) /\ Len(file) \in Nat
  BY BlankValue DEF JournalTypes, ChatOK, StoreOK, DiskOK
<1>2. "message" \in Log!Kinds /\ "commit" \in Log!Kinds
  BY DEF Log!Kinds, Log!Selections
<1>3. /\ r \in Entries /\ r.parent = head
      /\ c \in Entries /\ c.parent = Len(file) + 1 /\ c.kind = "commit"
  BY <1>1, <1>2, RecordTyped
<1>4. UNCHANGED <<synced, torn, shelf, edits, Log!keptVars, turn, history, live, child, rollback, owners, start, cmd>>
  BY DEF Log!CommitChild, Log!chatVars
<1>5. file' = file \o <<r, c>>
  BY DEF Log!CommitChild
<1> HIDE DEF r, c
<1>6. file \in Seq(Entries) /\ <<r, c>> \in Seq(Entries) /\ Len(<<r, c>>) = 2
  BY <1>3 DEF JournalTypes, DiskOK
<1>7. /\ file' \in Seq(Entries) /\ Len(file') = Len(file) + 2
      /\ \A i \in 1..Len(file) : file'[i] = file[i]
      /\ file'[Len(file) + 1] = r /\ file'[Len(file) + 2] = c
  <2>1. \A i \in 1..Len(file) + 2 : file'[i] = IF i <= Len(file) THEN file[i] ELSE <<r, c>>[i - Len(file)]
    BY <1>5, <1>6, ConcatProperties
  <2>2. file' \in Seq(Entries) /\ Len(file') = Len(file) + 2
    BY <1>5, <1>6, ConcatProperties
  <2>3. file'[Len(file) + 1] = <<r, c>>[1] /\ file'[Len(file) + 2] = <<r, c>>[2]
    BY <1>1, <2>1
  <2>4. QED
    BY <1>1, <2>1, <2>2, <2>3
<1>8. Chained(file', Len(file'))
  <2>1. \A i \in 1..Len(file') : i \in 1..Len(file) \/ i = Len(file) + 1 \/ i = Len(file) + 2
    BY <1>1, <1>7
  <2>2. QED
    BY <1>1, <1>3, <1>7, <2>1 DEF Chained, JournalTypes, DiskOK
<1>9. Entries' = Entries /\ Values' = Values /\ Shelved' = Shelved
  BY <1>4 DEF Entries, Values, Shelved
<1>10. DiskOK'
  BY <1>1, <1>4, <1>7, <1>8, <1>9 DEF DiskOK, JournalTypes, Readable, Chained, Log!keptVars
<1>11. /\ io' = [op |-> "commit", owner |-> "none", previous |-> Len(file) + 1,
              offset |-> Len(file) + 1, history |-> history, state |-> live]
       /\ head' = Len(file) + 2 /\ phase' = "committing" /\ UNCHANGED <<up, committed, failed>>
       /\ up
  BY DEF Log!CommitChild, Log!Free
<1>12. io' \in [op : Log!Operations \cup {"none"}, owner : Owners \cup {"none"}, previous : Nat,
             offset : Nat, history : Seq(Nat), state : Values']
  BY <1>1, <1>9, <1>11 DEF JournalTypes, ChatOK, Log!Operations
<1>13. Appending'
  <2>1. io'.op = "commit" /\ io'.offset = Len(file) + 1 /\ io'.previous = Len(file) + 1
    BY <1>11
  <2>2. synced' <= Len(file) /\ committed' <= Len(file) /\ synced' \in Nat /\ committed' \in Nat
    BY <1>1, <1>4, <1>11 DEF JournalTypes, DiskOK, StoreOK
  <2>3. KindOf("commit") = "commit"
    BY DEF KindOf
  <2>4. QED
    BY <1>1, <1>3, <1>7, <1>11, <2>1, <2>2, <2>3 DEF Appending
<1>14. StoreOK'
  BY <1>1, <1>7, <1>11, <1>12, <1>13 DEF StoreOK, JournalTypes
<1>15. QED
  BY <1>1, <1>7, <1>10, <1>14 DEF r, c

(* Journals that are closed, opened and cut by a crash.                      *)
LEMMA JournalShelved == DiskOK => Log!Journal \in Shelved /\ Readable(Log!Journal)
BY DEF DiskOK, Log!Journal, Shelved, Readable

LEMMA LoadedOK ==
  ASSUME NEW j \in Shelved, Readable(j)
  PROVE  /\ Log!Loaded(j) \in Shelved /\ Readable(Log!Loaded(j))
         /\ Log!Loaded(j).file = j.file /\ Log!Loaded(j).kept = j.kept
         /\ Log!Loaded(j).published = j.published
         /\ Log!Loaded(j).synced >= j.synced
<1>1. j.file \in Seq(Entries) /\ Len(j.file) \in Nat
  BY DEF Shelved
<1>2. Log!Loaded(j) = [j EXCEPT !.torn = FALSE, !.synced = IF j.torn THEN Len(j.file) ELSE j.synced]
  BY DEF Log!Loaded
<1>3. j = [file |-> j.file, synced |-> j.synced, torn |-> j.torn, published |-> j.published,
           kept |-> j.kept]
  BY DEF Shelved
<1>4. Log!Loaded(j) = [file |-> j.file, synced |-> IF j.torn THEN Len(j.file) ELSE j.synced, torn |-> FALSE,
                   published |-> j.published, kept |-> j.kept]
  BY <1>2, <1>3
<1>5. j.synced \in Nat /\ j.published \in SUBSET Nat /\ j.kept \in Values
  BY DEF Shelved
<1>6. QED
  BY <1>1, <1>4, <1>5 DEF Shelved, Readable

LEMMA CutOK ==
  ASSUME NEW j \in Shelved, Readable(j), NEW d \in Log!Cut(j)
  PROVE  /\ d \in Shelved /\ Readable(d)
         /\ d.synced = j.synced /\ d.kept = j.kept /\ d.published = j.published
         /\ Len(d.file) \in Log!Lengths(j) /\ d.file = SubSeq(j.file, 1, Len(d.file))
<1>1. PICK n \in Log!Lengths(j), t \in BOOLEAN : d = [j EXCEPT !.file = SubSeq(@, 1, n), !.torn = t]
  <2>1. PICK n \in Log!Lengths(j) :
          d \in {[j EXCEPT !.file = SubSeq(@, 1, n), !.torn = t] :
               t \in IF n = Len(j.file) THEN {j.torn, FALSE} ELSE BOOLEAN}
    BY DEF Log!Cut
  <2>2. j.torn \in BOOLEAN
    BY DEF Shelved
  <2>3. QED
    BY <2>1, <2>2
<1>2. j.file \in Seq(Entries) /\ n \in 0..Len(j.file) /\ j.synced \in Nat /\ Len(j.file) \in Nat
  BY DEF Shelved, Readable, Log!Lengths
<1>3. SubSeq(j.file, 1, n) \in Seq(Entries) /\ Len(SubSeq(j.file, 1, n)) = n
  BY <1>2, CutOff
<1>4. Chained(SubSeq(j.file, 1, n), Len(SubSeq(j.file, 1, n)))
  BY <1>2, ChainCut DEF Readable
<1>5. /\ d.file = SubSeq(j.file, 1, n) /\ d.synced = j.synced /\ d.kept = j.kept
      /\ d.published = j.published
  BY <1>1 DEF Shelved
<1>6. d \in Shelved
  BY <1>1, <1>3 DEF Shelved
<1>7. QED
  BY <1>3, <1>4, <1>5, <1>6 DEF Readable, Log!Lengths

LEMMA SelectionRange ==
  ASSUME NEW f \in Seq(Entries), Chained(f, Len(f)), edits \in Nat
  PROVE  /\ Log!Selected(f, Len(f)) \in 0..Len(f)
         /\ Log!StateOf(f, Log!Selected(f, Len(f))) \in Values
         /\ turn \in Nat => Log!HistoryOf(f, Log!Selected(f, Len(f))) \in Seq(Nat)
<1>1. Len(f) \in Nat
  OBVIOUS
<1>2. Log!Selected(f, Len(f)) \in 0..Len(f)
  BY <1>1, SelectedRange DEF Chained
<1>3. \A i \in 1..Len(f) : f[i].state \in Values /\ f[i].turn \in Nat
  <2>1. \A i \in 1..Len(f) : f[i] \in Entries
    OBVIOUS
  <2>2. QED
    BY <2>1 DEF Entries
<1>4. Log!StateOf(f, Log!Selected(f, Len(f))) \in Values
  BY <1>1, <1>2, <1>3, BlankValue DEF Log!StateOf
<1>5. QED
  BY <1>1, <1>2, <1>3, <1>4, HistoryTurns

LEMMA TypesStep == JournalTypes /\ Log!Next => JournalTypes'
<1> SUFFICES ASSUME JournalTypes, Log!Next PROVE JournalTypes'
  OBVIOUS
<1>1. edits \in Nat /\ edits \in 0..MaxEdits /\ MaxEdits \in Nat /\ NoState \notin Values
  BY Bounds DEF JournalTypes, ChatOK
<1>2. UNCHANGED edits => Values' = Values /\ Entries' = Entries /\ Shelved' = Shelved
  BY DEF Values, Entries, Shelved
<1>3. "none" \notin Log!Operations /\ Log!Operations = {"commit", "checkpoint", "select"}
  BY DEF Log!Operations
<1>4. Log!Phases = {"idle", "open", "running", "child", "restored", "committing", "committed",
                     "finishing", "undone"}
  BY DEF Log!Phases
<1>5. CASE Log!BeginTurn
  <2>1. UNCHANGED <<Log!diskVars, Log!keptVars, edits>>
    BY <1>5 DEF Log!BeginTurn
  <2>2. DiskOK'
    BY <1>1, <2>1, DiskSame DEF JournalTypes
  <2>3. StoreOK'
    BY <1>5, <1>1, <1>2, <2>1 DEF Log!BeginTurn, JournalTypes, StoreOK, Log!storeVars,
                                  Log!diskVars, Appending, Log!Free
  <2>4. ChatOK'
    BY <1>5, <1>1, <1>4, <1>2, <2>1 DEF Log!BeginTurn, JournalTypes, StoreOK, ChatOK,
                                        Log!chatVars, Log!turnVars
  <2>5. QED
    BY <2>2, <2>3, <2>4 DEF JournalTypes
<1>6. CASE Log!StartPrompt
  <2>1. Log!AppendRecord("start") /\ UNCHANGED <<edits, Log!keptVars>> /\ phase' \in Log!Phases
        /\ phase' # "committing" /\ phase # "idle"
    BY <1>6, <1>4 DEF Log!StartPrompt, Log!turnVars
  <2>2. DiskOK' /\ StoreOK'
    BY <2>1, RecordTypes
  <2>3. ChatOK'
    BY <1>6, <1>1, <1>4, <1>2 DEF Log!StartPrompt, JournalTypes, StoreOK, ChatOK, Log!chatVars,
                                  Log!turnVars, Log!AppendRecord
  <2>4. QED
    BY <2>2, <2>3 DEF JournalTypes
<1>7. CASE Log!AddHistory
  <2>1. Log!AppendRecord("message") /\ UNCHANGED <<edits, Log!keptVars>> /\ phase' \in Log!Phases
        /\ phase' # "committing" /\ phase # "idle"
    BY <1>7, <1>4 DEF Log!AddHistory, Log!turnVars
  <2>2. DiskOK' /\ StoreOK'
    BY <2>1, RecordTypes
  <2>3. ChatOK'
    BY <1>7, <1>1, <1>4, <1>2 DEF Log!AddHistory, JournalTypes, StoreOK, ChatOK, Log!chatVars,
                                  Log!turnVars, Log!AppendRecord
  <2>4. QED
    BY <2>2, <2>3 DEF JournalTypes
<1>8. CASE Log!Delegate
  <2>1. UNCHANGED <<Log!diskVars, Log!keptVars, edits>>
    BY <1>8 DEF Log!Delegate
  <2>2. DiskOK'
    BY <1>1, <2>1, DiskSame DEF JournalTypes
  <2>3. StoreOK'
    BY <1>8, <1>1, <1>2, <2>1 DEF Log!Delegate, JournalTypes, StoreOK, Log!storeVars,
                                  Log!diskVars, Appending, Log!Free
  <2>4. ChatOK'
    BY <1>8, <1>1, <1>4, <1>2, <2>1 DEF Log!Delegate, JournalTypes, StoreOK, ChatOK, Log!chatVars,
                                        Log!turnVars
  <2>5. QED
    BY <2>2, <2>3, <2>4 DEF JournalTypes
<1>9. CASE Log!RestoreChild
  <2>1. UNCHANGED <<Log!diskVars, Log!keptVars, edits, Log!storeVars>>
    BY <1>9 DEF Log!RestoreChild
  <2>2. DiskOK'
    BY <1>1, <2>1, DiskSame DEF JournalTypes
  <2>3. StoreOK'
    BY <1>9, <1>1, <1>2, <2>1 DEF Log!RestoreChild, JournalTypes, StoreOK, Log!storeVars,
                                  Log!diskVars, Appending, Log!Free
  <2>4. rollback \in Values /\ child \in Values
    BY <1>9 DEF Log!RestoreChild, JournalTypes, ChatOK
  <2>5. Log!Returned \in Values
    BY <2>4 DEF Log!Returned, Values
  <2>6. ChatOK'
    BY <1>9, <1>1, <1>4, <1>2, <2>1, <2>5 DEF Log!RestoreChild, JournalTypes, StoreOK, ChatOK
  <2>7. QED
    BY <2>2, <2>3, <2>6 DEF JournalTypes
<1>9a. CASE Log!RestoreFails
  <2>1. UNCHANGED <<Log!diskVars, Log!keptVars, edits, Log!storeVars>>
    BY <1>9a DEF Log!RestoreFails
  <2>2. DiskOK'
    BY <1>1, <2>1, DiskSame DEF JournalTypes
  <2>3. StoreOK'
    BY <1>9a, <1>1, <1>2, <2>1 DEF Log!RestoreFails, JournalTypes, StoreOK, Log!storeVars,
                                   Log!diskVars, Appending, Log!Free
  <2>4. ChatOK'
    BY <1>9a, <1>1, <1>4, <1>2, <2>1 DEF Log!RestoreFails, JournalTypes, StoreOK, ChatOK
  <2>5. QED
    BY <2>2, <2>3, <2>4 DEF JournalTypes
<1>10. CASE Log!CommitTurn
  <2>1. /\ Log!BeginAppend("commit", "none", KindOf("commit"), head, live)
        /\ phase' = "committing" /\ UNCHANGED <<edits, Log!keptVars>>
    BY <1>10 DEF Log!CommitTurn, KindOf
  <2>2. DiskOK' /\ StoreOK'
    <3>1. head \in 0..Len(file) /\ live \in Values /\ published' \in SUBSET Nat
          /\ kept' \in Values
      BY <2>1 DEF JournalTypes, StoreOK, ChatOK, DiskOK, Log!keptVars
    <3>2. QED
      BY <1>3, <2>1, <3>1, BeginTypes
  <2>3. ChatOK'
    BY <1>10, <1>1, <1>4, <1>2 DEF Log!CommitTurn, JournalTypes, StoreOK, ChatOK, Log!chatVars,
                                  Log!turnVars
  <2>4. QED
    BY <2>2, <2>3 DEF JournalTypes
<1>11. CASE Log!CommitChild
  <2>1. DiskOK' /\ StoreOK'
    BY <1>11, ChildTypes
  <2>2. ChatOK'
    BY <1>11, <1>1, <1>4, <1>2 DEF Log!CommitChild, JournalTypes, StoreOK, ChatOK, Log!chatVars
  <2>3. QED
    BY <2>1, <2>2 DEF JournalTypes
<1>12. CASE Log!CommitSynced
  <2>1. Log!Synced("commit") /\ UNCHANGED <<edits, Log!keptVars, head>> /\ committed' = head
        /\ phase' # "committing"
    BY <1>12 DEF Log!CommitSynced
  <2>2. DiskOK' /\ StoreOK'
    <3>1. head \in 0..Len(file) /\ published' \in SUBSET Nat /\ kept' \in Values
      BY <2>1 DEF JournalTypes, StoreOK, DiskOK, Log!keptVars
    <3>2. QED
      BY <1>3, <2>1, <3>1, SyncedTypes
  <2>3. ChatOK'
    BY <1>12, <1>1, <1>4, <1>2 DEF Log!CommitSynced, JournalTypes, StoreOK, ChatOK, Log!chatVars,
                                  Log!turnVars
  <2>4. QED
    BY <2>2, <2>3 DEF JournalTypes
<1>13. CASE Log!CommitFailed
  <2>1. Log!AppendFailed("commit") /\ UNCHANGED <<edits, Log!keptVars>>
        /\ phase' = IF "commit" = "commit" THEN "finishing" ELSE phase
    BY <1>13 DEF Log!CommitFailed, Log!turnVars
  <2>2. DiskOK' /\ StoreOK'
    BY <1>3, <2>1, FailedTypes
  <2>3. ChatOK'
    <3>1. io.state \in Values /\ io.history \in Seq(Nat) /\ cmd \in Values /\ edits \in Nat
      BY <1>1 DEF JournalTypes, StoreOK, ChatOK
    <3>2. io.op = "commit" /\ (io.op = "checkpoint" => io.owner \in Owners)
      BY <2>1 DEF Log!AppendFailed, JournalTypes, StoreOK
    <3>3. cmd' \in Values
      BY <1>13, <1>1, <3>1, <3>2 DEF Log!CommitFailed, Values
    <3>4. QED
      BY <1>13, <1>1, <1>2, <1>4, <3>1, <3>3 DEF Log!CommitFailed, JournalTypes, StoreOK, ChatOK,
                                                Log!chatVars, Log!turnVars
  <2>4. QED
    BY <2>2, <2>3 DEF JournalTypes
<1>14. CASE Log!PublishDone
  <2>1. UNCHANGED <<Log!diskVars, Log!storeVars, Log!chatVars, turn, start, child, cmd, edits, turnEdits, kept>> /\ published' \in SUBSET Nat
    BY <1>14 DEF Log!PublishDone, JournalTypes, ChatOK, DiskOK
  <2>2. DiskOK'
    BY <1>2, <2>1 DEF JournalTypes, DiskOK, Log!diskVars, Readable, Chained
  <2>3. StoreOK'
    BY <1>14, <1>1, <1>2, <2>1 DEF Log!PublishDone, JournalTypes, StoreOK, Log!storeVars,
                                   Log!diskVars, Appending
  <2>4. ChatOK'
    BY <1>14, <1>1, <1>4, <1>2, <2>1 DEF Log!PublishDone, JournalTypes, StoreOK, ChatOK,
                                         Log!chatVars
  <2>5. QED
    BY <2>2, <2>3, <2>4 DEF JournalTypes
<1>15. CASE Log!FailTurn
  <2>1. UNCHANGED <<Log!diskVars, Log!keptVars, edits>>
    BY <1>15 DEF Log!FailTurn
  <2>2. DiskOK'
    BY <1>1, <2>1, DiskSame DEF JournalTypes
  <2>3. StoreOK'
    BY <1>15, <1>1, <1>2, <2>1 DEF Log!FailTurn, JournalTypes, StoreOK, Log!storeVars,
                                   Log!diskVars, Appending, Log!Free
  <2>4. ChatOK'
    BY <1>15, <1>1, <1>4, <1>2, <2>1 DEF Log!FailTurn, JournalTypes, StoreOK, ChatOK,
                                         Log!chatVars, Log!turnVars
  <2>5. QED
    BY <2>2, <2>3, <2>4 DEF JournalTypes
<1>16. CASE Log!AppendFails
  <2>1. UNCHANGED <<file, synced, shelf, up, head, committed, io, edits, Log!keptVars>>
        /\ torn' \in BOOLEAN
    BY <1>16 DEF Log!AppendFails
  <2>2. DiskOK'
    BY <1>2, <2>1 DEF JournalTypes, DiskOK, Readable, Chained, Log!keptVars
  <2>3. StoreOK'
    BY <1>16, <1>1, <1>2, <2>1 DEF Log!AppendFails, JournalTypes, StoreOK, Appending, Log!Free
  <2>4. ChatOK'
    BY <1>16, <1>1, <1>4, <1>2, <2>1 DEF Log!AppendFails, JournalTypes, StoreOK, ChatOK
  <2>5. QED
    BY <2>2, <2>3, <2>4 DEF JournalTypes
<1>17. CASE Log!FinishTurn
  <2>1. UNCHANGED <<Log!diskVars, Log!keptVars, edits, up, committed, failed, io, cmd>>
    BY <1>17 DEF Log!FinishTurn
  <2>2. DiskOK'
    BY <1>1, <2>1, DiskSame DEF JournalTypes
  <2>3. head' \in {head, committed} /\ phase' = "idle" /\ io.op = "none" /\ up
    BY <1>17 DEF Log!FinishTurn, Log!Free, Log!TurnOver
  <2>4. StoreOK'
    BY <1>1, <1>2, <2>1, <2>3 DEF JournalTypes, StoreOK, Log!diskVars
  <2>5. Log!Blank \in Values /\ <<>> \in Seq(Nat)
    BY <1>1, BlankValue
  <2>6. history' \in Seq(Nat) /\ live' \in Values /\ rollback' = NoState /\ owners' = {}
        /\ turnEdits' = {}
        /\ start' = <<>> /\ child' = Log!Blank /\ turn' = turn
    BY <1>17 DEF Log!FinishTurn, Log!TurnOver, JournalTypes, ChatOK
  <2>7. ChatOK'
    BY <1>1, <1>2, <1>4, <2>1, <2>3, <2>5, <2>6 DEF JournalTypes, ChatOK
  <2>8. QED
    BY <2>2, <2>4, <2>7 DEF JournalTypes
<1>18. ASSUME NEW o \in Owners, Log!PluginEdit(o) PROVE JournalTypes'
  <2>1. UNCHANGED <<Log!diskVars, Log!keptVars, Log!storeVars, phase>> /\ edits' = edits + 1
        /\ edits < MaxEdits
    BY <1>18 DEF Log!PluginEdit, Log!turnVars
  <2>2. DiskOK'
    BY <1>1, <2>1, DiskSame DEF JournalTypes
  <2>3. StoreOK'
    BY <1>1, <2>1, StoreSame DEF JournalTypes, Log!diskVars
  <2>4. Values \subseteq Values' /\ edits' \in 0..edits'
    BY <1>1, <2>1, Grown
  <2>5. \A s \in Values : [s EXCEPT ![o] = edits + 1] \in Values'
    BY <1>18, <1>1, <2>1 DEF Values
  <2>6. ChatOK'
    <3>1. /\ live \in Values' /\ child \in Values' /\ cmd \in Values'
          /\ rollback \in Values' \cup {NoState} /\ edits + 1 \in 0..MaxEdits /\ edits + 1 \in Nat
      BY <1>1, <2>1, <2>4 DEF JournalTypes, ChatOK
    <3>2. /\ live \in Values /\ child \in Values /\ cmd \in Values
      BY DEF JournalTypes, ChatOK
    <3>3. /\ live' \in Values' /\ child' \in Values' /\ cmd' \in Values'
      BY <1>18, <2>5, <3>1, <3>2 DEF Log!PluginEdit, Log!chatVars, Log!turnVars
    <3>4. UNCHANGED <<history, start, rollback, owners, phase, turn>>
          /\ turnEdits' \in {turnEdits, turnEdits \cup {edits + 1}}
      BY <1>18 DEF Log!PluginEdit, Log!chatVars, Log!turnVars
    <3>5. QED
      BY <2>1, <3>1, <3>3, <3>4 DEF JournalTypes, ChatOK
  <2>7. QED
    BY <2>2, <2>3, <2>6 DEF JournalTypes
<1>19. ASSUME NEW o \in Owners, Log!ChildEdit(o) PROVE JournalTypes'
  <2>1. UNCHANGED <<Log!diskVars, Log!keptVars, Log!storeVars, phase>> /\ edits' = edits + 1
        /\ edits < MaxEdits
    BY <1>19 DEF Log!ChildEdit, Log!turnVars
  <2>2. DiskOK'
    BY <1>1, <2>1, DiskSame DEF JournalTypes
  <2>3. StoreOK'
    BY <1>1, <2>1, StoreSame DEF JournalTypes, Log!diskVars
  <2>4. Values \subseteq Values' /\ edits' \in 0..edits'
    BY <1>1, <2>1, Grown
  <2>5. \A s \in Values : [s EXCEPT ![o] = edits + 1] \in Values'
    BY <1>19, <1>1, <2>1 DEF Values
  <2>6. ChatOK'
    <3>1. /\ live \in Values' /\ child \in Values' /\ cmd \in Values'
          /\ rollback \in Values' \cup {NoState} /\ edits + 1 \in 0..MaxEdits /\ edits + 1 \in Nat
      BY <1>1, <2>1, <2>4 DEF JournalTypes, ChatOK
    <3>2. /\ live \in Values /\ child \in Values /\ cmd \in Values
      BY DEF JournalTypes, ChatOK
    <3>3. /\ live' \in Values' /\ child' \in Values' /\ cmd' \in Values'
      BY <1>19, <2>5, <3>1, <3>2 DEF Log!ChildEdit, Log!chatVars, Log!turnVars
    <3>4. UNCHANGED <<history, start, rollback, owners, phase, turn>>
          /\ turnEdits' \in {turnEdits, turnEdits \cup {edits + 1}}
      BY <1>19 DEF Log!ChildEdit, Log!chatVars, Log!turnVars
    <3>5. QED
      BY <2>1, <3>1, <3>3, <3>4 DEF JournalTypes, ChatOK
  <2>7. QED
    BY <2>2, <2>3, <2>6 DEF JournalTypes
<1>20. ASSUME NEW o \in Owners, Log!CommandEdit(o) PROVE JournalTypes'
  <2>1. UNCHANGED <<Log!diskVars, Log!keptVars, Log!storeVars, phase>> /\ edits' = edits + 1
        /\ edits < MaxEdits
    BY <1>20 DEF Log!CommandEdit, Log!turnVars
  <2>2. DiskOK'
    BY <1>1, <2>1, DiskSame DEF JournalTypes
  <2>3. StoreOK'
    BY <1>1, <2>1, StoreSame DEF JournalTypes, Log!diskVars
  <2>4. Values \subseteq Values' /\ edits' \in 0..edits'
    BY <1>1, <2>1, Grown
  <2>5. \A s \in Values : [s EXCEPT ![o] = edits + 1] \in Values'
    BY <1>20, <1>1, <2>1 DEF Values
  <2>6. ChatOK'
    <3>1. /\ live \in Values' /\ child \in Values' /\ cmd \in Values'
          /\ rollback \in Values' \cup {NoState} /\ edits + 1 \in 0..MaxEdits /\ edits + 1 \in Nat
      BY <1>1, <2>1, <2>4 DEF JournalTypes, ChatOK
    <3>2. /\ live \in Values /\ child \in Values /\ cmd \in Values
      BY DEF JournalTypes, ChatOK
    <3>3. /\ live' \in Values' /\ child' \in Values' /\ cmd' \in Values'
      BY <1>20, <2>5, <3>1, <3>2 DEF Log!CommandEdit, Log!chatVars, Log!turnVars
    <3>4. UNCHANGED <<history, start, rollback, owners, phase, turn>>
          /\ turnEdits' \in {turnEdits, turnEdits \cup {edits + 1}}
      BY <1>20 DEF Log!CommandEdit, Log!chatVars, Log!turnVars
    <3>5. QED
      BY <2>1, <3>1, <3>3, <3>4 DEF JournalTypes, ChatOK
  <2>7. QED
    BY <2>2, <2>3, <2>6 DEF JournalTypes
<1>21. ASSUME NEW o \in Owners, Log!Checkpoint(o) PROVE JournalTypes'
  <2>1. /\ Log!BeginAppend("checkpoint", o, KindOf("checkpoint"), committed, Log!Checkpointed(o))
        /\ UNCHANGED <<edits, published, Log!chatVars, Log!turnVars, cmd, turnEdits>>
    BY <1>21 DEF Log!Checkpoint, KindOf
  <2>2. Log!Checkpointed(o) \in Values
    BY <1>21 DEF Log!Checkpointed, JournalTypes, ChatOK, Values
  <2>3. io.op # "commit" /\ phase' # "committing"
    BY <2>1 DEF Log!BeginAppend, Log!Free, JournalTypes, StoreOK, Log!turnVars
  <2>4. DiskOK' /\ StoreOK'
    <3>1. kept' \in Values
      <4>1. kept \in Values /\ live \in Values
        BY DEF JournalTypes, DiskOK, ChatOK
      <4>2. kept' \in {kept, [kept EXCEPT ![o] = live[o]]}
        BY <1>21 DEF Log!Checkpoint
      <4>3. QED
        BY <4>1, <4>2 DEF Values
    <3>2. committed \in 0..Len(file) /\ published' \in SUBSET Nat
      BY <2>1 DEF JournalTypes, StoreOK, DiskOK
    <3>3. QED
      BY <1>21, <1>3, <2>1, <2>2, <2>3, <3>1, <3>2, BeginTypes
  <2>5. ChatOK'
    BY <1>1, <1>4, <1>2, <2>1 DEF JournalTypes, StoreOK, ChatOK, Log!chatVars, Log!turnVars
  <2>6. QED
    BY <2>4, <2>5 DEF JournalTypes
<1>22. ASSUME NEW o \in Owners, Log!CheckpointRefused(o) PROVE JournalTypes'
  <2>1. UNCHANGED <<Log!diskVars, Log!storeVars, Log!chatVars, Log!turnVars, edits, turnEdits, Log!keptVars>> /\ cmd' = [cmd EXCEPT ![o] = 0]
    BY <1>22 DEF Log!CheckpointRefused
  <2>2. DiskOK'
    BY <1>1, <2>1, DiskSame DEF JournalTypes
  <2>3. StoreOK'
    BY <1>1, <2>1, StoreSame DEF JournalTypes, Log!diskVars, Log!turnVars
  <2>4. cmd' \in Values
    BY <1>1, <2>1 DEF JournalTypes, ChatOK, Values
  <2>5. ChatOK'
    BY <1>1, <1>4, <1>2, <2>1, <2>4 DEF JournalTypes, ChatOK, Log!chatVars, Log!turnVars
  <2>6. QED
    BY <2>2, <2>3, <2>5 DEF JournalTypes
<1>23. CASE Log!CheckpointSynced
  <2>1. /\ Log!Synced("checkpoint")
        /\ UNCHANGED <<edits, published, history, live, Log!turnVars, turnEdits>>
        /\ head' \in {head, io.previous} /\ committed' = head
        /\ kept' = [kept EXCEPT ![io.owner] = file[head].state[io.owner]]
        /\ cmd' = [cmd EXCEPT ![io.owner] = 0]
        /\ rollback' = IF rollback = NoState THEN NoState ELSE file[head].state
        /\ owners' \in {owners, owners \cup {io.owner}}
    BY <1>23 DEF Log!CheckpointSynced
  <2>2. io.op = "checkpoint" /\ Appending /\ io.owner \in Owners /\ phase # "committing"
    BY <1>3, <2>1 DEF Log!Synced, JournalTypes, StoreOK
  <2>3. Len(file) \in Nat /\ head \in 1..Len(file) /\ io.previous \in 0..Len(file)
    BY <2>2 DEF Appending, JournalTypes, StoreOK, DiskOK
  <2>4. file[head].state \in Values
    <3>1. file[head] \in Entries
      BY <2>3 DEF JournalTypes, DiskOK
    <3>2. QED
      BY <3>1 DEF Entries
  <2>5. kept' \in Values /\ cmd' \in Values
    <3>1. kept \in [Owners -> 0..edits] /\ cmd \in [Owners -> 0..edits]
      BY DEF JournalTypes, DiskOK, ChatOK, Values
    <3>2. file[head].state[io.owner] \in 0..edits /\ 0 \in 0..edits
      BY <1>1, <2>2, <2>4 DEF Values
    <3>3. kept' \in [Owners -> 0..edits]
      BY <2>1, <3>1, <3>2
    <3>4. cmd' \in [Owners -> 0..edits]
      BY <2>1, <3>1, <3>2
    <3>5. QED
      BY <2>1, <3>3, <3>4 DEF Values
  <2>6. DiskOK' /\ StoreOK'
    <3>1. head' \in 0..Len(file) /\ committed' \in 0..Len(file) /\ published' \in SUBSET Nat
          /\ phase' # "committing"
      BY <2>1, <2>2, <2>3 DEF JournalTypes, DiskOK, Log!turnVars
    <3>2. QED
      BY <1>3, <2>1, <2>5, <3>1, SyncedTypes
  <2>7. ChatOK'
    <3>1. rollback' \in Values \cup {NoState} /\ (rollback' = NoState <=> rollback = NoState)
          /\ owners' \subseteq Owners
      BY <1>1, <2>1, <2>2, <2>4 DEF JournalTypes, ChatOK
    <3>2. QED
      BY <1>1, <1>2, <2>1, <2>5, <3>1 DEF JournalTypes, ChatOK, Log!turnVars
  <2>8. QED
    BY <2>6, <2>7 DEF JournalTypes
<1>24. CASE Log!CheckpointFailed
  <2>1. Log!AppendFailed("checkpoint") /\ UNCHANGED <<edits, Log!keptVars>>
        /\ phase' = IF "checkpoint" = "commit" THEN "finishing" ELSE phase
    BY <1>24 DEF Log!CheckpointFailed, Log!turnVars
  <2>2. DiskOK' /\ StoreOK'
    BY <1>3, <2>1, FailedTypes
  <2>3. ChatOK'
    <3>1. io.state \in Values /\ io.history \in Seq(Nat) /\ cmd \in Values /\ edits \in Nat
      BY <1>1 DEF JournalTypes, StoreOK, ChatOK
    <3>2. io.op = "checkpoint" /\ (io.op = "checkpoint" => io.owner \in Owners)
      BY <2>1 DEF Log!AppendFailed, JournalTypes, StoreOK
    <3>3. cmd' \in Values
      BY <1>24, <1>1, <3>1, <3>2 DEF Log!CheckpointFailed, Values
    <3>4. QED
      BY <1>24, <1>1, <1>2, <1>4, <3>1, <3>3 DEF Log!CheckpointFailed, JournalTypes, StoreOK,
                                                 ChatOK, Log!chatVars, Log!turnVars
  <2>4. QED
    BY <2>2, <2>3 DEF JournalTypes
<1>25. ASSUME NEW e \in 1..MaxRecords, Log!Fork(e) PROVE JournalTypes'
  <2>1. /\ Log!BeginAppend("select", "none", KindOf("select"), e, file[e].state)
        /\ UNCHANGED <<edits, rollback, owners, Log!turnVars, cmd, turnEdits>> /\ phase = "idle"
        /\ history' = Log!HistoryOf(file, e) /\ live' = file[e].state
        /\ published' \subseteq published
        /\ kept' = [o \in Owners |-> IF kept[o] < live'[o] THEN kept[o] ELSE live'[o]]
        /\ e \in DOMAIN file
    BY <1>25 DEF Log!Fork, KindOf
  <2>2. e \in 1..Len(file) /\ file[e] \in Entries /\ Chained(file, Len(file)) /\ Len(file) \in Nat
    BY <2>1 DEF JournalTypes, DiskOK
  <2>3. live' \in Values /\ file[e].state \in Values
    BY <2>1, <2>2 DEF Entries
  <2>4. history' \in Seq(Nat)
    <3>1. \A i \in 1..Len(file) : file[i].turn \in Nat
      <4>1. \A i \in 1..Len(file) : file[i] \in Entries
        BY DEF JournalTypes, DiskOK
      <4>2. QED
        BY <4>1 DEF Entries
    <3>2. QED
      BY <2>1, <2>2, <3>1, HistoryTurns
  <2>5. kept' \in Values
    BY <2>1, <2>3 DEF JournalTypes, DiskOK, Values
  <2>6. DiskOK' /\ StoreOK'
    <3>1. published' \in SUBSET Nat /\ phase' = "idle" /\ e \in 0..Len(file)
      BY <2>1, <2>2 DEF JournalTypes, DiskOK, Log!turnVars
    <3>2. QED
      BY <1>3, <2>1, <2>3, <2>5, <3>1, BeginTypes
  <2>7. ChatOK'
    BY <1>1, <1>4, <1>2, <2>1, <2>3, <2>4 DEF JournalTypes, ChatOK, Log!turnVars
  <2>8. QED
    BY <2>6, <2>7 DEF JournalTypes
<1>26. CASE Log!ForkSynced
  <2>1. /\ Log!Synced("select")
        /\ UNCHANGED <<edits, Log!keptVars, Log!chatVars, Log!turnVars, cmd, turnEdits>>
        /\ head' = file[head].parent /\ committed' = file[head].parent
    BY <1>26 DEF Log!ForkSynced
  <2>2. io.op = "select" /\ Appending /\ phase = "idle"
    BY <1>3, <2>1 DEF Log!Synced, JournalTypes, StoreOK
  <2>3. Len(file) \in Nat /\ head \in 1..Len(file)
    BY <2>2 DEF Appending, JournalTypes, StoreOK, DiskOK
  <2>4. file[head].parent \in 0..Len(file)
    BY <2>3 DEF JournalTypes, DiskOK, Chained
  <2>5. DiskOK' /\ StoreOK'
    <3>1. published' \in SUBSET Nat /\ kept' \in Values /\ phase' # "committing"
      BY <2>1, <2>2 DEF JournalTypes, DiskOK, Log!keptVars, Log!turnVars
    <3>2. QED
      BY <1>3, <2>1, <2>4, <3>1, SyncedTypes
  <2>6. ChatOK'
    BY <1>1, <1>4, <1>2, <2>1 DEF JournalTypes, ChatOK, Log!chatVars, Log!turnVars
  <2>7. QED
    BY <2>5, <2>6 DEF JournalTypes
<1>27. CASE Log!ForkFailed
  <2>1. Log!AppendFailed("select") /\ UNCHANGED <<edits, Log!keptVars>>
        /\ phase' = IF "select" = "commit" THEN "finishing" ELSE phase
    BY <1>27 DEF Log!ForkFailed, Log!turnVars
  <2>2. DiskOK' /\ StoreOK'
    BY <1>3, <2>1, FailedTypes
  <2>3. ChatOK'
    <3>1. io.state \in Values /\ io.history \in Seq(Nat) /\ cmd \in Values /\ edits \in Nat
      BY <1>1 DEF JournalTypes, StoreOK, ChatOK
    <3>2. io.op = "select" /\ (io.op = "checkpoint" => io.owner \in Owners)
      BY <2>1 DEF Log!AppendFailed, JournalTypes, StoreOK
    <3>3. cmd' \in Values
      BY <1>27, <1>1, <3>1, <3>2 DEF Log!ForkFailed, Values
    <3>4. QED
      BY <1>27, <1>1, <1>2, <1>4, <3>1, <3>3 DEF Log!ForkFailed, JournalTypes, StoreOK, ChatOK,
                                                 Log!chatVars, Log!turnVars
  <2>4. QED
    BY <2>2, <2>3 DEF JournalTypes
<1>28. CASE Log!Reset
  <2>1. /\ io.op = "none" /\ phase = "idle" /\ up
        /\ UNCHANGED <<up, io, rollback, owners, Log!turnVars, cmd, edits, turnEdits>>
        /\ shelf' = Append(shelf, Log!Journal)
        /\ file' = <<>> /\ synced' = 0 /\ torn' = FALSE /\ published' = {} /\ kept' = Log!Blank
        /\ head' = 0 /\ committed' = 0 /\ failed' = FALSE /\ history' = <<>> /\ live' = Log!Blank
    BY <1>28 DEF Log!Reset, Log!Settled, Log!Free
  <2>2. Log!Journal \in Shelved /\ Readable(Log!Journal)
    BY JournalShelved DEF JournalTypes
  <2>3. /\ shelf' \in Seq(Shelved) /\ Len(shelf') = Len(shelf) + 1 /\ Len(shelf) \in Nat
        /\ \A k \in 1..Len(shelf) : shelf'[k] = shelf[k]
        /\ shelf'[Len(shelf) + 1] = Log!Journal
    BY <2>1, <2>2, Appended DEF JournalTypes, DiskOK
  <2>4. \A k \in 1..Len(shelf') : Readable(shelf'[k])
    <3> HIDE DEF Readable
    <3>1. \A k \in 1..Len(shelf') : k \in 1..Len(shelf) \/ k = Len(shelf) + 1
      BY <2>3
    <3>2. QED
      BY <2>2, <2>3, <3>1 DEF JournalTypes, DiskOK
  <2>5. Log!Blank \in Values /\ <<>> \in Seq(Nat) /\ <<>> \in Seq(Entries) /\ Len(<<>>) = 0
    BY <1>1, BlankValue
  <2>6. DiskOK'
    <3>1. file' \in Seq(Entries) /\ Len(file') = 0 /\ synced' \in Nat /\ synced' <= Len(file')
          /\ torn' \in BOOLEAN
          /\ published' \in SUBSET Nat /\ kept' \in Values
      <4>1. \A f : f = <<>> => f \in Seq(Entries) /\ Len(f) = 0
        BY <2>5
      <4>2. file' \in Seq(Entries) /\ Len(file') = 0
        BY <2>1, <4>1
      <4>3. synced' \in Nat /\ synced' <= Len(file')
        BY <2>1, <4>2
      <4>4. torn' \in BOOLEAN /\ published' \in SUBSET Nat
        BY <2>1
      <4>5. kept' \in Values
        BY <2>1, <2>5
      <4>6. QED
        BY <4>2, <4>3, <4>4, <4>5
    <3>2. Chained(file', Len(file'))
      BY <3>1 DEF Chained
    <3>3. QED
      <4>1. Values' = Values /\ Entries' = Entries /\ Shelved' = Shelved
        BY <1>2, <2>1
      <4> HIDE DEF Readable
      <4>2. QED
        BY <2>3, <2>4, <3>1, <3>2, <4>1 DEF DiskOK
  <2>7. StoreOK'
    <3>1. io' = io /\ phase' = phase /\ up' = up /\ head' = 0 /\ committed' = 0
          /\ failed' = FALSE /\ 0 \in 0..Len(file')
      BY <2>1, <2>5 DEF Log!turnVars
    <3>2. QED
      BY <1>2, <2>1, <3>1 DEF JournalTypes, StoreOK
  <2>8. ChatOK'
    BY <1>1, <1>4, <1>2, <2>1, <2>5 DEF JournalTypes, ChatOK, Log!turnVars
  <2>9. QED
    BY <2>6, <2>7, <2>8 DEF JournalTypes
<1>29. CASE Log!ResetFails
  <2>1. /\ io.op = "none" /\ phase = "idle"
        /\ UNCHANGED <<Log!diskVars, io, rollback, owners, Log!turnVars, cmd, edits, turnEdits, Log!keptVars>>
        /\ up' = FALSE /\ head' = 0 /\ committed' = 0 /\ failed' = FALSE /\ history' = <<>>
        /\ live' = Log!Blank
    BY <1>29 DEF Log!ResetFails, Log!Settled, Log!Free
  <2>2. DiskOK'
    BY <1>1, <2>1, DiskSame DEF JournalTypes
  <2>3. Log!Blank \in Values /\ <<>> \in Seq(Nat) /\ Len(file') \in Nat
    BY <1>1, <2>2, BlankValue DEF DiskOK
  <2>4. StoreOK'
    <3>1. io' = io /\ phase' = phase /\ up' = FALSE /\ head' = 0 /\ committed' = 0
          /\ failed' = FALSE /\ 0 \in 0..Len(file')
      BY <2>1, <2>3 DEF Log!turnVars
    <3>2. QED
      BY <1>2, <2>1, <3>1 DEF JournalTypes, StoreOK
  <2>5. ChatOK'
    BY <1>1, <1>4, <1>2, <2>1, <2>3 DEF JournalTypes, ChatOK, Log!turnVars
  <2>6. QED
    BY <2>2, <2>4, <2>5 DEF JournalTypes
<1>30. ASSUME NEW k \in 1..2, Log!Resume(k) PROVE JournalTypes'
  <2> DEFINE j == Log!Loaded(shelf[k])
  <2>1. /\ io.op = "none" /\ phase = "idle" /\ up
        /\ UNCHANGED <<up, io, rollback, owners, Log!turnVars, cmd, edits, turnEdits>>
        /\ k \in DOMAIN shelf
        /\ file' = j.file /\ synced' = j.synced /\ torn' = j.torn /\ published' = j.published
        /\ kept' = j.kept
        /\ shelf' = [shelf EXCEPT ![k] = Log!Journal] /\ failed' = FALSE
        /\ head' = Log!Selected(file', Len(file')) /\ committed' = head'
        /\ history' = Log!HistoryOf(file', head') /\ live' = Log!StateOf(file', head')
    BY <1>30 DEF Log!Resume, Log!Settled, Log!Free
  <2>2. k \in 1..Len(shelf) /\ shelf[k] \in Shelved /\ Readable(shelf[k])
    BY <2>1 DEF JournalTypes, DiskOK
  <2>3. j \in Shelved /\ Readable(j)
    BY <2>2, LoadedOK
  <2>4. Log!Journal \in Shelved /\ Readable(Log!Journal)
    BY JournalShelved DEF JournalTypes
  <2> HIDE DEF j
  <2>5. /\ shelf' \in Seq(Shelved) /\ Len(shelf') = Len(shelf)
        /\ \A i \in 1..Len(shelf) : shelf'[i] = IF i = k THEN Log!Journal ELSE shelf[i]
    BY <2>1, <2>2, <2>4, ExceptSeq DEF JournalTypes, DiskOK
  <2>6. \A i \in 1..Len(shelf') : Readable(shelf'[i])
    BY <2>4, <2>5 DEF JournalTypes, DiskOK
  <2>7. j.file \in Seq(Entries) /\ j.synced \in Nat /\ j.torn \in BOOLEAN
        /\ j.published \in SUBSET Nat /\ j.kept \in Values
    BY <2>3 DEF Shelved
  <2>8. DiskOK'
    BY <1>2, <2>1, <2>3, <2>5, <2>6, <2>7 DEF DiskOK, Readable, Chained
  <2>9. head' \in 0..Len(file') /\ live' \in Values /\ history' \in Seq(Nat)
    <3>1. file' \in Seq(Entries) /\ Chained(file', Len(file')) /\ turn \in Nat
      BY <2>1, <2>3, <2>7 DEF Readable, JournalTypes, ChatOK
    <3>2. QED
      BY <1>1, <2>1, <3>1, SelectionRange
  <2>10. StoreOK'
    BY <1>2, <2>1, <2>9 DEF JournalTypes, StoreOK, Log!turnVars
  <2>11. ChatOK'
    BY <1>1, <1>4, <1>2, <2>1, <2>9 DEF JournalTypes, ChatOK, Log!turnVars
  <2>12. QED
    BY <2>8, <2>10, <2>11 DEF JournalTypes
<1>31. ASSUME NEW k \in 1..2, Log!ResumeFails(k) PROVE JournalTypes'
  <2>1. /\ UNCHANGED <<file, synced, torn, Log!storeVars, Log!chatVars, Log!turnVars, cmd, edits, turnEdits, Log!keptVars>>
        /\ k \in DOMAIN shelf /\ shelf' = [shelf EXCEPT ![k] = Log!Loaded(shelf[k])]
    BY <1>31 DEF Log!ResumeFails
  <2>2. k \in 1..Len(shelf) /\ shelf[k] \in Shelved /\ Readable(shelf[k])
    BY <2>1 DEF JournalTypes, DiskOK
  <2>3. Log!Loaded(shelf[k]) \in Shelved /\ Readable(Log!Loaded(shelf[k]))
    BY <2>2, LoadedOK
  <2>4. /\ shelf' \in Seq(Shelved) /\ Len(shelf') = Len(shelf)
        /\ \A i \in 1..Len(shelf) : shelf'[i] = IF i = k THEN Log!Loaded(shelf[k]) ELSE shelf[i]
    BY <2>1, <2>2, <2>3, ExceptSeq DEF JournalTypes, DiskOK
  <2>5. \A i \in 1..Len(shelf') : Readable(shelf'[i])
    BY <2>3, <2>4 DEF JournalTypes, DiskOK
  <2>6. DiskOK'
    BY <1>2, <2>1, <2>4, <2>5 DEF JournalTypes, DiskOK, Readable, Chained, Log!keptVars
  <2>7. StoreOK'
    BY <1>1, <2>1, StoreSame DEF JournalTypes, Log!turnVars
  <2>8. ChatOK'
    BY <1>1, <1>4, <1>2, <2>1 DEF JournalTypes, ChatOK, Log!chatVars, Log!turnVars
  <2>9. QED
    BY <2>6, <2>7, <2>8 DEF JournalTypes
<1>32. CASE Log!Crash
  <2>1. /\ up' = FALSE /\ head' = 0 /\ committed' = 0 /\ failed' = FALSE /\ io' = Log!NoIo
        /\ history' = <<>> /\ live' = Log!Blank /\ rollback' = NoState /\ owners' = {}
        /\ phase' = "idle" /\ start' = <<>> /\ child' = Log!Blank /\ turnEdits' = {}
        /\ turn' = turn
        /\ cmd' = Log!Blank /\ UNCHANGED <<synced, edits, Log!keptVars>>
    BY <1>32 DEF Log!Crash, Log!TurnOver
  <2>2. PICK d \in Log!Cut(Log!Journal) : file' = d.file /\ torn' = d.torn
    BY <1>32 DEF Log!Crash
  <2>3. d \in Shelved /\ Readable(d) /\ d.synced = synced
    BY JournalShelved, CutOK DEF JournalTypes, Log!Journal
  <2>4. /\ \A k \in DOMAIN shelf : shelf'[k] \in Log!Cut(shelf[k])
        /\ shelf' \in [DOMAIN shelf -> UNION {Log!Cut(shelf[k]) : k \in DOMAIN shelf}]
    BY <1>32 DEF Log!Crash
  <2>5. DOMAIN shelf = 1..Len(shelf) /\ Len(shelf) \in Nat
        /\ \A k \in 1..Len(shelf) : shelf[k] \in Shelved /\ Readable(shelf[k])
    BY DEF JournalTypes, DiskOK
  <2>6. \A k \in 1..Len(shelf) : shelf'[k] \in Shelved /\ Readable(shelf'[k])
    BY <2>4, <2>5, CutOK
  <2>7. shelf' \in Seq(Shelved) /\ Len(shelf') = Len(shelf)
    <3>1. shelf' \in [1..Len(shelf) -> Shelved]
      BY <2>4, <2>5, <2>6
    <3>2. QED
      BY <2>5, <3>1
  <2>8. d.file \in Seq(Entries) /\ d.torn \in BOOLEAN /\ Chained(d.file, Len(d.file))
        /\ synced <= Len(d.file)
    BY <2>3 DEF Shelved, Readable
  <2>9. DiskOK'
    BY <1>2, <2>1, <2>2, <2>6, <2>7, <2>8 DEF JournalTypes, DiskOK, Log!keptVars, Readable,
                                              Chained
  <2>10. Log!Blank \in Values /\ <<>> \in Seq(Nat) /\ Len(file') \in Nat
    BY <1>1, <2>9, BlankValue DEF DiskOK
  <2>11. StoreOK'
    <3>1. 0 \in 0..Len(file') /\ io'.op = "none"
      BY <2>1, <2>10 DEF Log!NoIo
    <3>2. io' \in [op : Log!Operations \cup {"none"}, owner : Owners \cup {"none"}, previous : Nat,
             offset : Nat, history : Seq(Nat), state : Values']
      BY <1>2, <2>1, <2>10 DEF Log!NoIo
    <3>3. QED
      BY <2>1, <3>1, <3>2 DEF StoreOK
  <2>12. ChatOK'
    BY <1>1, <1>2, <1>4, <2>1, <2>10 DEF JournalTypes, ChatOK
  <2>13. QED
    BY <2>9, <2>11, <2>12 DEF JournalTypes
<1>33. CASE Log!Reopen
  <2>1. /\ ~up /\ up' = TRUE /\ torn' = FALSE /\ synced' = Log!Loaded(Log!Journal).synced
        /\ head' = Log!Selected(file, Len(file)) /\ committed' = head'
        /\ history' = Log!HistoryOf(file, head') /\ live' = Log!StateOf(file, head')
        /\ UNCHANGED <<file, shelf, failed, io, rollback, owners, Log!turnVars, cmd, edits, turnEdits, Log!keptVars>>
    BY <1>33 DEF Log!Reopen
  <2>2. Log!Loaded(Log!Journal).synced \in Nat /\ Log!Loaded(Log!Journal).synced <= Len(file)
    <3>1. Log!Loaded(Log!Journal) \in Shelved /\ Readable(Log!Loaded(Log!Journal))
          /\ Log!Loaded(Log!Journal).file = file
      BY JournalShelved, LoadedOK DEF JournalTypes, Log!Journal
    <3>2. QED
      BY <3>1 DEF Shelved, Readable
  <2>3. DiskOK'
    BY <1>2, <2>1, <2>2 DEF JournalTypes, DiskOK, Readable, Chained, Log!keptVars
  <2>4. head' \in 0..Len(file) /\ live' \in Values /\ history' \in Seq(Nat)
    <3>1. file \in Seq(Entries) /\ Chained(file, Len(file)) /\ turn \in Nat
      BY DEF JournalTypes, ChatOK, DiskOK
    <3>2. QED
      BY <1>1, <2>1, <3>1, SelectionRange
  <2>5. io.op = "none" /\ phase = "idle"
    BY <2>1 DEF JournalTypes, StoreOK
  <2>6. StoreOK'
    BY <1>2, <2>1, <2>4, <2>5 DEF JournalTypes, StoreOK, Log!turnVars
  <2>7. ChatOK'
    BY <1>1, <1>4, <1>2, <2>1, <2>4 DEF JournalTypes, ChatOK, Log!turnVars
  <2>8. QED
    BY <2>3, <2>6, <2>7 DEF JournalTypes
<1>34. QED
  BY <1>5, <1>6, <1>7, <1>8, <1>9, <1>9a, <1>10, <1>11, <1>12, <1>13, <1>14, <1>15, <1>16, <1>17,
     <1>18, <1>19, <1>20, <1>21, <1>22, <1>23, <1>24, <1>25, <1>26, <1>27, <1>28, <1>29, <1>30, <1>31,
     <1>32, <1>33 DEF Log!Next

-----------------------------------------------------------------------------
(* What opening a journal finds.                                             *)

(* The first n records are the same, and read the same.                      *)
Alike(n) == \A m \in 0..n :
  /\ Log!Selected(file, m) \in 0..m /\ Log!Selected(file', m) = Log!Selected(file, m)
  /\ Log!StateOf(file', m) = Log!StateOf(file, m)
  /\ Log!HistoryOf(file', m) = Log!HistoryOf(file, m)

SamePrefix(f, g, n) ==
  /\ n \in Nat /\ Len(f) \in Nat /\ Len(g) \in Nat /\ n <= Len(f) /\ n <= Len(g)
  /\ Chained(f, Len(f)) /\ Chained(g, Len(g)) /\ \A i \in 1..n : g[i] = f[i]

LEMMA SameReads ==
  ASSUME NEW f, NEW g, NEW n, SamePrefix(f, g, n), NEW m \in 0..n
  PROVE  /\ Log!Selected(f, m) \in 0..m /\ Log!Selected(g, m) = Log!Selected(f, m)
         /\ Log!StateOf(g, m) = Log!StateOf(f, m)
         /\ Log!HistoryOf(g, m) = Log!HistoryOf(f, m)
<1>1. /\ n \in Nat /\ Len(f) \in Nat /\ Len(g) \in Nat /\ n <= Len(f) /\ n <= Len(g)
      /\ Chained(f, Len(f)) /\ Chained(g, Len(g)) /\ \A i \in 1..n : g[i] = f[i]
  BY DEF SamePrefix
<1>2. Len(f) \in Nat /\ Len(g) \in Nat /\ m \in Nat
  BY <1>1
<1>3. \A i \in 1..m : g[i] = f[i]
  BY <1>1
<1>4. Log!Selected(f, m) = Log!Selected(g, m)
  BY <1>3, SelectedSame
<1>5. Log!Selected(f, m) \in 0..m
  <2>1. \A i \in 1..m : f[i].parent \in Nat /\ f[i].parent < i
    BY <1>1, <1>2 DEF Chained
  <2>2. QED
    BY <1>2, <2>1, SelectedRange
<1>6. Log!HistoryOf(f, m) = Log!HistoryOf(g, m)
  <2>1. \A i \in 1..n : f[i] = g[i]
    BY <1>1
  <2>2. QED
    BY <1>1, <1>2, <2>1, HistorySame
<1>7. Log!StateOf(g, m) = Log!StateOf(f, m)
  BY <1>2, <1>3 DEF Log!StateOf
<1>8. QED
  BY <1>4, <1>5, <1>6, <1>7

LEMMA AlikeReads ==
  ASSUME DiskOK, DiskOK', NEW n \in Nat, n <= Len(file), n <= Len(file'),
         \A i \in 1..n : file'[i] = file[i]
  PROVE  Alike(n)
<1>1. SamePrefix(file, file', n)
  BY DEF DiskOK, SamePrefix
<1>2. ASSUME NEW m \in 0..n
      PROVE  /\ Log!Selected(file, m) \in 0..m /\ Log!Selected(file', m) = Log!Selected(file, m)
             /\ Log!StateOf(file', m) = Log!StateOf(file, m)
             /\ Log!HistoryOf(file', m) = Log!HistoryOf(file, m)
  BY <1>1, SameReads
<1>3. QED
  BY <1>2 DEF Alike

LEMMA BeginReads ==
  ASSUME JournalTypes, NEW op \in Log!Operations, NEW parent \in 0..Len(file),
         NEW state \in Values,
         DiskOK', Len(file') = Len(file) + 1, Len(file) \in Nat,
         \A i \in 1..Len(file) : file'[i] = file[i], head' = Len(file) + 1,
         file'[head'] = Log!Record(KindOf(op), parent, state)
  PROVE  /\ Alike(Len(file))
         /\ Log!Selected(file', head') = IF op = "select" THEN parent ELSE head'
         /\ Log!StateOf(file', head') = state
         /\ Log!HistoryOf(file', head') = Log!HistoryOf(file, parent)
         /\ file'[head'].parent = parent /\ file'[head'].state = state
<1>1. Alike(Len(file))
  BY AlikeReads DEF JournalTypes
<1>2. KindOf(op) \in Log!Kinds /\ KindOf(op) \in Log!Selections /\ KindOf(op) # "message"
      /\ (KindOf(op) = "select" <=> op = "select")
  BY DEF KindOf, Log!Kinds, Log!Selections, Log!Operations
<1>3. /\ file'[head'].kind = KindOf(op) /\ file'[head'].parent = parent
      /\ file'[head'].state = state
  BY DEF Log!Record
<1>4. Log!Selected(file', Len(file) + 1) = IF op = "select" THEN parent ELSE head'
  BY <1>2, <1>3, SelectedNext
<1>5. Log!StateOf(file', head') = state
  BY <1>3 DEF Log!StateOf
<1>6. Log!HistoryOf(file', head') = Log!HistoryOf(file', parent)
  <2>1. Chained(file', Len(file')) /\ Len(file') \in Nat /\ head' \in 1..Len(file')
    BY DEF DiskOK
  <2>2. QED
    BY <1>2, <1>3, <2>1, HistoryChain
<1>7. Log!HistoryOf(file', parent) = Log!HistoryOf(file, parent)
  BY <1>1 DEF Alike
<1>8. QED
  BY <1>1, <1>3, <1>4, <1>5, <1>6, <1>7

LEMMA RecordReads ==
  ASSUME JournalTypes, NEW kind \in {"start", "message"}, DiskOK', Len(file') = Len(file) + 1,
         Len(file) \in Nat,
         \A i \in 1..Len(file) : file'[i] = file[i], head' = Len(file) + 1,
         file'[head'] = Log!Record(kind, head, Log!Blank)
  PROVE  /\ Alike(Len(file))
         /\ Log!Selected(file', head') = Log!Selected(file, Len(file))
         /\ Log!HistoryOf(file', head') = IF kind = "message" THEN Append(Log!HistoryOf(file, head), turn)
                                          ELSE Log!HistoryOf(file, head)
<1>1. Alike(Len(file))
  BY AlikeReads DEF JournalTypes
<1>2. kind \notin Log!Selections /\ kind # "select"
  BY DEF Log!Selections
<1>3. /\ file'[head'].kind = kind /\ file'[head'].parent = head /\ file'[head'].turn = turn
  BY DEF Log!Record
<1>4. Log!Selected(file', Len(file) + 1) = Log!Selected(file', Len(file))
  BY <1>2, <1>3, SelectedNext
<1>5. Log!Selected(file', Len(file)) = Log!Selected(file, Len(file))
  BY <1>1 DEF Alike
<1>6. Log!HistoryOf(file', head') = IF kind = "message" THEN Append(Log!HistoryOf(file', head), turn)
                                          ELSE Log!HistoryOf(file', head)
  <2>1. Chained(file', Len(file')) /\ Len(file') \in Nat /\ head' \in 1..Len(file')
    BY DEF DiskOK
  <2>2. QED
    BY <1>3, <2>1, HistoryChain
<1>7. Log!HistoryOf(file', head) = Log!HistoryOf(file, head)
  BY <1>1 DEF Alike, JournalTypes, StoreOK
<1>8. QED
  BY <1>1, <1>4, <1>5, <1>6, <1>7

LEMMA ChildReads ==
  ASSUME JournalTypes, DiskOK', Len(file) \in Nat, Len(file') = Len(file) + 2,
         \A i \in 1..Len(file) : file'[i] = file[i],
         file'[Len(file) + 1] = Log!Record("message", head, Log!Blank),
         file'[Len(file) + 2] = Log!Record("commit", Len(file) + 1, live)
  PROVE  /\ Alike(Len(file))
         /\ Log!Selected(file', Len(file) + 1) = Log!Selected(file, Len(file))
         /\ Log!Selected(file', Len(file) + 2) = Len(file) + 2
         /\ Log!StateOf(file', Len(file) + 2) = live
         /\ Log!HistoryOf(file', Len(file) + 1) = Append(Log!HistoryOf(file, head), turn)
         /\ Log!HistoryOf(file', Len(file) + 2) = Append(Log!HistoryOf(file, head), turn)
<1> DEFINE n == Len(file)
<1>1. Alike(Len(file))
  BY AlikeReads DEF JournalTypes
<1>2. "message" \notin Log!Selections /\ "commit" \in Log!Selections
  BY DEF Log!Selections
<1>3. /\ file'[n + 1].kind = "message" /\ file'[n + 1].parent = head /\ file'[n + 1].turn = turn
      /\ file'[n + 2].kind = "commit" /\ file'[n + 2].parent = n + 1 /\ file'[n + 2].state = live
  BY DEF Log!Record
<1>4. Log!Selected(file', n + 1) = Log!Selected(file', n)
  BY <1>2, <1>3, SelectedNext
<1>5. Log!Selected(file', n) = Log!Selected(file, n)
  BY <1>1 DEF Alike
<1>6. Log!Selected(file', (n + 1) + 1) = (n + 1) + 1
  <2>1. n + 1 \in Nat /\ (n + 1) + 1 = n + 2
    OBVIOUS
  <2>2. QED
    BY <1>2, <1>3, <2>1, SelectedNext
<1>7. Log!StateOf(file', n + 2) = live
  BY <1>3 DEF Log!StateOf
<1>8. /\ Log!HistoryOf(file', n + 1) = Append(Log!HistoryOf(file', head), turn)
      /\ Log!HistoryOf(file', n + 2) = Log!HistoryOf(file', n + 1)
  <2>1. Chained(file', Len(file')) /\ Len(file') \in Nat /\ n + 1 \in 1..Len(file')
        /\ n + 2 \in 1..Len(file')
    BY DEF DiskOK
  <2>2. QED
    BY <1>3, <2>1, HistoryChain
<1>9. Log!HistoryOf(file', head) = Log!HistoryOf(file, head)
  BY <1>1 DEF Alike, JournalTypes, StoreOK
<1>10. QED
  BY <1>1, <1>4, <1>5, <1>6, <1>7, <1>8, <1>9

LEMMA FailedReads ==
  ASSUME JournalTypes, NEW op \in Log!Operations, Log!AppendFailed(op),
         UNCHANGED <<edits, Log!keptVars>>,
         phase' = IF op = "commit" THEN "finishing" ELSE phase
  PROVE  /\ Appending /\ io.op = op /\ io.offset \in Nat /\ Len(file) \in Nat
         /\ Len(file') \in io.offset..Len(file)
         /\ Alike(Len(file')) /\ head' = io.previous /\ synced' = synced
         /\ committed' = committed /\ failed' = TRUE
<1>1. DiskOK' /\ Appending /\ Len(file') \in io.offset..Len(file)
      /\ \A i \in 1..Len(file') : file'[i] = file[i]
  BY FailedTypes
<1>2. Len(file) \in Nat /\ io.offset \in Nat
  BY DEF JournalTypes, StoreOK, DiskOK
<1>3. Alike(Len(file'))
  BY <1>1, <1>2, AlikeReads DEF JournalTypes
<1>4. QED
  BY <1>1, <1>2, <1>3 DEF Log!AppendFailed

(* What a crash leaves of a journal reads as it did before.                  *)
LEMMA CutReads ==
  ASSUME NEW j \in Shelved, Readable(j), NEW d \in Log!Cut(j), NEW n \in Log!Lengths(d)
  PROVE  n \in Log!Lengths(j) /\ Log!StateAt(d, n) = Log!StateAt(j, n)
         /\ Log!HistoryAt(d, n) = Log!HistoryAt(j, n)
<1>1. /\ d \in Shelved /\ Readable(d) /\ d.synced = j.synced
      /\ Len(d.file) \in Log!Lengths(j) /\ d.file = SubSeq(j.file, 1, Len(d.file))
  BY CutOK
<1>2. /\ d.file \in Seq(Entries) /\ j.file \in Seq(Entries) /\ Len(d.file) \in Nat
      /\ Len(j.file) \in Nat
      /\ j.synced \in Nat
  BY <1>1 DEF Shelved
<1>3. n \in Log!Lengths(j) /\ n \in 0..Len(d.file) /\ Len(d.file) \in 0..Len(j.file)
  BY <1>1, <1>2 DEF Log!Lengths, Readable
<1>4. \A i \in 1..Len(d.file) : d.file[i] = j.file[i]
  BY <1>1, <1>2, <1>3, CutOff
<1>5. ASSUME NEW m \in 0..Len(d.file)
      PROVE  /\ Log!Selected(j.file, m) \in 0..m
             /\ Log!Selected(d.file, m) = Log!Selected(j.file, m)
             /\ Log!StateOf(d.file, m) = Log!StateOf(j.file, m)
             /\ Log!HistoryOf(d.file, m) = Log!HistoryOf(j.file, m)
  <2>1. Chained(d.file, Len(d.file)) /\ Chained(j.file, Len(j.file))
    BY <1>1 DEF Readable
  <2>2. Len(d.file) <= Len(j.file) /\ Len(d.file) <= Len(d.file)
    BY <1>2, <1>3
  <2>3. SamePrefix(j.file, d.file, Len(d.file))
    BY <1>2, <1>4, <2>1, <2>2 DEF SamePrefix
  <2>4. QED
    BY <2>3, SameReads
<1>6. QED
  BY <1>3, <1>5 DEF Log!StateAt, Log!HistoryAt

-----------------------------------------------------------------------------
(* What the plugins have checkpointed is kept.                               *)

(* Values are versions, so that they compare.                                *)
LEMMA ValueTyped == edits \in Nat =>
  \A s \in Values, o \in Owners : s[o] \in Nat /\ s[o] \in 0..edits
BY DEF Values

LEMMA StatesTyped ==
  ASSUME JournalTypes, NEW j \in Shelved, Readable(j), NEW n \in Log!Lengths(j)
  PROVE  Log!StateAt(j, n) \in Values /\ n \in 0..Len(j.file) /\ Len(j.file) \in Nat
<1>1. j.file \in Seq(Entries) /\ Chained(j.file, Len(j.file)) /\ j.synced \in Nat
  BY DEF Shelved, Readable
<1>2. Len(j.file) \in Nat /\ n \in 0..Len(j.file)
  BY <1>1 DEF Log!Lengths
<1>3. \A i \in 1..n : j.file[i].parent \in Nat /\ j.file[i].parent < i
  BY <1>1, <1>2 DEF Chained
<1>4. Log!Selected(j.file, n) \in 0..n
  BY <1>2, <1>3, SelectedRange
<1>5. \A i \in 1..Len(j.file) : j.file[i].state \in Values
  <2>1. \A i \in 1..Len(j.file) : j.file[i] \in Entries
    BY <1>1
  <2>2. QED
    BY <2>1 DEF Entries
<1>6. Log!Blank \in Values
  BY BlankValue DEF JournalTypes, ChatOK
<1>7. QED
  BY <1>2, <1>4, <1>5, <1>6 DEF Log!StateAt, Log!StateOf

(* The open journal keeps what was kept, when it reads as it did up to n and *)
(* the records after that keep it too.                                       *)
LEMMA KeepsGrown ==
  ASSUME JournalTypes, JournalTypes', Keeps(Log!Journal), NEW n \in 0..Len(file), Alike(n),
         n <= Len(file'),
         synced <= synced', AtLeast(kept, kept'), UNCHANGED edits,
         \A m \in Log!Lengths(Log!Journal)' : m > n =>
           AtLeast(Log!StateOf(file', Log!Selected(file', m)), kept')
  PROVE  Keeps(Log!Journal)'
<1>1. /\ edits \in Nat /\ kept \in Values /\ kept' \in Values /\ synced \in Nat /\ synced' \in Nat
      /\ Len(file) \in Nat /\ Len(file') \in Nat /\ n \in Nat /\ Values' = Values
  BY DEF JournalTypes, ChatOK, DiskOK, Values
<1>2. Log!Journal' = [file |-> file', synced |-> synced', torn |-> torn', published |-> published', kept |-> kept']
  BY DEF Log!Journal
<1>3. Log!Journal = [file |-> file, synced |-> synced, torn |-> torn, published |-> published, kept |-> kept]
  BY DEF Log!Journal
<1>4. ASSUME NEW m \in Log!Lengths(Log!Journal)'
      PROVE  AtLeast(Log!StateOf(file', Log!Selected(file', m)), kept')
  <2>1. m \in synced'..Len(file') /\ m \in Nat
    BY <1>1, <1>2 DEF Log!Lengths
  <2>2. CASE m > n
    BY <1>4, <2>2
  <2>3. CASE m <= n
    <3>1. m \in 0..n /\ m \in Log!Lengths(Log!Journal)
      BY <1>1, <1>3, <2>1, <2>3 DEF Log!Lengths
    <3>2. Log!StateAt(Log!Journal, m) = Log!StateOf(file', Log!Selected(file', m))
      <4>1. Log!Selected(file, m) \in 0..n /\ Log!Selected(file', m) = Log!Selected(file, m)
        BY <1>1, <3>1 DEF Alike
      <4>2. Log!StateOf(file', Log!Selected(file, m)) = Log!StateOf(file, Log!Selected(file, m))
        BY <4>1 DEF Alike
      <4>3. QED
        BY <1>3, <4>1, <4>2 DEF Log!StateAt
    <3>3. AtLeast(Log!StateAt(Log!Journal, m), kept)
      BY <1>3, <3>1 DEF Keeps
    <3>4. Log!StateAt(Log!Journal, m) \in Values
      BY <3>1, StatesTyped, JournalShelved DEF JournalTypes
    <3>5. QED
      BY <1>1, <3>2, <3>3, <3>4, ValueTyped DEF AtLeast
  <2>4. QED
    BY <1>1, <2>1, <2>2, <2>3
<1>5. QED
  BY <1>2, <1>4 DEF Keeps, Log!StateAt

LEMMA KeepsSame ==
  ASSUME Keeps(Log!Journal), UNCHANGED <<Log!diskVars, Log!keptVars>>
  PROVE  Keeps(Log!Journal)' /\ \A k \in 1..Len(shelf) : Keeps(shelf[k]) => Keeps(shelf'[k])
BY DEF Log!diskVars, Log!keptVars, Log!Journal, Keeps, AtLeast, Log!Lengths, Log!StateAt

LEMMA KeepsLoaded ==
  ASSUME NEW j \in Shelved, Readable(j), Keeps(j)
  PROVE  Keeps(Log!Loaded(j))
<1>1. /\ Log!Loaded(j).file = j.file /\ Log!Loaded(j).kept = j.kept
      /\ Log!Loaded(j).synced >= j.synced
      /\ Log!Loaded(j).synced \in Nat /\ j.synced \in Nat /\ Len(j.file) \in Nat
  BY LoadedOK DEF Shelved
<1>2. \A n \in Log!Lengths(Log!Loaded(j)) : n \in Log!Lengths(j)
         /\ Log!StateAt(Log!Loaded(j), n) = Log!StateAt(j, n)
  BY <1>1 DEF Log!Lengths, Log!StateAt
<1>3. QED
  BY <1>1, <1>2 DEF Keeps

LEMMA KeepsCut ==
  ASSUME NEW j \in Shelved, Readable(j), Keeps(j), NEW d \in Log!Cut(j)
  PROVE  Keeps(d)
BY CutOK, CutReads DEF Keeps

LEMMA KeptStep ==
  ASSUME JournalTypes, JournalTypes', KeptInv, Log!Next
  PROVE  KeptInv'
<1>1. /\ edits \in Nat /\ NoState \notin Values /\ kept \in Values /\ kept' \in Values'
      /\ live \in Values /\ child \in Values
      /\ rollback \in Values \cup {NoState} /\ Len(file) \in Nat /\ Len(shelf) \in Nat
      /\ owners \subseteq Owners
      /\ cmd \in Values /\ io.state \in Values
  <2>1. edits \in 0..MaxEdits /\ MaxEdits \in Nat /\ NoState \notin Values
    BY Bounds DEF JournalTypes, ChatOK
  <2>2. kept \in Values /\ kept' \in Values' /\ Len(file) \in Nat /\ Len(shelf) \in Nat
    BY DEF JournalTypes, DiskOK
  <2>3. /\ live \in Values /\ child \in Values /\ rollback \in Values \cup {NoState}
        /\ owners \subseteq Owners
        /\ cmd \in Values
    BY DEF JournalTypes, ChatOK
  <2>4. io.state \in Values
    BY DEF JournalTypes, StoreOK
  <2>5. QED
    BY <2>1, <2>2, <2>3, <2>4
<1>2. \A s \in Values, o \in Owners : s[o] \in Nat /\ s[o] <= edits
  BY <1>1, ValueTyped
<1>3. "none" \notin Log!Operations /\ Log!Operations = {"commit", "checkpoint", "select"}
  BY DEF Log!Operations
<1>4. MemoryKept
  BY DEF KeptInv
<1>4a. up /\ phase # "undone" => AtLeast(live, kept)
  BY <1>4 DEF MemoryKept, LiveKept, Log!Undone, AtLeast
<1>4b. AtLeast(live', kept') => LiveKept'
  BY DEF LiveKept, AtLeast
<1>4c. UNCHANGED <<live, kept, owners, phase>> => LiveKept' = LiveKept
  BY DEF LiveKept, Log!Undone
<1>5. CASE Log!BeginTurn
  <2>1. UNCHANGED <<Log!diskVars, Log!keptVars>>
    BY <1>5 DEF Log!BeginTurn
  <2>2. Keeps(Log!Journal)' /\ \A k \in 1..Len(shelf') : Keeps(shelf'[k])
    BY <2>1, KeepsSame DEF KeptInv, Log!diskVars
  <2>3. MemoryKept'
    BY <1>5, <1>1, <1>2, <1>3, <1>4, <2>1 DEF Log!BeginTurn, MemoryKept, LiveKept, Log!Undone, AtLeast, JournalTypes,
                                              StoreOK, ChatOK, Log!storeVars, Log!chatVars,
                                              Log!turnVars, Log!diskVars, Log!keptVars, Log!Free
  <2>4. QED
    BY <2>2, <2>3 DEF KeptInv
<1>6. CASE Log!StartPrompt
  <2>1. /\ Log!AppendRecord("start") /\ UNCHANGED <<edits, Log!keptVars>>
        /\ phase' \in Log!Phases /\ phase' # "committing" /\ phase # "idle"
        /\ phase' \notin {"child", "restored"} /\ phase # "undone" /\ UNCHANGED <<live, rollback>>
    BY <1>6 DEF Log!StartPrompt, Log!turnVars, Log!Phases, Log!chatVars
  <2>2. /\ DiskOK' /\ Len(file') = Len(file) + 1 /\ Len(file) \in Nat
        /\ (\A i \in 1..Len(file) : file'[i] = file[i])
              /\ file'[head'] = Log!Record("start", head, Log!Blank) /\ head' = Len(file) + 1
    BY <2>1, RecordTypes DEF Log!AppendRecord
  <2>3. Alike(Len(file)) /\ Log!Selected(file', head') = Log!Selected(file, Len(file))
    BY <2>2, RecordReads
  <2>4. AtLeast(Log!StateOf(file', Log!Selected(file', head')), kept')
    <3>1. Len(file) \in Log!Lengths(Log!Journal) /\ Keeps(Log!Journal)
      BY <1>1 DEF JournalTypes, DiskOK, Log!Lengths, Log!Journal, KeptInv
    <3>2. AtLeast(Log!StateOf(file, Log!Selected(file, Len(file))), kept)
      BY <3>1 DEF Keeps, Log!StateAt, Log!Journal
    <3>3. Log!StateOf(file', Log!Selected(file, Len(file))) = Log!StateOf(file, Log!Selected(file, Len(file)))
      <4>1. Log!Selected(file, Len(file)) \in 0..Len(file)
        BY <2>2, <2>3 DEF Alike
      <4>2. QED
        BY <2>3, <4>1 DEF Alike
    <3>4. QED
      BY <2>1, <2>3, <3>2, <3>3 DEF Log!keptVars
  <2>5. Keeps(Log!Journal)'
    <3>1. \A m \in Log!Lengths(Log!Journal)' : m > Len(file) => m = head'
      BY <2>2 DEF Log!Lengths, Log!Journal, JournalTypes, DiskOK
    <3>2. synced <= synced' /\ AtLeast(kept, kept') /\ Len(file) \in 0..Len(file)
          /\ Len(file) <= Len(file')
      BY <1>1, <1>2, <2>1, <2>2 DEF Log!AppendRecord, AtLeast, Log!keptVars, JournalTypes, DiskOK
    <3>3. QED
      BY <2>1, <2>3, <2>4, <3>1, <3>2, KeepsGrown DEF KeptInv
  <2>6. MemoryKept'
    BY <1>1, <1>2, <1>4, <1>4a, <1>4b, <2>1 DEF MemoryKept, AtLeast, Log!AppendRecord, Log!Free, Log!keptVars
  <2>7. \A k \in 1..Len(shelf') : Keeps(shelf'[k])
    BY <2>1 DEF KeptInv, Log!AppendRecord
  <2>8. QED
    BY <2>5, <2>6, <2>7 DEF KeptInv
<1>7. CASE Log!AddHistory
  <2>1. /\ Log!AppendRecord("message") /\ UNCHANGED <<edits, Log!keptVars>>
        /\ phase' \in Log!Phases /\ phase' # "committing" /\ phase # "idle"
        /\ phase' \notin {"child", "restored"} /\ phase # "undone" /\ UNCHANGED <<live, rollback>>
    BY <1>7 DEF Log!AddHistory, Log!turnVars, Log!Phases, Log!chatVars
  <2>2. /\ DiskOK' /\ Len(file') = Len(file) + 1 /\ Len(file) \in Nat
        /\ (\A i \in 1..Len(file) : file'[i] = file[i])
              /\ file'[head'] = Log!Record("message", head, Log!Blank) /\ head' = Len(file) + 1
    BY <2>1, RecordTypes DEF Log!AppendRecord
  <2>3. Alike(Len(file)) /\ Log!Selected(file', head') = Log!Selected(file, Len(file))
    BY <2>2, RecordReads
  <2>4. AtLeast(Log!StateOf(file', Log!Selected(file', head')), kept')
    <3>1. Len(file) \in Log!Lengths(Log!Journal) /\ Keeps(Log!Journal)
      BY <1>1 DEF JournalTypes, DiskOK, Log!Lengths, Log!Journal, KeptInv
    <3>2. AtLeast(Log!StateOf(file, Log!Selected(file, Len(file))), kept)
      BY <3>1 DEF Keeps, Log!StateAt, Log!Journal
    <3>3. Log!StateOf(file', Log!Selected(file, Len(file))) = Log!StateOf(file, Log!Selected(file, Len(file)))
      <4>1. Log!Selected(file, Len(file)) \in 0..Len(file)
        BY <2>2, <2>3 DEF Alike
      <4>2. QED
        BY <2>3, <4>1 DEF Alike
    <3>4. QED
      BY <2>1, <2>3, <3>2, <3>3 DEF Log!keptVars
  <2>5. Keeps(Log!Journal)'
    <3>1. \A m \in Log!Lengths(Log!Journal)' : m > Len(file) => m = head'
      BY <2>2 DEF Log!Lengths, Log!Journal, JournalTypes, DiskOK
    <3>2. synced <= synced' /\ AtLeast(kept, kept') /\ Len(file) \in 0..Len(file)
          /\ Len(file) <= Len(file')
      BY <1>1, <1>2, <2>1, <2>2 DEF Log!AppendRecord, AtLeast, Log!keptVars, JournalTypes, DiskOK
    <3>3. QED
      BY <2>1, <2>3, <2>4, <3>1, <3>2, KeepsGrown DEF KeptInv
  <2>6. MemoryKept'
    BY <1>1, <1>2, <1>4, <1>4a, <1>4b, <2>1 DEF MemoryKept, AtLeast, Log!AppendRecord, Log!Free, Log!keptVars
  <2>7. \A k \in 1..Len(shelf') : Keeps(shelf'[k])
    BY <2>1 DEF KeptInv, Log!AppendRecord
  <2>8. QED
    BY <2>5, <2>6, <2>7 DEF KeptInv
<1>8. CASE Log!Delegate
  <2>1. UNCHANGED <<Log!diskVars, Log!keptVars>>
    BY <1>8 DEF Log!Delegate
  <2>2. Keeps(Log!Journal)' /\ \A k \in 1..Len(shelf') : Keeps(shelf'[k])
    BY <2>1, KeepsSame DEF KeptInv, Log!diskVars
  <2>3. MemoryKept'
    BY <1>8, <1>1, <1>2, <1>3, <1>4, <2>1 DEF Log!Delegate, MemoryKept, LiveKept, Log!Undone, AtLeast, JournalTypes,
                                              StoreOK, ChatOK, Log!storeVars, Log!chatVars,
                                              Log!turnVars, Log!diskVars, Log!keptVars, Log!Free
  <2>4. QED
    BY <2>2, <2>3 DEF KeptInv
<1>9. CASE Log!RestoreChild
  <2>1. UNCHANGED <<Log!diskVars, Log!keptVars>>
    BY <1>9 DEF Log!RestoreChild
  <2>2. Keeps(Log!Journal)' /\ \A k \in 1..Len(shelf') : Keeps(shelf'[k])
    BY <2>1, KeepsSame DEF KeptInv, Log!diskVars
  <2>3. MemoryKept'
    BY <1>9, <1>1, <1>2, <1>3, <1>4, <2>1 DEF Log!RestoreChild, MemoryKept, LiveKept, Log!Undone, AtLeast, JournalTypes,
                                              StoreOK, ChatOK, Log!storeVars, Log!chatVars,
                                              Log!turnVars, Log!diskVars, Log!keptVars, Log!Free,
                                              Log!Returned
  <2>4. QED
    BY <2>2, <2>3 DEF KeptInv
<1>9a. CASE Log!RestoreFails
  <2>1. UNCHANGED <<Log!diskVars, Log!keptVars>>
    BY <1>9a DEF Log!RestoreFails
  <2>2. Keeps(Log!Journal)' /\ \A k \in 1..Len(shelf') : Keeps(shelf'[k])
    BY <2>1, KeepsSame DEF KeptInv, Log!diskVars
  <2>3. MemoryKept'
    BY <1>9a, <1>3, <1>4, <2>1 DEF Log!RestoreFails, MemoryKept, LiveKept, Log!Undone, AtLeast, Log!storeVars,
                                   Log!diskVars, Log!keptVars, Log!Free
  <2>4. QED
    BY <2>2, <2>3 DEF KeptInv
<1>10. CASE Log!CommitTurn
  <2>1. /\ Log!BeginAppend("commit", "none", KindOf("commit"), head, live)
        /\ UNCHANGED <<edits, rollback, owners, child>>
    BY <1>10 DEF Log!CommitTurn, KindOf, Log!chatVars, Log!turnVars
  <2>2. /\ head \in 0..Len(file) /\ live \in Values /\ published' \in SUBSET Nat
        /\ kept' \in Values
        /\ kept' = kept /\ UNCHANGED <<live, rollback, owners, child>> /\ phase' = "committing"
        /\ phase # "undone"
    BY <1>10, <1>1 DEF JournalTypes, StoreOK, DiskOK, Log!keptVars, Log!CommitTurn, Log!chatVars
  <2>3. ("commit" = "checkpoint" => "none" \in Owners) /\ "commit" = "commit" <=>
          phase' = "committing"
    BY <2>2
  <2>4. AtLeast(live, kept') /\ AtLeast(kept, kept')
    BY <1>1, <1>2, <1>4a, <2>1, <2>2 DEF AtLeast, Log!BeginAppend, Log!Free
  <2>5. /\ DiskOK' /\ Len(file') = Len(file) + 1 /\ Len(file) \in Nat
        /\ (\A i \in 1..Len(file) : file'[i] = file[i])
              /\ file'[head'] = Log!Record(KindOf("commit"), head, live)
        /\ head' = Len(file) + 1
    <3>1. head' = Len(file) + 1
      BY <2>1 DEF Log!BeginAppend
    <3>2. QED
      BY <1>10, <1>3, <2>1, <2>2, <2>3, <3>1, BeginTypes
  <2>6. /\ Alike(Len(file)) /\ Log!StateOf(file', head') = live /\ file'[head'].state = live
        /\ Log!Selected(file', head') = IF "commit" = "select" THEN head ELSE head'
    BY <1>3, <2>2, <2>5, BeginReads
  <2>7. AtLeast(Log!StateOf(file', Log!Selected(file', head')), kept')
    BY <2>4, <2>6
  <2>8. Keeps(Log!Journal)'
    <3>1. \A m \in Log!Lengths(Log!Journal)' : m > Len(file) => m = head'
      BY <2>5 DEF Log!Lengths, Log!Journal, JournalTypes, DiskOK
    <3>2. synced <= synced' /\ Len(file) \in 0..Len(file) /\ Len(file) <= Len(file')
      BY <1>1, <2>1, <2>5 DEF Log!BeginAppend, JournalTypes, DiskOK
    <3>3. QED
      BY <2>1, <2>4, <2>6, <2>7, <3>1, <3>2, KeepsGrown DEF KeptInv
  <2>9. \A k \in 1..Len(shelf') : Keeps(shelf'[k])
    BY <2>1 DEF KeptInv, Log!BeginAppend
  <2>10. io' = [op |-> "commit", owner |-> "none", previous |-> head, offset |-> Len(file),
              history |-> history, state |-> live]
    BY <2>1 DEF Log!BeginAppend
  <2>11. MemoryKept'
    BY <1>1, <1>2, <1>4, <1>4b, <2>1, <2>2, <2>4, <2>10 DEF MemoryKept, AtLeast, Log!BeginAppend, Log!Free
  <2>12. QED
    BY <2>8, <2>9, <2>11 DEF KeptInv
<1>11. CASE Log!CommitChild
  <2>1. /\ DiskOK' /\ Len(file) \in Nat /\ Len(file') = Len(file) + 2
        /\ Alike(Len(file))
        /\ Log!Selected(file', Len(file) + 1) = Log!Selected(file, Len(file))
        /\ Log!Selected(file', Len(file) + 2) = Len(file) + 2
        /\ Log!StateOf(file', Len(file) + 2) = live
    BY <1>11, ChildTypes, ChildReads
  <2>2. UNCHANGED <<synced, torn, shelf, up, edits, live, rollback, owners, child, published, kept>> /\ up
        /\ phase' = "committing" /\ phase # "undone"
    BY <1>11 DEF Log!CommitChild, Log!chatVars, Log!keptVars, Log!Free
  <2>3. AtLeast(live, kept') /\ AtLeast(kept, kept')
    BY <1>1, <1>2, <1>4a, <2>2 DEF AtLeast
  <2>4. AtLeast(Log!StateOf(file', Log!Selected(file, Len(file))), kept')
    <3>1. Len(file) \in Log!Lengths(Log!Journal) /\ Keeps(Log!Journal)
      BY <1>1 DEF JournalTypes, DiskOK, Log!Lengths, Log!Journal, KeptInv
    <3>2. AtLeast(Log!StateOf(file, Log!Selected(file, Len(file))), kept)
      BY <3>1 DEF Keeps, Log!StateAt, Log!Journal
    <3>3. Log!Selected(file, Len(file)) \in 0..Len(file)
      BY <2>1 DEF Alike
    <3>4. Log!StateOf(file', Log!Selected(file, Len(file))) = Log!StateOf(file, Log!Selected(file, Len(file)))
      BY <2>1, <3>3 DEF Alike
    <3>5. QED
      BY <2>2, <3>2, <3>4
  <2>5. Keeps(Log!Journal)'
    <3>1. \A m \in Log!Lengths(Log!Journal)' : m > Len(file) =>
            m = Len(file) + 1 \/ m = Len(file) + 2
      BY <2>1 DEF Log!Lengths, Log!Journal, JournalTypes, DiskOK
    <3>2. synced <= synced' /\ Len(file) \in 0..Len(file) /\ Len(file) <= Len(file')
      BY <1>1, <2>1, <2>2 DEF JournalTypes, DiskOK
    <3>3. \A m \in Log!Lengths(Log!Journal)' : m > Len(file) =>
            AtLeast(Log!StateOf(file', Log!Selected(file', m)), kept')
      BY <2>1, <2>3, <2>4, <3>1
    <3>4. QED
      BY <2>1, <2>2, <2>3, <3>2, <3>3, KeepsGrown DEF KeptInv
  <2>6. io'.op = "commit"
    BY <1>11 DEF Log!CommitChild
  <2>7. MemoryKept'
    BY <1>4, <1>4b, <2>2, <2>3, <2>6 DEF MemoryKept, AtLeast
  <2>8. \A k \in 1..Len(shelf') : Keeps(shelf'[k])
    BY <2>2 DEF KeptInv
  <2>9. QED
    BY <2>5, <2>7, <2>8 DEF KeptInv
<1>12. CASE Log!CommitSynced
  <2>1. Log!Synced("commit") /\ UNCHANGED <<file, torn, shelf, up, edits>> /\ io' = Log!NoIo
        /\ synced' = Len(file)
    BY <1>12 DEF Log!CommitSynced, Log!Synced
  <2>2. io.op = "commit" /\ Appending /\ up /\ io'.op = "none"
    BY <1>3, <2>1 DEF Log!Synced, Log!NoIo, JournalTypes, StoreOK
  <2>3. head = Len(file) /\ head \in 1..Len(file) /\ file[head].kind = KindOf("commit")
        /\ synced <= Len(file) /\ synced \in Nat
    BY <2>2 DEF Appending, JournalTypes, StoreOK, DiskOK
  <2>4. /\ AtLeast(Log!StateOf(file, Log!Selected(file, head)), kept)
        /\ Alike(Len(file))
    <3>1. Len(file) \in Log!Lengths(Log!Journal) /\ Keeps(Log!Journal)
      BY <1>1 DEF JournalTypes, DiskOK, Log!Lengths, Log!Journal, KeptInv
    <3>2. AtLeast(Log!StateOf(file, Log!Selected(file, head)), kept)
      BY <2>3, <3>1 DEF Keeps, Log!StateAt, Log!Journal
    <3>3. Alike(Len(file))
      BY <1>1, <2>1, AlikeReads DEF JournalTypes
    <3>4. QED
      BY <3>2, <3>3
  <2>5. AtLeast(Log!StateOf(file, Log!Selected(file, head)), kept')
    BY <1>12, <2>4 DEF Log!CommitSynced, Log!keptVars
  <2>6. Keeps(Log!Journal)'
    <3>1. \A m \in Log!Lengths(Log!Journal)' : m = Len(file)
      BY <1>1, <2>1, <2>3 DEF Log!Lengths, Log!Journal
    <3>2. \A m \in Log!Lengths(Log!Journal)' : AtLeast(Log!StateAt(Log!Journal', m), kept')
      BY <2>1, <2>3, <2>5, <3>1 DEF Log!StateAt, Log!Journal
    <3>3. QED
      BY <3>2 DEF Keeps, Log!Journal
  <2>7. \A k \in 1..Len(shelf') : Keeps(shelf'[k])
    BY <2>1 DEF KeptInv
  <2>8. MemoryKept'
    <3>1. phase # "undone"
      BY <2>2 DEF JournalTypes, StoreOK
    <3>2. QED
      BY <1>12, <1>4, <1>4a, <1>4b, <2>1, <2>2, <3>1 DEF Log!CommitSynced, Log!keptVars, MemoryKept, AtLeast
  <2>9. QED
    BY <2>6, <2>7, <2>8 DEF KeptInv
<1>13. CASE Log!CommitFailed
  <2>1. Log!AppendFailed("commit") /\ UNCHANGED <<edits, Log!keptVars>>
        /\ phase' = IF "commit" = "commit" THEN "finishing" ELSE phase
    BY <1>13 DEF Log!CommitFailed, Log!turnVars
  <2>2. /\ io.op = "commit" /\ Len(file') \in io.offset..Len(file) /\ Alike(Len(file'))
        /\ synced' = synced
        /\ io.offset \in Nat
    BY <1>3, <2>1, FailedReads
  <2>3. UNCHANGED <<shelf, up>> /\ io' = Log!NoIo /\ Log!NoIo.op = "none" /\ up
    BY <2>1 DEF Log!AppendFailed, Log!NoIo
  <2>4. Keeps(Log!Journal)'
    <3>1. \A m \in Log!Lengths(Log!Journal)' : ~ (m > Len(file'))
      BY <2>2 DEF Log!Lengths, Log!Journal, JournalTypes, DiskOK
    <3>2. synced <= synced' /\ AtLeast(kept, kept') /\ Len(file') \in 0..Len(file)
          /\ Len(file') <= Len(file')
      BY <1>1, <1>2, <2>1, <2>2 DEF AtLeast, Log!keptVars, JournalTypes, DiskOK
    <3>3. QED
      BY <2>1, <2>2, <3>1, <3>2, KeepsGrown DEF KeptInv
  <2>5. \A k \in 1..Len(shelf') : Keeps(shelf'[k])
    BY <2>3 DEF KeptInv
  <2>6. MemoryKept'
    <3>1. phase # "undone"
      BY <2>2 DEF JournalTypes, StoreOK
    <3>2. QED
      BY <1>13, <1>1, <1>2, <1>4, <1>4a, <1>4b, <2>2, <2>3, <3>1
      DEF Log!CommitFailed, MemoryKept, AtLeast, Log!keptVars, Log!chatVars, Log!turnVars
  <2>7. QED
    BY <2>4, <2>5, <2>6 DEF KeptInv
<1>14. CASE Log!PublishDone
  <2>1. UNCHANGED <<Log!diskVars, Log!storeVars, Log!chatVars, turn, start, child, kept>>
        /\ phase' = "finishing" /\ phase # "undone"
    BY <1>14 DEF Log!PublishDone
  <2>2. Keeps(Log!Journal)' /\ \A k \in 1..Len(shelf') : Keeps(shelf'[k])
    BY <2>1 DEF KeptInv, Log!diskVars, Log!Journal, Keeps, AtLeast, Log!Lengths, Log!StateAt
  <2>3. MemoryKept'
    BY <1>4, <1>4a, <1>4b, <2>1 DEF MemoryKept, AtLeast, Log!storeVars, Log!chatVars, Log!diskVars
  <2>4. QED
    BY <2>2, <2>3 DEF KeptInv
<1>15. CASE Log!FailTurn
  <2>1. UNCHANGED <<Log!diskVars, Log!keptVars>>
    BY <1>15 DEF Log!FailTurn
  <2>2. Keeps(Log!Journal)' /\ \A k \in 1..Len(shelf') : Keeps(shelf'[k])
    BY <2>1, KeepsSame DEF KeptInv, Log!diskVars
  <2>3. MemoryKept'
    BY <1>15, <1>1, <1>2, <1>3, <1>4, <2>1 DEF Log!FailTurn, MemoryKept, LiveKept, Log!Undone, AtLeast, JournalTypes,
                                               StoreOK, ChatOK, Log!storeVars, Log!chatVars,
                                               Log!turnVars, Log!diskVars, Log!keptVars, Log!Free
  <2>4. QED
    BY <2>2, <2>3 DEF KeptInv
<1>16. CASE Log!AppendFails
  <2>1. UNCHANGED <<file, synced, shelf, up, head, io, live, rollback, owners, child, Log!keptVars>>
        /\ phase' = "finishing" /\ phase # "undone"
    BY <1>16 DEF Log!AppendFails
  <2>2. Keeps(Log!Journal)' /\ \A k \in 1..Len(shelf') : Keeps(shelf'[k])
    BY <2>1 DEF KeptInv, Log!keptVars, Log!Journal, Keeps, AtLeast, Log!Lengths, Log!StateAt
  <2>3. MemoryKept'
    BY <1>4, <1>4a, <1>4b, <2>1 DEF MemoryKept, AtLeast, Log!keptVars
  <2>4. QED
    BY <2>2, <2>3 DEF KeptInv
<1>17. CASE Log!FinishTurn
  <2>1. UNCHANGED <<Log!diskVars, Log!keptVars>>
    BY <1>17 DEF Log!FinishTurn
  <2>2. Keeps(Log!Journal)' /\ \A k \in 1..Len(shelf') : Keeps(shelf'[k])
    BY <2>1, KeepsSame DEF KeptInv, Log!diskVars
  <2>3. MemoryKept'
    BY <1>17, <1>1, <1>2, <1>3, <1>4, <2>1 DEF Log!FinishTurn, MemoryKept, LiveKept, Log!Undone, AtLeast, JournalTypes,
                                               StoreOK, ChatOK, Log!storeVars, Log!chatVars,
                                               Log!turnVars, Log!diskVars, Log!keptVars, Log!Free,
                                               Log!TurnOver
  <2>4. QED
    BY <2>2, <2>3 DEF KeptInv
<1>18. ASSUME NEW o \in Owners, Log!PluginEdit(o) PROVE KeptInv'
  <2>1. UNCHANGED <<Log!diskVars, Log!keptVars, Log!storeVars, rollback, owners, phase, child>>
    BY <1>18 DEF Log!PluginEdit, Log!turnVars
  <2>2. Keeps(Log!Journal)' /\ \A k \in 1..Len(shelf') : Keeps(shelf'[k])
    BY <2>1, KeepsSame DEF KeptInv, Log!diskVars
  <2>3. \A p \in Owners : live'[p] = IF p = o THEN edits + 1 ELSE live[p]
    BY <1>18, <1>1 DEF Log!PluginEdit, Values
  <2>4. \A p \in Owners : live'[p] \in Nat /\ live[p] \in Nat /\ live[p] <= live'[p]
           /\ kept[p] \in Nat
    BY <1>1, <1>2, <2>3
  <2>5. io.op = "checkpoint" => io.owner \in Owners /\ file[head].state[io.owner] \in Nat
    <3>1. SUFFICES ASSUME io.op = "checkpoint"
                   PROVE  io.owner \in Owners /\ file[head].state \in Values
      BY <1>2
    <3>2. Appending /\ io.owner \in Owners
      BY <1>3, <3>1 DEF JournalTypes, StoreOK
    <3>3. head \in 1..Len(file)
      BY <1>1, <3>2 DEF Appending, JournalTypes, StoreOK, DiskOK
    <3>4. file[head] \in Entries
      BY <3>3 DEF JournalTypes, DiskOK
    <3>5. QED
      BY <3>2, <3>4 DEF Entries
  <2>6. UNCHANGED <<file, head, up, io, kept>>
    BY <2>1 DEF Log!diskVars, Log!storeVars, Log!keptVars
  <2>7. /\ up' => LiveKept'
        /\ io.op = "checkpoint" => file[head].state[io.owner] <= live'[io.owner]
    <3>1. up => \A p \in Owners : Log!Undone(p) \/ live'[p] >= kept[p]
      BY <1>4, <2>4 DEF MemoryKept, LiveKept
    <3>2. io.op = "checkpoint" => file[head].state[io.owner] <= live[io.owner]
      BY <1>4 DEF MemoryKept
    <3>3. UNCHANGED <<owners, phase, kept, up>>
      BY <2>1, <2>6
    <3>4. up' => LiveKept'
      BY <3>1, <3>3 DEF LiveKept, Log!Undone
    <3>5. QED
      BY <2>4, <2>5, <3>2, <3>4
  <2>8. MemoryKept'
    BY <1>4, <2>1, <2>6, <2>7 DEF MemoryKept, AtLeast
  <2>9. QED
    BY <2>2, <2>8 DEF KeptInv
<1>19. ASSUME NEW o \in Owners, Log!ChildEdit(o) PROVE KeptInv'
  <2>1. UNCHANGED <<Log!diskVars, Log!keptVars>>
    BY <1>19 DEF Log!ChildEdit
  <2>2. Keeps(Log!Journal)' /\ \A k \in 1..Len(shelf') : Keeps(shelf'[k])
    BY <2>1, KeepsSame DEF KeptInv, Log!diskVars
  <2>3. \A p \in Owners : child'[p] = IF p = o THEN edits + 1 ELSE child[p]
    BY <1>19, <1>1 DEF Log!ChildEdit, Values
  <2>4. MemoryKept'
    BY <1>19, <1>1, <1>2, <1>3, <1>4, <2>1, <2>3
    DEF Log!ChildEdit, MemoryKept, LiveKept, Log!Undone, AtLeast, JournalTypes, StoreOK, ChatOK, Log!storeVars,
        Log!chatVars, Log!turnVars, Log!diskVars, Log!keptVars, Log!Free
  <2>5. QED
    BY <2>2, <2>4 DEF KeptInv
<1>20. ASSUME NEW o \in Owners, Log!CommandEdit(o) PROVE KeptInv'
  <2>1. UNCHANGED <<Log!diskVars, Log!keptVars, Log!storeVars, rollback, owners, phase, child>>
    BY <1>20 DEF Log!CommandEdit, Log!turnVars
  <2>2. Keeps(Log!Journal)' /\ \A k \in 1..Len(shelf') : Keeps(shelf'[k])
    BY <2>1, KeepsSame DEF KeptInv, Log!diskVars
  <2>3. \A p \in Owners : live'[p] = IF p = o THEN edits + 1 ELSE live[p]
    BY <1>20, <1>1 DEF Log!CommandEdit, Values
  <2>4. \A p \in Owners : live'[p] \in Nat /\ live[p] \in Nat /\ live[p] <= live'[p]
           /\ kept[p] \in Nat
    BY <1>1, <1>2, <2>3
  <2>5. io.op = "checkpoint" => io.owner \in Owners /\ file[head].state[io.owner] \in Nat
    <3>1. SUFFICES ASSUME io.op = "checkpoint"
                   PROVE  io.owner \in Owners /\ file[head].state \in Values
      BY <1>2
    <3>2. Appending /\ io.owner \in Owners
      BY <1>3, <3>1 DEF JournalTypes, StoreOK
    <3>3. head \in 1..Len(file)
      BY <1>1, <3>2 DEF Appending, JournalTypes, StoreOK, DiskOK
    <3>4. file[head] \in Entries
      BY <3>3 DEF JournalTypes, DiskOK
    <3>5. QED
      BY <3>2, <3>4 DEF Entries
  <2>6. UNCHANGED <<file, head, up, io, kept>>
    BY <2>1 DEF Log!diskVars, Log!storeVars, Log!keptVars
  <2>7. /\ up' => LiveKept'
        /\ io.op = "checkpoint" => file[head].state[io.owner] <= live'[io.owner]
    <3>1. up => \A p \in Owners : Log!Undone(p) \/ live'[p] >= kept[p]
      BY <1>4, <2>4 DEF MemoryKept, LiveKept
    <3>2. io.op = "checkpoint" => file[head].state[io.owner] <= live[io.owner]
      BY <1>4 DEF MemoryKept
    <3>3. UNCHANGED <<owners, phase, kept, up>>
      BY <2>1, <2>6
    <3>4. up' => LiveKept'
      BY <3>1, <3>3 DEF LiveKept, Log!Undone
    <3>5. QED
      BY <2>4, <2>5, <3>2, <3>4
  <2>8. MemoryKept'
    BY <1>4, <2>1, <2>6, <2>7 DEF MemoryKept, AtLeast
  <2>9. QED
    BY <2>2, <2>8 DEF KeptInv
<1>21. ASSUME NEW o \in Owners, Log!Checkpoint(o) PROVE KeptInv'
  <2>1. /\ Log!BeginAppend("checkpoint", o, KindOf("checkpoint"), committed, Log!Checkpointed(o))
        /\ UNCHANGED <<edits, rollback, owners, child>>
    BY <1>21 DEF Log!Checkpoint, KindOf, Log!chatVars, Log!turnVars
  <2>2. /\ committed \in 0..Len(file) /\ Log!Checkpointed(o) \in Values
        /\ published' \in SUBSET Nat /\ kept' \in Values
        /\ UNCHANGED <<live, rollback, owners, child, phase>>
        /\ kept' = IF Log!Undone(o) /\ live[o] < kept[o] THEN [kept EXCEPT ![o] = live[o]] ELSE kept
    <3>1. Log!Checkpointed(o) \in Values
      BY <1>21, <1>1 DEF Log!Checkpointed, Values
    <3>2. QED
      BY <1>21, <1>1, <2>1, <3>1 DEF JournalTypes, StoreOK, DiskOK, Log!Checkpoint, Log!chatVars,
                                     Log!turnVars, Values
  <2>3. phase' # "committing" /\ "checkpoint" # "commit" /\ "checkpoint" # "select"
    BY <2>1, <2>2 DEF Log!BeginAppend, Log!Free, JournalTypes, StoreOK
  <2>4. AtLeast(Log!Checkpointed(o), kept') /\ AtLeast(kept, kept')
    <3>1. LiveKept /\ (rollback # NoState => AtLeast(rollback, kept))
      BY <1>4, <2>1 DEF MemoryKept, Log!BeginAppend, Log!Free
    <3>2. Log!Checkpointed(o) = [(IF rollback = NoState THEN live ELSE rollback) EXCEPT ![o] = live[o]]
      BY DEF Log!Checkpointed
    <3>3. \A p \in Owners : kept'[p] = IF p = o /\ Log!Undone(o) /\ live[o] < kept[o]
                                      THEN live[p] ELSE kept[p]
      BY <1>1, <2>2 DEF Values
    <3>4. \A p \in Owners : kept[p] >= kept'[p] /\ kept'[p] \in Nat
      BY <1>1, <1>2, <3>3
    <3>5. live[o] >= kept'[o] /\ (rollback = NoState => AtLeast(live, kept))
      <4>1. rollback = NoState => phase # "undone"
        BY DEF JournalTypes, ChatOK
      <4>2. QED
        BY <1>21, <1>1, <1>2, <3>1, <3>3, <4>1 DEF LiveKept, AtLeast, Log!Undone
    <3>6. AtLeast(kept, kept')
      BY <3>4 DEF AtLeast
    <3>7. AtLeast(Log!Checkpointed(o), kept')
      <4>1. CASE rollback = NoState
        <5>1. Log!Checkpointed(o) = live
          BY <1>1, <3>2, <4>1 DEF Values
        <5>2. QED
          BY <1>1, <1>2, <3>4, <3>5, <4>1, <5>1 DEF AtLeast
      <4>2. CASE rollback # NoState
        <5>1. \A p \in Owners : Log!Checkpointed(o)[p] = IF p = o THEN live[p] ELSE rollback[p]
          BY <1>1, <3>2, <4>2 DEF Values
        <5>2. \A p \in Owners : rollback[p] >= kept'[p]
          BY <1>1, <1>2, <3>1, <3>4, <4>2 DEF AtLeast
        <5>3. QED
          BY <3>5, <5>1, <5>2 DEF AtLeast
      <4>3. QED
        BY <4>1, <4>2
    <3>8. QED
      BY <3>6, <3>7
  <2>5. /\ DiskOK' /\ Len(file') = Len(file) + 1 /\ Len(file) \in Nat
        /\ (\A i \in 1..Len(file) : file'[i] = file[i])
              /\ file'[head'] = Log!Record(KindOf("checkpoint"), committed, Log!Checkpointed(o))
        /\ head' = Len(file) + 1
    <3>1. head' = Len(file) + 1
      BY <2>1 DEF Log!BeginAppend
    <3>2. QED
      BY <1>21, <1>3, <2>1, <2>2, <2>3, <3>1, BeginTypes
  <2>6. /\ Alike(Len(file)) /\ Log!StateOf(file', head') = Log!Checkpointed(o)
        /\ file'[head'].state = Log!Checkpointed(o)
        /\ Log!Selected(file', head') = IF "checkpoint" = "select" THEN committed ELSE head'
    BY <1>3, <2>2, <2>5, BeginReads
  <2>7. AtLeast(Log!StateOf(file', Log!Selected(file', head')), kept')
    BY <2>4, <2>6
  <2>8. Keeps(Log!Journal)'
    <3>1. \A m \in Log!Lengths(Log!Journal)' : m > Len(file) => m = head'
      BY <2>5 DEF Log!Lengths, Log!Journal, JournalTypes, DiskOK
    <3>2. synced <= synced' /\ Len(file) \in 0..Len(file) /\ Len(file) <= Len(file')
      BY <1>1, <2>1, <2>5 DEF Log!BeginAppend, JournalTypes, DiskOK
    <3>3. QED
      BY <2>1, <2>4, <2>6, <2>7, <3>1, <3>2, KeepsGrown DEF KeptInv
  <2>9. \A k \in 1..Len(shelf') : Keeps(shelf'[k])
    BY <2>1 DEF KeptInv, Log!BeginAppend
  <2>10. io' = [op |-> "checkpoint", owner |-> o, previous |-> head, offset |-> Len(file),
              history |-> history, state |-> live]
    BY <2>1 DEF Log!BeginAppend
  <2>11. MemoryKept'
    <3>1. Log!Checkpointed(o)[o] = live[o]
      BY <1>21, <1>1 DEF Log!Checkpointed, Values
    <3>2. QED
      BY <1>21, <1>1, <1>2, <1>4, <2>1, <2>2, <2>6, <2>10, <3>1
      DEF MemoryKept, LiveKept, Log!Undone, AtLeast, Log!BeginAppend, Log!Free
  <2>12. QED
    BY <2>8, <2>9, <2>11 DEF KeptInv
<1>22. ASSUME NEW o \in Owners, Log!CheckpointRefused(o) PROVE KeptInv'
  <2>1. UNCHANGED <<Log!diskVars, Log!keptVars>>
    BY <1>22 DEF Log!CheckpointRefused
  <2>2. Keeps(Log!Journal)' /\ \A k \in 1..Len(shelf') : Keeps(shelf'[k])
    BY <2>1, KeepsSame DEF KeptInv, Log!diskVars
  <2>3. MemoryKept'
    BY <1>22, <1>1, <1>2, <1>3, <1>4, <2>1 DEF Log!CheckpointRefused, MemoryKept, LiveKept, Log!Undone, AtLeast,
                                               JournalTypes, StoreOK, ChatOK, Log!storeVars,
                                               Log!chatVars, Log!turnVars, Log!diskVars,
                                               Log!keptVars, Log!Free
  <2>4. QED
    BY <2>2, <2>3 DEF KeptInv
<1>23. CASE Log!CheckpointSynced
  <2>1. Log!Synced("checkpoint") /\ UNCHANGED <<file, torn, shelf, up, edits>> /\ io' = Log!NoIo
        /\ synced' = Len(file)
    BY <1>23 DEF Log!CheckpointSynced, Log!Synced
  <2>2. io.op = "checkpoint" /\ Appending /\ up /\ io'.op = "none"
    BY <1>3, <2>1 DEF Log!Synced, Log!NoIo, JournalTypes, StoreOK
  <2>3. head = Len(file) /\ head \in 1..Len(file) /\ file[head].kind = KindOf("checkpoint")
        /\ synced <= Len(file) /\ synced \in Nat
    BY <2>2 DEF Appending, JournalTypes, StoreOK, DiskOK
  <2>4. /\ AtLeast(Log!StateOf(file, Log!Selected(file, head)), kept)
        /\ Alike(Len(file))
    <3>1. Len(file) \in Log!Lengths(Log!Journal) /\ Keeps(Log!Journal)
      BY <1>1 DEF JournalTypes, DiskOK, Log!Lengths, Log!Journal, KeptInv
    <3>2. AtLeast(Log!StateOf(file, Log!Selected(file, head)), kept)
      BY <2>3, <3>1 DEF Keeps, Log!StateAt, Log!Journal
    <3>3. Alike(Len(file))
      BY <1>1, <2>1, AlikeReads DEF JournalTypes
    <3>4. QED
      BY <3>2, <3>3
  <2>5. /\ AtLeast(Log!StateOf(file, Log!Selected(file, head)), kept')
        /\ AtLeast(file[head].state, kept')
        /\ LiveKept' /\ file[head].state \in Values /\ io.owner \in Owners
        /\ \A o \in Owners : kept'[o] = IF o = io.owner THEN file[head].state[o] ELSE kept[o]
    <3>1. KindOf("checkpoint") = "state" /\ "state" \in Log!Selections /\ "state" # "select"
          /\ io.owner \in Owners
      BY <2>2 DEF KindOf, Log!Selections, JournalTypes, StoreOK
    <3>2. Log!Selected(file, head) = head
      <4>1. head - 1 \in Nat /\ (head - 1) + 1 = head
        BY <1>1, <2>3
      <4>2. QED
        BY <2>3, <3>1, <4>1, SelectedNext
    <3>3. Log!StateOf(file, head) = file[head].state /\ file[head].state \in Values
      <4>1. file[head] \in Entries
        BY <2>3 DEF JournalTypes, DiskOK
      <4>2. QED
        BY <2>3, <4>1 DEF Log!StateOf, Entries
    <3>4. kept' = [kept EXCEPT ![io.owner] = file[head].state[io.owner]]
      BY <1>23 DEF Log!CheckpointSynced
    <3>5. \A o \in Owners : kept'[o] = IF o = io.owner THEN file[head].state[o] ELSE kept[o]
      BY <1>1, <3>4 DEF Values
    <3>6. LiveKept /\ file[head].state[io.owner] <= live[io.owner]
      BY <1>4, <2>2 DEF MemoryKept
    <3>7. AtLeast(file[head].state, kept')
      BY <1>1, <1>2, <2>4, <3>2, <3>3, <3>5 DEF AtLeast
    <3>8. LiveKept'
      <4>1. UNCHANGED <<live, phase>> /\ owners \subseteq owners'
        BY <1>23 DEF Log!CheckpointSynced, Log!turnVars
      <4>2. \A o \in Owners : Log!Undone(o) => Log!Undone(o)'
        BY <4>1 DEF Log!Undone
      <4>3. \A o \in Owners : live[o] >= kept[o] => live[o] >= kept'[o]
        BY <1>1, <1>2, <3>1, <3>3, <3>5, <3>6
      <4>4. QED
        BY <3>6, <4>1, <4>2, <4>3 DEF LiveKept
    <3>9. QED
      BY <3>1, <3>2, <3>3, <3>5, <3>7, <3>8
  <2>6. Keeps(Log!Journal)'
    <3>1. \A m \in Log!Lengths(Log!Journal)' : m = Len(file)
      BY <1>1, <2>1, <2>3 DEF Log!Lengths, Log!Journal
    <3>2. \A m \in Log!Lengths(Log!Journal)' : AtLeast(Log!StateAt(Log!Journal', m), kept')
      BY <2>1, <2>3, <2>5, <3>1 DEF Log!StateAt, Log!Journal
    <3>3. QED
      BY <3>2 DEF Keeps, Log!Journal
  <2>7. \A k \in 1..Len(shelf') : Keeps(shelf'[k])
    BY <2>1 DEF KeptInv
  <2>8. MemoryKept'
    <3>1. /\ UNCHANGED <<live, phase, child>>
          /\ owners' = IF rollback = NoState THEN owners ELSE owners \cup {io.owner}
          /\ rollback' = IF rollback = NoState THEN NoState ELSE file[head].state
      BY <1>23 DEF Log!CheckpointSynced, Log!turnVars
    <3>2. phase \in {"child", "restored"} => \A o \in Owners \ owners' : child'[o] >= kept'[o]
      BY <1>4, <2>5, <3>1 DEF MemoryKept, JournalTypes, ChatOK
    <3>3. QED
      BY <2>1, <2>2, <2>5, <3>1, <3>2 DEF MemoryKept, AtLeast
  <2>9. QED
    BY <2>6, <2>7, <2>8 DEF KeptInv
<1>24. CASE Log!CheckpointFailed
  <2>1. Log!AppendFailed("checkpoint") /\ UNCHANGED <<edits, Log!keptVars>>
        /\ phase' = IF "checkpoint" = "commit" THEN "finishing" ELSE phase
    BY <1>24 DEF Log!CheckpointFailed, Log!turnVars
  <2>2. /\ io.op = "checkpoint" /\ Len(file') \in io.offset..Len(file) /\ Alike(Len(file'))
        /\ synced' = synced
        /\ io.offset \in Nat
    BY <1>3, <2>1, FailedReads
  <2>3. UNCHANGED <<shelf, up>> /\ io' = Log!NoIo /\ Log!NoIo.op = "none" /\ up
    BY <2>1 DEF Log!AppendFailed, Log!NoIo
  <2>4. Keeps(Log!Journal)'
    <3>1. \A m \in Log!Lengths(Log!Journal)' : ~ (m > Len(file'))
      BY <2>2 DEF Log!Lengths, Log!Journal, JournalTypes, DiskOK
    <3>2. synced <= synced' /\ AtLeast(kept, kept') /\ Len(file') \in 0..Len(file)
          /\ Len(file') <= Len(file')
      BY <1>1, <1>2, <2>1, <2>2 DEF AtLeast, Log!keptVars, JournalTypes, DiskOK
    <3>3. QED
      BY <2>1, <2>2, <3>1, <3>2, KeepsGrown DEF KeptInv
  <2>5. \A k \in 1..Len(shelf') : Keeps(shelf'[k])
    BY <2>3 DEF KeptInv
  <2>6. MemoryKept'
    BY <1>24, <1>1, <1>2, <1>4, <2>2, <2>3 DEF Log!CheckpointFailed, MemoryKept, LiveKept, Log!Undone, AtLeast,
                                               Log!keptVars, Log!chatVars, Log!turnVars
  <2>7. QED
    BY <2>4, <2>5, <2>6 DEF KeptInv
<1>25. ASSUME NEW e \in 1..MaxRecords, Log!Fork(e) PROVE KeptInv'
  <2>1. /\ Log!BeginAppend("select", "none", KindOf("select"), e, file[e].state)
        /\ UNCHANGED <<edits, rollback, owners, child>>
    BY <1>25 DEF Log!Fork, KindOf, Log!chatVars, Log!turnVars
  <2>2. /\ e \in 0..Len(file) /\ file[e].state \in Values /\ published' \in SUBSET Nat
        /\ kept' \in Values
        /\ UNCHANGED <<rollback, owners, child, phase>> /\ live' = file[e].state
        /\ phase = "idle" /\ up /\ e \in 1..Len(file)
        /\ kept' = [o \in Owners |-> IF kept[o] < file[e].state[o] THEN kept[o] ELSE file[e].state[o]]
    <3>1. e \in 1..Len(file) /\ file[e] \in Entries
      BY <1>25 DEF Log!Fork, JournalTypes, DiskOK
    <3>2. file[e].state \in Values /\ Values' = Values
      BY <2>1, <3>1 DEF Entries, Values
    <3>3. QED
      BY <1>25, <1>1, <3>1, <3>2 DEF JournalTypes, DiskOK, Log!Fork, Log!turnVars,
                                     Log!BeginAppend, Log!Free
  <2>3. phase' # "committing" /\ phase' = "idle" /\ "select" # "commit" /\ "select" # "checkpoint"
    BY <2>2
  <2>4. AtLeast(file[e].state, kept') /\ AtLeast(kept, kept')
    BY <1>1, <1>2, <2>2 DEF AtLeast
  <2>5. /\ DiskOK' /\ Len(file') = Len(file) + 1 /\ Len(file) \in Nat
        /\ (\A i \in 1..Len(file) : file'[i] = file[i])
              /\ file'[head'] = Log!Record(KindOf("select"), e, file[e].state)
        /\ head' = Len(file) + 1
    <3>1. head' = Len(file) + 1
      BY <2>1 DEF Log!BeginAppend
    <3>2. QED
      BY <1>25, <1>3, <2>1, <2>2, <2>3, <3>1, BeginTypes
  <2>6. /\ Alike(Len(file)) /\ Log!StateOf(file', head') = file[e].state
        /\ file'[head'].state = file[e].state
        /\ Log!Selected(file', head') = IF "select" = "select" THEN e ELSE head'
    BY <1>3, <2>2, <2>5, BeginReads
  <2>7. AtLeast(Log!StateOf(file', Log!Selected(file', head')), kept')
    <3>1. Log!StateOf(file', e) = Log!StateOf(file, e) /\ Log!StateOf(file, e) = file[e].state
      BY <2>2, <2>6 DEF Alike, Log!StateOf
    <3>2. QED
      BY <2>4, <2>6, <3>1
  <2>8. Keeps(Log!Journal)'
    <3>1. \A m \in Log!Lengths(Log!Journal)' : m > Len(file) => m = head'
      BY <2>5 DEF Log!Lengths, Log!Journal, JournalTypes, DiskOK
    <3>2. synced <= synced' /\ Len(file) \in 0..Len(file) /\ Len(file) <= Len(file')
      BY <1>1, <2>1, <2>5 DEF Log!BeginAppend, JournalTypes, DiskOK
    <3>3. QED
      BY <2>1, <2>4, <2>6, <2>7, <3>1, <3>2, KeepsGrown DEF KeptInv
  <2>9. \A k \in 1..Len(shelf') : Keeps(shelf'[k])
    BY <2>1 DEF KeptInv, Log!BeginAppend
  <2>10. io' = [op |-> "select", owner |-> "none", previous |-> head, offset |-> Len(file),
              history |-> history, state |-> live]
    BY <2>1 DEF Log!BeginAppend
  <2>11. MemoryKept'
    <3>1. AtLeast(live, kept) /\ rollback = NoState
      BY <1>4a, <2>2 DEF MemoryKept, JournalTypes, ChatOK
    <3>2. AtLeast(live, kept')
      BY <1>1, <1>2, <2>2, <2>4, <3>1 DEF AtLeast
    <3>3. QED
      BY <1>1, <1>2, <1>4b, <2>2, <2>3, <2>4, <2>10, <3>1, <3>2 DEF MemoryKept
  <2>12. QED
    BY <2>8, <2>9, <2>11 DEF KeptInv
<1>26. CASE Log!ForkSynced
  <2>1. Log!Synced("select") /\ UNCHANGED <<file, torn, shelf, up, edits>> /\ io' = Log!NoIo
        /\ synced' = Len(file)
    BY <1>26 DEF Log!ForkSynced, Log!Synced
  <2>2. io.op = "select" /\ Appending /\ up /\ io'.op = "none"
    BY <1>3, <2>1 DEF Log!Synced, Log!NoIo, JournalTypes, StoreOK
  <2>3. head = Len(file) /\ head \in 1..Len(file) /\ file[head].kind = KindOf("select")
        /\ synced <= Len(file) /\ synced \in Nat
    BY <2>2 DEF Appending, JournalTypes, StoreOK, DiskOK
  <2>4. /\ AtLeast(Log!StateOf(file, Log!Selected(file, head)), kept)
        /\ Alike(Len(file))
    <3>1. Len(file) \in Log!Lengths(Log!Journal) /\ Keeps(Log!Journal)
      BY <1>1 DEF JournalTypes, DiskOK, Log!Lengths, Log!Journal, KeptInv
    <3>2. AtLeast(Log!StateOf(file, Log!Selected(file, head)), kept)
      BY <2>3, <3>1 DEF Keeps, Log!StateAt, Log!Journal
    <3>3. Alike(Len(file))
      BY <1>1, <2>1, AlikeReads DEF JournalTypes
    <3>4. QED
      BY <3>2, <3>3
  <2>5. AtLeast(Log!StateOf(file, Log!Selected(file, head)), kept')
    BY <1>26, <2>4 DEF Log!ForkSynced, Log!keptVars
  <2>6. Keeps(Log!Journal)'
    <3>1. \A m \in Log!Lengths(Log!Journal)' : m = Len(file)
      BY <1>1, <2>1, <2>3 DEF Log!Lengths, Log!Journal
    <3>2. \A m \in Log!Lengths(Log!Journal)' : AtLeast(Log!StateAt(Log!Journal', m), kept')
      BY <2>1, <2>3, <2>5, <3>1 DEF Log!StateAt, Log!Journal
    <3>3. QED
      BY <3>2 DEF Keeps, Log!Journal
  <2>7. \A k \in 1..Len(shelf') : Keeps(shelf'[k])
    BY <2>1 DEF KeptInv
  <2>8. MemoryKept'
    BY <1>26, <1>4, <2>1, <2>2 DEF Log!ForkSynced, Log!keptVars, Log!chatVars, Log!turnVars,
                                   MemoryKept, LiveKept, Log!Undone, AtLeast
  <2>9. QED
    BY <2>6, <2>7, <2>8 DEF KeptInv
<1>27. CASE Log!ForkFailed
  <2>1. Log!AppendFailed("select") /\ UNCHANGED <<edits, Log!keptVars>>
        /\ phase' = IF "select" = "commit" THEN "finishing" ELSE phase
    BY <1>27 DEF Log!ForkFailed, Log!turnVars
  <2>2. /\ io.op = "select" /\ Len(file') \in io.offset..Len(file) /\ Alike(Len(file'))
        /\ synced' = synced
        /\ io.offset \in Nat
    BY <1>3, <2>1, FailedReads
  <2>3. UNCHANGED <<shelf, up>> /\ io' = Log!NoIo /\ Log!NoIo.op = "none" /\ up
    BY <2>1 DEF Log!AppendFailed, Log!NoIo
  <2>4. Keeps(Log!Journal)'
    <3>1. \A m \in Log!Lengths(Log!Journal)' : ~ (m > Len(file'))
      BY <2>2 DEF Log!Lengths, Log!Journal, JournalTypes, DiskOK
    <3>2. synced <= synced' /\ AtLeast(kept, kept') /\ Len(file') \in 0..Len(file)
          /\ Len(file') <= Len(file')
      BY <1>1, <1>2, <2>1, <2>2 DEF AtLeast, Log!keptVars, JournalTypes, DiskOK
    <3>3. QED
      BY <2>1, <2>2, <3>1, <3>2, KeepsGrown DEF KeptInv
  <2>5. \A k \in 1..Len(shelf') : Keeps(shelf'[k])
    BY <2>3 DEF KeptInv
  <2>6. MemoryKept'
    BY <1>27, <1>1, <1>2, <1>4, <2>2, <2>3 DEF Log!ForkFailed, MemoryKept, LiveKept, Log!Undone, AtLeast, Log!keptVars,
                                               Log!chatVars, Log!turnVars
  <2>7. QED
    BY <2>4, <2>5, <2>6 DEF KeptInv
<1>28. CASE Log!Reset
  <2>1. /\ io.op = "none" /\ phase = "idle" /\ UNCHANGED <<io, rollback, phase, edits>>
        /\ shelf' = Append(shelf, Log!Journal)
        /\ file' = <<>> /\ synced' = 0 /\ kept' = Log!Blank /\ live' = Log!Blank
    BY <1>28 DEF Log!Reset, Log!Settled, Log!Free, Log!turnVars
  <2>2. Len(shelf') = Len(shelf) + 1 /\ shelf'[Len(shelf) + 1] = Log!Journal
        /\ \A k \in 1..Len(shelf) : shelf'[k] = shelf[k]
    <3>1. Log!Journal \in Shelved /\ shelf \in Seq(Shelved)
      BY JournalShelved DEF JournalTypes, DiskOK
    <3>2. QED
      BY <2>1, <3>1, Appended
  <2>3. \A k \in 1..Len(shelf') : Keeps(shelf'[k])
    <3>1. \A k \in 1..Len(shelf') : k \in 1..Len(shelf) \/ k = Len(shelf) + 1
      BY <1>1, <2>2
    <3>2. QED
      BY <2>2, <3>1 DEF KeptInv
  <2>4. AtLeast(Log!Blank, Log!Blank)
    BY DEF AtLeast, Log!Blank
  <2>5. Keeps(Log!Journal)'
    <3>1. Len(file') = 0
      BY <2>1
    <3>2. Log!Journal'.file = file' /\ Log!Journal'.synced = 0 /\ Log!Journal'.kept = Log!Blank
      BY <2>1 DEF Log!Journal
    <3>3. \A m \in Log!Lengths(Log!Journal') : m = 0
      BY <3>1, <3>2 DEF Log!Lengths
    <3>4. Log!Selected(file', 0) = 0 /\ Log!StateOf(file', 0) = Log!Blank
      BY SelectedEmpty DEF Log!StateOf
    <3>5. QED
      BY <2>4, <3>2, <3>3, <3>4 DEF Keeps, Log!StateAt
  <2>6. MemoryKept'
    BY <1>4, <1>4b, <2>1, <2>4 DEF MemoryKept, JournalTypes, ChatOK
  <2>7. QED
    BY <2>3, <2>5, <2>6 DEF KeptInv
<1>29. CASE Log!ResetFails
  <2>1. /\ io.op = "none" /\ phase = "idle"
        /\ UNCHANGED <<Log!diskVars, Log!keptVars, io, rollback, phase>> /\ up' = FALSE
    BY <1>29 DEF Log!ResetFails, Log!Settled, Log!Free, Log!turnVars
  <2>2. Keeps(Log!Journal)' /\ \A k \in 1..Len(shelf') : Keeps(shelf'[k])
    BY <2>1, KeepsSame DEF KeptInv, Log!diskVars
  <2>3. MemoryKept'
    BY <2>1 DEF MemoryKept, JournalTypes, ChatOK
  <2>4. QED
    BY <2>2, <2>3 DEF KeptInv
<1>30. ASSUME NEW k \in 1..2, Log!Resume(k) PROVE KeptInv'
  <2> DEFINE j == Log!Loaded(shelf[k])
  <2>1. /\ io.op = "none" /\ phase = "idle" /\ UNCHANGED <<io, rollback, phase, edits>>
        /\ k \in DOMAIN shelf
        /\ file' = j.file /\ synced' = j.synced /\ torn' = j.torn /\ published' = j.published
        /\ kept' = j.kept
        /\ shelf' = [shelf EXCEPT ![k] = Log!Journal]
        /\ head' = Log!Selected(file', Len(file')) /\ live' = Log!StateOf(file', head')
    BY <1>30 DEF Log!Resume, Log!Settled, Log!Free, Log!turnVars
  <2>2. k \in 1..Len(shelf) /\ shelf[k] \in Shelved /\ Readable(shelf[k]) /\ Keeps(shelf[k])
    BY <2>1 DEF JournalTypes, DiskOK, KeptInv
  <2>3. j \in Shelved /\ Keeps(j)
    BY <2>2, LoadedOK, KeepsLoaded
  <2> HIDE DEF j
  <2>4. Log!Journal' = j
    BY <2>1, <2>3 DEF Log!Journal, Shelved
  <2>5. Keeps(Log!Journal)'
    BY <2>3, <2>4
  <2>6. \A i \in 1..Len(shelf') : Keeps(shelf'[i])
    <3>1. Len(shelf') = Len(shelf)
          /\ \A i \in 1..Len(shelf) : shelf'[i] = IF i = k THEN Log!Journal ELSE shelf[i]
      BY <2>1, <2>2 DEF JournalTypes, DiskOK
    <3>2. QED
      BY <3>1 DEF KeptInv
  <2>7. AtLeast(live', kept')
    <3>1. Len(file') \in Log!Lengths(Log!Journal')
      BY DEF Log!Lengths, Log!Journal, JournalTypes, DiskOK
    <3>2. Log!Journal'.file = file' /\ Log!Journal'.kept = kept'
      BY DEF Log!Journal
    <3>3. QED
      BY <2>1, <2>5, <3>1, <3>2 DEF Keeps, Log!StateAt
  <2>8. MemoryKept'
    BY <1>4b, <2>1, <2>7 DEF MemoryKept, JournalTypes, ChatOK
  <2>9. QED
    BY <2>5, <2>6, <2>8 DEF KeptInv
<1>31. ASSUME NEW k \in 1..2, Log!ResumeFails(k) PROVE KeptInv'
  <2>1. /\ UNCHANGED <<file, synced, torn, Log!storeVars, Log!chatVars, Log!turnVars, Log!keptVars>>
        /\ k \in DOMAIN shelf /\ shelf' = [shelf EXCEPT ![k] = Log!Loaded(shelf[k])]
    BY <1>31 DEF Log!ResumeFails
  <2>2. k \in 1..Len(shelf) /\ shelf[k] \in Shelved /\ Readable(shelf[k]) /\ Keeps(shelf[k])
    BY <2>1 DEF JournalTypes, DiskOK, KeptInv
  <2>3. Keeps(Log!Loaded(shelf[k]))
    BY <2>2, KeepsLoaded
  <2>4. Keeps(Log!Journal)'
    BY <2>1 DEF KeptInv, Log!keptVars, Log!Journal, Keeps, AtLeast, Log!Lengths, Log!StateAt
  <2>5. \A i \in 1..Len(shelf') : Keeps(shelf'[i])
    <3>1. Len(shelf') = Len(shelf)
          /\ \A i \in 1..Len(shelf) : shelf'[i] = IF i = k THEN Log!Loaded(shelf[k]) ELSE shelf[i]
      BY <2>1, <2>2 DEF JournalTypes, DiskOK
    <3>2. QED
      BY <2>3, <3>1 DEF KeptInv
  <2>6. MemoryKept'
    BY <1>4, <2>1 DEF MemoryKept, LiveKept, Log!Undone, AtLeast, Log!storeVars, Log!chatVars, Log!turnVars, Log!keptVars
  <2>7. QED
    BY <2>4, <2>5, <2>6 DEF KeptInv
<1>32. CASE Log!Crash
  <2>1. /\ up' = FALSE /\ io' = Log!NoIo /\ Log!NoIo.op = "none" /\ rollback' = NoState
        /\ phase' = "idle"
        /\ UNCHANGED <<synced, edits, Log!keptVars>>
    BY <1>32 DEF Log!Crash, Log!TurnOver, Log!NoIo
  <2>2. PICK d \in Log!Cut(Log!Journal) : file' = d.file /\ torn' = d.torn
    BY <1>32 DEF Log!Crash
  <2>3. Log!Journal \in Shelved /\ Readable(Log!Journal) /\ Keeps(Log!Journal)
    BY JournalShelved DEF JournalTypes, KeptInv
  <2>4. d \in Shelved /\ d.synced = synced /\ d.kept = kept /\ d.published = published /\ Keeps(d)
    BY <2>3, CutOK, KeepsCut DEF Log!Journal
  <2>5. Log!Journal' = d
    BY <2>1, <2>2, <2>4 DEF Log!Journal, Shelved, Log!keptVars
  <2>6. \A k \in DOMAIN shelf : shelf'[k] \in Log!Cut(shelf[k])
    BY <1>32 DEF Log!Crash
  <2>7. DOMAIN shelf' = DOMAIN shelf /\ DOMAIN shelf = 1..Len(shelf) /\ Len(shelf') = Len(shelf)
    <3>1. DOMAIN shelf' = DOMAIN shelf
      BY <1>32 DEF Log!Crash
    <3>2. DOMAIN shelf = 1..Len(shelf) /\ DOMAIN shelf' = 1..Len(shelf') /\ Len(shelf') \in Nat
      BY DEF JournalTypes, DiskOK
    <3>3. QED
      BY <1>1, <3>1, <3>2
  <2>8. \A k \in 1..Len(shelf) : Keeps(shelf'[k])
    BY <2>6, <2>7, KeepsCut DEF KeptInv, JournalTypes, DiskOK
  <2>9. MemoryKept'
    BY <2>1 DEF MemoryKept
  <2>10. QED
    BY <2>4, <2>5, <2>7, <2>8, <2>9 DEF KeptInv
<1>33. CASE Log!Reopen
  <2>1. /\ ~up /\ synced' = Log!Loaded(Log!Journal).synced
        /\ head' = Log!Selected(file, Len(file)) /\ live' = Log!StateOf(file, head')
        /\ UNCHANGED <<file, shelf, io, rollback, phase, edits, Log!keptVars>>
    BY <1>33 DEF Log!Reopen, Log!turnVars
  <2>2. Log!Loaded(Log!Journal).synced >= synced
    <3>1. Log!Loaded(Log!Journal).synced >= Log!Journal.synced
      BY JournalShelved, LoadedOK DEF JournalTypes
    <3>2. QED
      BY <3>1 DEF Log!Journal
  <2>3. Keeps(Log!Journal)'
    <3>1. Alike(Len(file))
      BY <1>1, <2>1, AlikeReads DEF JournalTypes
    <3>2. \A m \in Log!Lengths(Log!Journal)' : ~ (m > Len(file))
      BY <1>1, <2>1 DEF Log!Lengths, Log!Journal, JournalTypes, DiskOK
    <3>3. synced <= synced' /\ AtLeast(kept, kept') /\ Len(file) \in 0..Len(file)
          /\ Len(file) <= Len(file')
      BY <1>1, <1>2, <2>1, <2>2 DEF AtLeast, Log!keptVars, JournalTypes, DiskOK
    <3>4. QED
      BY <2>1, <3>1, <3>2, <3>3, KeepsGrown DEF KeptInv
  <2>4. \A k \in 1..Len(shelf') : Keeps(shelf'[k])
    BY <2>1 DEF KeptInv
  <2>5. AtLeast(live', kept')
    <3>1. Len(file) \in Log!Lengths(Log!Journal)
      BY DEF Log!Lengths, Log!Journal, JournalTypes, DiskOK
    <3>2. Log!Journal.file = file /\ Log!Journal.kept = kept
      BY DEF Log!Journal
    <3>3. QED
      BY <2>1, <3>1, <3>2 DEF Keeps, Log!StateAt, Log!keptVars, KeptInv
  <2>6. io.op = "none" /\ phase = "idle" /\ rollback = NoState
    BY <2>1 DEF JournalTypes, StoreOK, ChatOK
  <2>7. MemoryKept'
    BY <1>4b, <2>1, <2>5, <2>6 DEF MemoryKept
  <2>8. QED
    BY <2>3, <2>4, <2>7 DEF KeptInv
<1>34. QED
  BY <1>5, <1>6, <1>7, <1>8, <1>9, <1>9a, <1>10, <1>11, <1>12, <1>13, <1>14, <1>15, <1>16, <1>17,
     <1>18, <1>19, <1>20, <1>21, <1>22, <1>23, <1>24, <1>25, <1>26, <1>27, <1>28, <1>29, <1>30, <1>31,
     <1>32, <1>33 DEF Log!Next
=============================================================================
