--------------------------- MODULE WorkspaceProofs ---------------------------
(***************************************************************************)
(* Theorems about the parts of MCWorkspace for every value of the constants:   *)
(* sessions, entries, agents, bytes, records and bounds of any number.         *)
(***************************************************************************)
EXTENDS JournalProofs, FiniteSetTheorems, TLAPS

(***************************************************************************)
(* Memory.                                                                  *)
(***************************************************************************)
LEMMA MemoryCardinality ==
  ASSUME NEW S
  PROVE  Memory!Cardinality(S) = Cardinality(S)
BY DEF Memory!Cardinality, Cardinality, Memory!IsFiniteSet, IsFiniteSet

(* A memory that a start accepts, and whose items can be counted.            *)
FileOK(f) == f # Memory!Missing =>
  /\ f = [items |-> f.items, next |-> f.next]
  /\ f.next \in 1..MaxId
  /\ IsFiniteSet(DOMAIN f.items) /\ Cardinality(DOMAIN f.items) <= MaxItems
  /\ \A i \in DOMAIN f.items : i \in Nat /\ 1 <= i /\ i < f.next

(* An id a session has answered with is below its next one and names the      *)
(* entry the session still holds, if it holds any; what it is saving keeps     *)
(* the entries it holds and gives new ones new ids.                           *)
SessionOK(s) ==
  /\ writer = s => store[s] = shared /\ store[s] # Memory!Missing
  /\ FileOK(store[s]) /\ FileOK(saving[s])
  /\ store[s] = Memory!Missing => told[s] = {} /\ saving[s] = Memory!Missing
  /\ store[s] # Memory!Missing =>
       /\ \A x \in told[s] : x[1] \in Nat /\ x[1] < store[s].next
       /\ \A x, y \in told[s] : x[1] = y[1] => x[2] = y[2]
       /\ \A i \in DOMAIN store[s].items : <<i, store[s].items[i]>> \in told[s]
  /\ saving[s] # Memory!Missing =>
       /\ store[s].next <= saving[s].next
       /\ \A i \in DOMAIN saving[s].items :
            \/ i >= store[s].next
            \/ i \in DOMAIN store[s].items /\ saving[s].items[i] = store[s].items[i]

MemoryInv ==
  /\ Memory!TypeOK
  /\ DOMAIN store = Sessions /\ DOMAIN saving = Sessions /\ DOMAIN told = Sessions
  /\ FileOK(shared)
  /\ \A s \in Sessions : SessionOK(s)

LEMMA AddOne ==
  ASSUME NEW S, NEW x, IsFiniteSet(S), NEW n \in Nat, Cardinality(S) < n
  PROVE  IsFiniteSet(S \cup {x}) /\ Cardinality(S \cup {x}) <= n
<1>1. IsFiniteSet(S \cup {x}) /\
      Cardinality(S \cup {x}) = IF x \in S THEN Cardinality(S) ELSE Cardinality(S) + 1
  BY FS_AddElement
<1>2. Cardinality(S) \in Nat
  BY FS_CardinalityType
<1>3. QED
  BY <1>1, <1>2

LEMMA RecordNotMissing ==
  ASSUME NEW i, NEW n
  PROVE  [items |-> i, next |-> n] # Memory!Missing
BY DEF Memory!Missing

LEMMA ValidFile == ASSUME FileOK(shared) PROVE Memory!Valid(shared)
BY MemoryCardinality DEF FileOK, Memory!Valid

LEMMA MemoryInit == Memory!Init => MemoryInv
BY MemoryAssumed DEF Memory!Init, MemoryInv, Memory!TypeOK, FileOK, SessionOK, Memory!MemoryAssumption,
     Memory!Nobody

(* What a session writes to its temporary file.                              *)
LEMMA SavingAdded ==
  ASSUME MemoryInv, NEW s \in Sessions, Memory!Add(s)
  PROVE  saving[s]' # Memory!Missing /\ SessionOK(s)'
<1> DEFINE old == store[s]
           new == saving'[s]
<1>1. /\ old # Memory!Missing /\ old.next \in 1..MaxId
      /\ IsFiniteSet(DOMAIN old.items) /\ SessionOK(s) /\ FileOK(old)
  BY DEF MemoryInv, SessionOK, FileOK, Memory!Add, Memory!Idle
<1>2. /\ UNCHANGED <<shared, store, told, writer>>
      /\ Cardinality(DOMAIN old.items) < MaxItems /\ old.next < MaxId
      /\ new = [items |-> [i \in DOMAIN old.items \cup {old.next} |->
                             IF i = old.next THEN adds' ELSE old.items[i]],
                next  |-> old.next + 1]
  BY MemoryCardinality DEF Memory!Add, Memory!Begin, MemoryInv
<1>3. MaxId \in Nat /\ MaxItems \in Nat
  BY MemoryAssumed DEF Memory!MemoryAssumption
<1>4. /\ IsFiniteSet(DOMAIN old.items \cup {old.next})
      /\ Cardinality(DOMAIN old.items \cup {old.next}) <= MaxItems
  BY <1>1, <1>2, <1>3, AddOne
<1>5. new # Memory!Missing
  BY <1>2, RecordNotMissing
<1>6. DOMAIN new.items = DOMAIN old.items \cup {old.next} /\ new.next = old.next + 1
  BY <1>2
<1>7. FileOK(new)
  BY <1>1, <1>2, <1>3, <1>4, <1>6 DEF FileOK
<1>8. \A i \in DOMAIN new.items :
        i >= old.next \/ (i \in DOMAIN old.items /\ new.items[i] = old.items[i])
  BY <1>1, <1>2, <1>6 DEF FileOK
<1>9. QED
  BY <1>1, <1>2, <1>5, <1>6, <1>7, <1>8 DEF SessionOK

LEMMA SavingRemoved ==
  ASSUME MemoryInv, NEW s \in Sessions, NEW id \in 1..MaxId, Memory!Remove(s, id)
  PROVE  saving[s]' # Memory!Missing /\ SessionOK(s)'
<1> DEFINE old == store[s]
           new == saving'[s]
<1>1. /\ old # Memory!Missing /\ old.next \in 1..MaxId
      /\ IsFiniteSet(DOMAIN old.items) /\ SessionOK(s) /\ FileOK(old)
  BY DEF MemoryInv, SessionOK, FileOK, Memory!Remove, Memory!Idle
<1>2. /\ UNCHANGED <<shared, store, told, writer>>
      /\ new = [old EXCEPT !.items = [i \in DOMAIN old.items \ {id} |-> old.items[i]]]
  BY DEF Memory!Remove, Memory!Begin, MemoryInv, Memory!Restrict
<1>3. MaxItems \in Nat
  BY MemoryAssumed DEF Memory!MemoryAssumption
<1>4. /\ IsFiniteSet(DOMAIN old.items \ {id})
      /\ Cardinality(DOMAIN old.items \ {id}) <= MaxItems
  <2>1. /\ IsFiniteSet(DOMAIN old.items \ {id})
        /\ Cardinality(DOMAIN old.items \ {id}) <= Cardinality(DOMAIN old.items)
    BY <1>1, FS_Subset
  <2>2. QED
    BY <1>1, <1>3, <2>1, FS_CardinalityType DEF FileOK
<1>5. new = [items |-> [i \in DOMAIN old.items \ {id} |-> old.items[i]], next |-> old.next]
  <2>1. old = [items |-> old.items, next |-> old.next]
    BY <1>1 DEF FileOK
  <2>2. QED
    BY <1>2, <2>1
<1>6. new # Memory!Missing
  BY <1>5, RecordNotMissing
<1>7. FileOK(new)
  BY <1>1, <1>4, <1>5 DEF FileOK
<1>8. QED
  BY <1>1, <1>2, <1>5, <1>6, <1>7 DEF SessionOK, FileOK

LEMMA MemoryStep == MemoryInv /\ Memory!Next => MemoryInv'
<1> SUFFICES ASSUME MemoryInv, NEW s \in Sessions,
                    \/ Memory!Load(s) \/ Memory!Add(s) \/ Memory!Replace(s)
                    \/ Memory!SaveFails(s) \/ Memory!Exit(s)
                    \/ \E id \in 1..MaxId : Memory!Remove(s, id)
             PROVE  MemoryInv'
  BY DEF Memory!Next
<1>0. Memory!Nobody \notin Sessions /\ {MaxAdds, MaxLoads} \subseteq Nat
  BY MemoryAssumed DEF Memory!MemoryAssumption, Memory!Nobody
<1>1. CASE Memory!Load(s)
  <2> DEFINE new == IF shared = Memory!Missing THEN Memory!Empty ELSE shared
  <2>1. /\ store[s] = Memory!Missing /\ saving[s] = Memory!Missing /\ writer # s
        /\ loads' \in 0..MaxLoads /\ UNCHANGED <<shared, saving, adds, writer>>
        /\ store'[s] = new
        /\ told'[s] = {<<i, new.items[i]>> : i \in DOMAIN new.items}
        /\ DOMAIN store' = Sessions /\ DOMAIN saving' = Sessions /\ DOMAIN told' = Sessions
        /\ \A t \in Sessions : t # s => store'[t] = store[t] /\ told'[t] = told[t]
    BY <1>0, <1>1 DEF Memory!Load, MemoryInv, SessionOK, Memory!TypeOK
  <2>2. new # Memory!Missing /\ FileOK(new)
    <3>1. FileOK(Memory!Empty) /\ Memory!Empty # Memory!Missing
      <4>1. MaxId \in Nat /\ 1 <= MaxId /\ MaxItems \in Nat
        BY MemoryAssumed DEF Memory!MemoryAssumption
      <4>2. IsFiniteSet({}) /\ Cardinality({}) = 0
        BY FS_EmptySet
      <4>3. QED
        BY <4>1, <4>2, RecordNotMissing DEF FileOK, Memory!Empty
    <3>2. QED
      BY <3>1 DEF MemoryInv
  <2>3. SessionOK(s)'
    BY <2>1, <2>2 DEF SessionOK, FileOK
  <2>4. ASSUME NEW t \in Sessions, t # s PROVE SessionOK(t)'
    BY <2>1, <2>4 DEF MemoryInv, SessionOK, FileOK
  <2>5. QED
    BY <2>1, <2>2, <2>3, <2>4 DEF MemoryInv, Memory!TypeOK
<1>2. CASE Memory!Add(s) \/ \E id \in 1..MaxId : Memory!Remove(s, id)
  <2>1. saving[s]' # Memory!Missing /\ SessionOK(s)'
    BY <1>2, SavingAdded, SavingRemoved
  <2>2. /\ UNCHANGED <<shared, store, loads, told, writer>>
        /\ store[s] # Memory!Missing /\ adds' \in 0..MaxAdds
        /\ DOMAIN saving' = Sessions /\ \A t \in Sessions : t # s => saving'[t] = saving[t]
    <3>1. CASE Memory!Add(s)
      BY <1>0, <3>1 DEF Memory!Add, Memory!Begin, Memory!Idle, MemoryInv, Memory!TypeOK
    <3>2. ASSUME NEW id \in 1..MaxId, Memory!Remove(s, id)
          PROVE  <2>2!:
      BY <1>0, <3>2 DEF Memory!Remove, Memory!Begin, Memory!Idle, MemoryInv, Memory!TypeOK
    <3>3. QED
      BY <1>2, <3>1, <3>2
  <2>3. ASSUME NEW t \in Sessions PROVE SessionOK(t)'
    BY <2>1, <2>2 DEF MemoryInv, SessionOK, FileOK
  <2>4. QED
    BY <2>1, <2>2, <2>3 DEF MemoryInv, Memory!TypeOK, FileOK
<1>3. CASE Memory!Replace(s)
  <2> DEFINE new == saving[s]
  <2>1. /\ new # Memory!Missing /\ SessionOK(s) /\ FileOK(new) /\ FileOK(store[s])
        /\ store[s] # Memory!Missing /\ store'[s] = new /\ saving'[s] = Memory!Missing
        /\ shared' = new /\ writer' = s /\ UNCHANGED <<adds, loads>>
        /\ told'[s] = told[s] \cup {<<i, new.items[i]>> : i \in DOMAIN new.items}
        /\ DOMAIN store' = Sessions /\ DOMAIN saving' = Sessions /\ DOMAIN told' = Sessions
    BY <1>3 DEF Memory!Replace, MemoryInv, SessionOK
  <2>2. /\ new.next \in Nat /\ store[s].next \in Nat /\ store[s].next <= new.next
        /\ \A i \in DOMAIN new.items :
             \/ i \in Nat /\ i < new.next /\ i >= store[s].next
             \/ <<i, new.items[i]>> \in told[s]
    BY <2>1 DEF SessionOK, FileOK
  <2>3. /\ \A x \in told'[s] : x[1] \in Nat /\ x[1] < new.next
        /\ \A x, y \in told'[s] : x[1] = y[1] => x[2] = y[2]
    <3>1. \A x \in told[s] : x[1] \in Nat /\ x[1] < store[s].next
      BY <2>1 DEF SessionOK
    <3>2. \A x, y \in told[s] : x[1] = y[1] => x[2] = y[2]
      BY <2>1 DEF SessionOK
    <3>3. \A x \in told'[s] :
            \/ x \in told[s]
            \/ /\ x[1] \in DOMAIN new.items /\ x[2] = new.items[x[1]]
               /\ x[1] \in Nat /\ x[1] < new.next /\ x[1] >= store[s].next
      BY <2>1, <2>2
    <3>4. QED
      BY <2>2, <3>1, <3>2, <3>3
  <2>4. SessionOK(s)'
    BY <2>1, <2>3 DEF SessionOK, FileOK
  <2>5. ASSUME NEW t \in Sessions, t # s PROVE SessionOK(t)'
    <3>1. store'[t] = store[t] /\ saving'[t] = saving[t] /\ told'[t] = told[t]
      BY <1>3, <2>5 DEF Memory!Replace, MemoryInv
    <3>2. QED
      BY <2>1, <2>5, <3>1 DEF MemoryInv, SessionOK, FileOK
  <2>6. QED
    BY <2>1, <2>4, <2>5, <1>3 DEF MemoryInv, Memory!TypeOK, FileOK, SessionOK, Memory!Replace
<1>4. CASE Memory!SaveFails(s)
  BY <1>4 DEF Memory!SaveFails, MemoryInv, Memory!TypeOK, FileOK, SessionOK
<1>5. CASE Memory!Exit(s)
  <2>1. /\ writer' \in Sessions \cup {Memory!Nobody} /\ writer' # s /\ UNCHANGED <<adds, loads>>
        /\ \A t \in Sessions : writer' = t => writer = t /\ shared' = shared
        /\ shared' \in {shared, saving[s]}
        /\ store'[s] = Memory!Missing /\ saving'[s] = Memory!Missing /\ told'[s] = {}
        /\ DOMAIN store' = Sessions /\ DOMAIN saving' = Sessions /\ DOMAIN told' = Sessions
        /\ \A t \in Sessions : t # s =>
             store'[t] = store[t] /\ saving'[t] = saving[t] /\ told'[t] = told[t]
    BY <1>0, <1>5 DEF Memory!Exit, MemoryInv, Memory!TypeOK
  <2>2. FileOK(shared)'
    BY <2>1 DEF MemoryInv, SessionOK, FileOK
  <2>3. ASSUME NEW t \in Sessions PROVE SessionOK(t)'
    BY <2>1 DEF MemoryInv, SessionOK, FileOK
  <2>4. QED
    BY <2>1, <2>2, <2>3 DEF MemoryInv, Memory!TypeOK
<1>6. QED
  BY <1>1, <1>2, <1>3, <1>4, <1>5

LEMMA MemoryInvariant == Spec => [](part = "memory" => MemoryInv)
<1>1. Init => (part = "memory" => MemoryInv)
  BY MemoryInit DEF Init
<1>2. (part = "memory" => MemoryInv) /\ [Next]_vars => (part = "memory" => MemoryInv)'
  <2> SUFFICES ASSUME part = "memory" => MemoryInv, [Next]_vars, (part = "memory")'
               PROVE  MemoryInv'
    OBVIOUS
  <2>1. CASE UNCHANGED memoryVars
    BY <2>1 DEF memoryVars, MemoryInv, Memory!TypeOK, SessionOK, FileOK, Next, Only, vars
  <2>2. CASE Only("memory") /\ Memory!Next
    BY <2>2, MemoryStep DEF Only
  <2>3. QED
    BY <2>1, <2>2 DEF Next, Only, vars
<1>3. QED
  BY <1>1, <1>2, PTL DEF Spec

(* Every start finds a memory it can load, an id names one entry of a session,  *)
(* and an answer is what the file has unless another session has replaced it    *)
(* (plugins/memory/store.py add, remove, _save, _validated), for any number of  *)
(* sessions, items and ids.                                                  *)
THEOREM MemoryCorrect == Spec => []MemoryHonest
<1>1. (part = "memory" => MemoryInv) => MemoryHonest
  BY ValidFile DEF MemoryInv, SessionOK, MemoryHonest, Memory!MemoryHonest, Memory!AlwaysLoads,
       Memory!AnswersHold
<1>2. QED
  BY <1>1, MemoryInvariant, PTL

(***************************************************************************)
(* The terminal.                                                            *)
(***************************************************************************)
Modes == [input : {"cooked", "raw", "fallback"}, output : {"cooked", "raw"}]

(* Within a session, the backend has captured the modes of before the session   *)
(* or has changed none; what has not been given back was refused, and then an    *)
(* exception is on its way.                                                  *)
InSession ==
  /\ entered
  /\ taken \in {Terminal!Nothing, original}
  /\ taken = Terminal!Nothing => modes = original
  /\ system # "windows" => modes.output = original.output
  /\ step \in {"raw", "input", "fallback", "write", "output"} => taken = original
  /\ step = "configure" => taken = Terminal!Nothing
  /\ step \in {"input", "fallback", "output"} => system = "windows"
  /\ step \notin {"restore", "output"} => refused = {} /\ (~active => screen = shown)
  /\ active => step \in {"in", "undo", "leave", "restore", "output"}
  /\ step \in {"restore", "output"} /\ "screen" \notin refused => screen \in {"main", shown}
  /\ step = "restore" => refused \subseteq {"screen"}
  /\ step = "output" =>
       /\ refused \subseteq {"screen", "input"}
       /\ "input" \notin refused => modes.input = original.input
  /\ refused # {} => failing

TerminalInv ==
  /\ Terminal!TypeOK /\ original \in Modes
  /\ Terminal!GivenBack
  /\ step = "out" => ~entered /\ ~active /\ taken = Terminal!Nothing
  /\ step # "out" => InSession

LEMMA TerminalInit == Terminal!Init => TerminalInv
BY DEF Terminal!Init, TerminalInv, Terminal!TypeOK, Terminal!GivenBack, Terminal!Cooked, Modes

LEMMA ModesNotNothing == \A m \in Modes : m # Terminal!Nothing
BY DEF Modes, Terminal!Nothing

LEMMA TerminalStep == TerminalInv /\ Terminal!Next => TerminalInv'
<1> SUFFICES ASSUME TerminalInv, Terminal!Next PROVE TerminalInv'
  OBVIOUS
<1> USE ModesNotNothing DEF TerminalInv, Terminal!TypeOK, Terminal!GivenBack, InSession, Modes,
      Terminal!To, Terminal!Same, Terminal!session
<1>1. CASE Terminal!Enter
  BY <1>1 DEF Terminal!Enter
<1>2. CASE Terminal!Captured
  BY <1>2 DEF Terminal!Captured
<1>3. CASE Terminal!Raw
  BY <1>3 DEF Terminal!Raw, Terminal!Changed
<1>4. CASE Terminal!NoSequences
  BY <1>4 DEF Terminal!NoSequences
<1>5. CASE Terminal!Fails
  BY <1>5 DEF Terminal!Fails, Terminal!EnterFails
<1>6. CASE Terminal!TakeScreen
  BY <1>6 DEF Terminal!TakeScreen
<1>7. CASE Terminal!Leave
  BY <1>7 DEF Terminal!Leave
<1>8. CASE Terminal!GiveScreen
  BY <1>8 DEF Terminal!GiveScreen
<1>9. ASSUME NEW given \in BOOLEAN, Terminal!RestoreInput(given)
      PROVE  TerminalInv'
  BY <1>9 DEF Terminal!RestoreInput, Terminal!Restored, Terminal!Over
<1>10. ASSUME NEW given \in BOOLEAN, Terminal!RestoreOutput(given)
       PROVE  TerminalInv'
  BY <1>10 DEF Terminal!RestoreOutput, Terminal!Restored, Terminal!Over
<1>11. QED
  BY <1>1, <1>2, <1>3, <1>4, <1>5, <1>6, <1>7, <1>8, <1>9, <1>10 DEF Terminal!Next

LEMMA TerminalInvariant == Spec => [](part = "terminal" => TerminalInv)
<1>1. Init => (part = "terminal" => TerminalInv)
  BY TerminalInit DEF Init
<1>2. (part = "terminal" => TerminalInv) /\ [Next]_vars => (part = "terminal" => TerminalInv)'
  <2> SUFFICES ASSUME part = "terminal" => TerminalInv, [Next]_vars, (part = "terminal")'
               PROVE  TerminalInv'
    OBVIOUS
  <2>1. CASE UNCHANGED terminalVars /\ part' = part
    BY <2>1 DEF terminalVars, TerminalInv, Terminal!TypeOK, Terminal!GivenBack, InSession
  <2>2. CASE Only("terminal") /\ Terminal!Next
    BY <2>2, TerminalStep DEF Only
  <2>3. QED
    BY <2>1, <2>2 DEF Next, Only, vars
<1>3. QED
  BY <1>1, <1>2, PTL DEF Spec

(* A session of the terminal gives back the modes and the screen it took,       *)
(* wherever it has failed, and says so when it could not (raychat/ui/terminal.py *)
(* __enter__, __exit__, terminal_backend.py restore), over any number of sessions. *)
THEOREM TerminalCorrect == Spec => []GivenBack
<1>1. (part = "terminal" => TerminalInv) => GivenBack
  BY DEF TerminalInv, GivenBack
<1>2. QED
  BY <1>1, TerminalInvariant, PTL

(***************************************************************************)
(* Files.                                                                   *)
(***************************************************************************)
Stamp(n)   == inodes[n].stamp
Content(n) == inodes[n].blocks
Calls      == {"idle", "page", "digest", "copy", "look", "replace"}
HasOpen(a) == call[a] \in {"page", "digest", "copy"}

FilesTyped ==
  /\ path \in Files!Numbers \cup {Files!None} /\ (path # Files!None => path \in DOMAIN inodes)
  /\ changes \in 0..MaxChanges
  /\ \A n \in DOMAIN inodes :
       n \in Files!Numbers /\ inodes[n] \in [blocks : Files!Contents, stamp : 0..changes]
  /\ call \in [Agents -> Calls]
  /\ source \in [Agents -> DOMAIN inodes \cup {Files!None}]
  /\ before \in [Agents -> 0..changes]
  /\ copied \in [Agents -> Seq(0..MaxChanges)]
  /\ DOMAIN edited = Agents /\ DOMAIN page = Agents
  /\ expected \in [Agents -> Files!Contents \cup {<<>>}]
  /\ late \in [Agents -> BOOLEAN]

(* A stamp is that of one content: what an agent has read of the inode that was  *)
(* stamped so is still there, and is there when it finds that stamp again, in    *)
(* whatever inode.                                                          *)
Informed(a) ==
  /\ Len(copied[a]) <= Blocks
  /\ HasOpen(a) => source[a] # Files!None
  /\ HasOpen(a) => \A n \in DOMAIN inodes : Stamp(n) = before[a] =>
       /\ n = source[a]
       /\ \A i \in 1..Len(copied[a]) : copied[a][i] = Content(n)[i]
       /\ call[a] = "digest" => page[a] = Content(n)[1]
  /\ call[a] \in {"copy", "look", "replace"} => expected[a] \in Files!Contents
  /\ call[a] \in {"look", "replace"} =>
       /\ copied[a] = expected[a]
       /\ \A n \in DOMAIN inodes : Stamp(n) = before[a] => Content(n) = expected[a]
  /\ call[a] = "replace" /\ ~late[a] => path # Files!None /\ Stamp(path) = before[a]

FilesInv ==
  /\ FilesTyped
  /\ \A m, n \in DOMAIN inodes : Stamp(m) = Stamp(n) => m = n
  /\ \A a \in Agents : Informed(a)

LEMMA FilesInit == Files!Init => FilesInv
<1> SUFFICES ASSUME Files!Init PROVE FilesInv
  OBVIOUS
<1>1. /\ Blocks \in Nat \ {0} /\ MaxChanges \in Nat /\ Files!None = 0
      /\ 1 \in Files!Numbers
  <2>1. IsFiniteSet(Agents)
    BY FilesAssumed DEF Files!FilesAssumption, Files!IsFiniteSet, IsFiniteSet
  <2>2. Files!Cardinality(Agents) = Cardinality(Agents)
    BY DEF Files!Cardinality, Cardinality, Files!IsFiniteSet, IsFiniteSet
  <2>3. Cardinality(Agents) \in Nat
    BY <2>1, FS_CardinalityType
  <2>4. QED
    BY <2>2, <2>3, FilesAssumed DEF Files!FilesAssumption, Files!Numbers, Files!None
<1>2. /\ path = 1 /\ DOMAIN inodes = {1} /\ changes = 0
      /\ inodes[1] = [blocks |-> [b \in 1..Blocks |-> 0], stamp |-> 0]
      /\ [b \in 1..Blocks |-> 0] \in Files!Contents
  BY <1>1 DEF Files!Init, Files!Contents
<1>3. FilesTyped
  BY <1>1, <1>2 DEF FilesTyped, Files!Init, Calls
<1>4. ASSUME NEW a \in Agents PROVE Informed(a)
  BY <1>1, <1>2 DEF Informed, Files!Init, HasOpen
<1>5. QED
  BY <1>2, <1>3, <1>4 DEF FilesInv

(* The inodes after a step: those that are kept as they were, and at most one    *)
(* that was changed or made, at the next stamp.                               *)
Successors ==
  \A n \in DOMAIN inodes' :
    \/ n \in DOMAIN inodes /\ inodes'[n] = inodes[n]
    \/ changes' = changes + 1 /\ Stamp(n)' = changes'

(* Who makes no call in a step keeps what it knows.                          *)
Silent(b) ==
  /\ call'[b] = call[b] /\ source'[b] = source[b] /\ before'[b] = before[b]
  /\ copied'[b] = copied[b] /\ page'[b] = page[b] /\ expected'[b] = expected[b]

PathKept == path # Files!None => path' = path /\ inodes'[path] = inodes[path]

LEMMA Bystander ==
  ASSUME FilesInv, Successors, NEW b \in Agents, Silent(b),
         call[b] = "replace" /\ ~late'[b] => ~late[b] /\ PathKept
  PROVE  Informed(b)'
<1> USE DEF Silent, PathKept
<1>1. before[b] \in Nat /\ before[b] <= changes /\ changes \in Nat
  BY DEF FilesInv, FilesTyped
<1>2. \A n \in DOMAIN inodes' : Stamp(n)' = before[b] => n \in DOMAIN inodes /\ inodes'[n] = inodes[n]
  BY <1>1 DEF Successors
<1>3. Informed(b)
  BY DEF FilesInv
<1>4. QED
  BY <1>2, <1>3 DEF Informed, HasOpen, Stamp, Content

LEMMA OneStamp ==
  ASSUME FilesInv, Successors,
         \A m, n \in DOMAIN inodes' : m = n \/ (m \in DOMAIN inodes /\ inodes'[m] = inodes[m])
                                     \/ (n \in DOMAIN inodes /\ inodes'[n] = inodes[n])
  PROVE  \A m, n \in DOMAIN inodes' : Stamp(m)' = Stamp(n)' => m = n
<1>1. changes \in Nat /\ \A n \in DOMAIN inodes : Stamp(n) \in Nat /\ Stamp(n) <= changes
  BY DEF FilesInv, FilesTyped, Stamp
<1>2. QED
  BY <1>1 DEF Successors, FilesInv, Stamp

LEMMA WholeContent ==
  ASSUME NEW S, NEW s \in Seq(S), NEW n \in Nat, Len(s) = n, NEW T, NEW c \in [1..n -> T],
         \A i \in 1..n : s[i] = c[i]
  PROVE  s = c
<1>1. s \in [1..n -> S]
  OBVIOUS
<1>2. QED
  BY <1>1

LEMMA ContentLength ==
  ASSUME NEW S, NEW s \in Seq(S), NEW n \in Nat, DOMAIN s = 1..n
  PROVE  Len(s) = n
<1>1. Len(s) \in Nat /\ 1..Len(s) = 1..n
  OBVIOUS
<1>2. ~(Len(s) < n)
  <2>1. n >= 1 => n \in 1..Len(s)
    BY <1>1
  <2>2. QED
    BY <1>1, <2>1
<1>3. ~(n < Len(s))
  <2>1. Len(s) >= 1 => Len(s) \in 1..n
    BY <1>1
  <2>2. QED
    BY <1>1, <2>1
<1>4. QED
  BY <1>1, <1>2, <1>3

LEMMA FilesStep == FilesInv /\ Files!Next => FilesInv'
<1> SUFFICES ASSUME FilesInv, Files!Next PROVE FilesInv'
  OBVIOUS
<1>0. /\ Files!None = 0 /\ 0 \notin Files!Numbers /\ MaxChanges \in Nat /\ Blocks \in Nat \ {0}
      /\ \A c \in Files!Contents : DOMAIN c = 1..Blocks /\ c # <<>>
      /\ \A n \in DOMAIN inodes : Content(n) \in Files!Contents /\ Stamp(n) \in 0..changes
  BY FilesAssumed DEF Files!FilesAssumption, Files!None, Files!Numbers, Files!Contents, FilesInv,
       FilesTyped, Content, Stamp
<1> USE <1>0
<1>1. ASSUME NEW a \in Agents, NEW where \in {"page", "copy"}, Files!Open(a, where),
             DOMAIN edited' = Agents, page' = page, where = "copy" => expected[a] # <<>>
      PROVE  FilesInv'
  <2>1. FilesTyped'
    BY <1>1 DEF FilesInv, FilesTyped, Files!Open, Files!Goto, Calls
  <2>2. Successors /\ UNCHANGED <<path, inodes, changes, expected, late>>
    BY <1>1 DEF Files!Open, Successors
  <2>3. Informed(a)'
    BY <1>1 DEF FilesInv, FilesTyped, Files!Open, Files!Goto, Informed, HasOpen, Stamp, Content
  <2>4. ASSUME NEW b \in Agents, b # a PROVE Informed(b)'
    <3>1. Silent(b) /\ PathKept
      BY <1>1, <2>2, <2>4 DEF FilesInv, FilesTyped, Files!Open, Files!Goto, Silent, PathKept
    <3>2. QED
      BY <2>2, <3>1, Bystander
  <2>5. QED
    BY <2>1, <2>2, <2>3, <2>4 DEF FilesInv, Stamp
<1>2. ASSUME NEW a \in Agents, Files!ReadPage(a)
      PROVE  FilesInv'
  <2>1. FilesTyped'
    BY <1>2 DEF FilesInv, FilesTyped, Files!ReadPage, Files!Goto, Calls
  <2>2. Successors /\ UNCHANGED <<path, inodes, changes, expected, late>>
    BY <1>2 DEF Files!ReadPage, Successors
  <2>3. Informed(a)'
    BY <1>2 DEF FilesInv, FilesTyped, Files!ReadPage, Files!Goto, Informed, HasOpen, Stamp, Content
  <2>4. ASSUME NEW b \in Agents, b # a PROVE Informed(b)'
    <3>1. Silent(b) /\ PathKept
      BY <1>2, <2>2, <2>4 DEF FilesInv, FilesTyped, Files!ReadPage, Files!Goto, Silent, PathKept
    <3>2. QED
      BY <2>2, <3>1, Bystander
  <2>5. QED
    BY <2>1, <2>2, <2>3, <2>4 DEF FilesInv, Stamp
<1>3. ASSUME NEW a \in Agents, Files!ReadBlock(a)
      PROVE  FilesInv'
  <2> DEFINE next == Content(source[a])[Len(copied[a]) + 1]
  <2>1. /\ source[a] \in DOMAIN inodes /\ call[a] \in {"digest", "copy"}
        /\ Len(copied[a]) \in Nat /\ Len(copied[a]) + 1 \in 1..Blocks
    BY <1>3 DEF FilesInv, FilesTyped, Files!ReadBlock, Informed, HasOpen
  <2>2. next \in 0..MaxChanges
    BY <2>1 DEF Files!Contents
  <2>3. /\ copied' = [copied EXCEPT ![a] = Append(@, next)]
        /\ UNCHANGED <<path, inodes, changes, call, source, before, edited, page, expected, late>>
    BY <1>3 DEF Files!ReadBlock, FilesInv, FilesTyped, Content
  <2>4. FilesTyped'
    BY <2>2, <2>3 DEF FilesInv, FilesTyped
  <2>5. /\ Len(copied'[a]) = Len(copied[a]) + 1 /\ copied'[a][Len(copied[a]) + 1] = next
        /\ \A i \in 1..Len(copied[a]) : copied'[a][i] = copied[a][i]
    BY <2>2, <2>3 DEF FilesInv, FilesTyped
  <2>6. Informed(a)'
    BY <2>1, <2>3, <2>5 DEF FilesInv, Informed, HasOpen, Stamp, Content
  <2>7. ASSUME NEW b \in Agents, b # a PROVE Informed(b)'
    <3>1. Successors
      BY <2>3 DEF Successors
    <3>2. Silent(b) /\ PathKept
      BY <2>3, <2>7 DEF FilesInv, FilesTyped, Silent, PathKept
    <3>3. QED
      BY <2>3, <3>1, <3>2, Bystander
  <2>8. QED
    BY <2>3, <2>4, <2>6, <2>7 DEF FilesInv, Stamp
<1>4. ASSUME NEW a \in Agents, Files!FinishRead(a)
      PROVE  FilesInv'
  <2>1. /\ call[a] = "digest" /\ Len(copied[a]) = Blocks /\ source[a] = path
        /\ path \in DOMAIN inodes /\ Stamp(path) = before[a]
    BY <1>4 DEF Files!FinishRead, Files!Unchanged, Stamp
  <2>2. copied[a] = Content(path)
    <3>1. copied[a] \in Seq(0..MaxChanges) /\ Content(path) \in [1..Blocks -> 0..MaxChanges]
      BY <2>1 DEF FilesInv, FilesTyped, Files!Contents
    <3>2. \A i \in 1..Blocks : copied[a][i] = Content(path)[i]
      BY <2>1 DEF FilesInv, Informed, HasOpen
    <3>3. QED
      BY <2>1, <3>1, <3>2, WholeContent
  <2>3. /\ inodes' = [n \in DOMAIN inodes \cap ({path} \cup {source'[b] : b \in Agents}) |-> inodes[n]]
        /\ UNCHANGED <<path, changes, late>> /\ Files!Ends(a)
        /\ expected' = [expected EXCEPT ![a] = copied[a]]
    BY <1>4 DEF Files!FinishRead, Files!Kept
  <2>4. FilesTyped'
    BY <2>1, <2>2, <2>3 DEF FilesInv, FilesTyped, Files!Ends, Files!Goto, Files!Close, Calls
  <2>5. Successors
    BY <2>3 DEF Successors
  <2>6. Informed(a)'
    BY <2>3 DEF FilesInv, FilesTyped, Files!Ends, Files!Goto, Files!Close, Informed, HasOpen
  <2>7. ASSUME NEW b \in Agents, b # a PROVE Informed(b)'
    <3>1. Silent(b) /\ late'[b] = late[b]
      BY <2>3, <2>7 DEF FilesInv, FilesTyped, Files!Ends, Files!Goto, Files!Close, Silent
    <3>2. PathKept
      BY <2>3 DEF FilesInv, FilesTyped, PathKept
    <3>3. QED
      BY <2>5, <3>1, <3>2, Bystander
  <2>8. QED
    BY <2>3, <2>4, <2>6, <2>7 DEF FilesInv, Stamp
<1>5. ASSUME NEW a \in Agents, Files!Fail(a)
      PROVE  FilesInv'
  <2>3. /\ inodes' = [n \in DOMAIN inodes \cap ({path} \cup {source'[b] : b \in Agents}) |-> inodes[n]]
        /\ UNCHANGED <<path, changes, expected>> /\ Files!Ends(a)
        /\ late' = [late EXCEPT ![a] = FALSE]
    BY <1>5 DEF Files!Fail, Files!Kept
  <2>4. FilesTyped'
    BY <2>3 DEF FilesInv, FilesTyped, Files!Ends, Files!Goto, Files!Close, Calls
  <2>5. Successors
    BY <2>3 DEF Successors
  <2>6. Informed(a)'
    BY <2>3 DEF FilesInv, FilesTyped, Files!Ends, Files!Goto, Files!Close, Informed, HasOpen
  <2>7. ASSUME NEW b \in Agents, b # a PROVE Informed(b)'
    <3>1. Silent(b) /\ late'[b] = late[b]
      BY <2>3, <2>7 DEF FilesInv, FilesTyped, Files!Ends, Files!Goto, Files!Close, Silent
    <3>2. PathKept
      BY <2>3 DEF FilesInv, FilesTyped, PathKept
    <3>3. QED
      BY <2>5, <3>1, <3>2, Bystander
  <2>8. QED
    BY <2>3, <2>4, <2>6, <2>7 DEF FilesInv, Stamp
<1>6. ASSUME NEW a \in Agents, Files!Verify(a)
      PROVE  FilesInv'
  <2>1. /\ call[a] = "copy" /\ copied[a] = expected[a] /\ expected[a] \in Files!Contents
        /\ source[a] \in DOMAIN inodes /\ Stamp(source[a]) = before[a]
    BY <1>6 DEF Files!Verify, Files!Unchanged, Stamp, FilesInv, Informed
  <2>2. Content(source[a]) = expected[a]
    <3>1. copied[a] \in Seq(0..MaxChanges) /\ Content(source[a]) \in [1..Blocks -> 0..MaxChanges]
      BY <2>1 DEF FilesInv, FilesTyped, Files!Contents
    <3>2. Len(copied[a]) = Blocks
      BY <2>1, <3>1, ContentLength DEF Files!Contents
    <3>3. \A i \in 1..Blocks : copied[a][i] = Content(source[a])[i]
      BY <2>1, <3>2 DEF FilesInv, Informed, HasOpen
    <3>4. copied[a] = Content(source[a])
      BY <3>1, <3>2, <3>3, WholeContent
    <3>5. QED
      BY <2>1, <3>4
  <2>3. /\ inodes' = [n \in DOMAIN inodes \cap ({path} \cup {source'[b] : b \in Agents}) |-> inodes[n]]
        /\ UNCHANGED <<path, changes, before, copied, edited, page, expected, late>>
        /\ Files!Goto(a, "look") /\ Files!Close(a)
    BY <1>6 DEF Files!Verify, Files!Kept
  <2>4. FilesTyped'
    BY <2>3 DEF FilesInv, FilesTyped, Files!Goto, Files!Close, Calls
  <2>5. Successors
    BY <2>3 DEF Successors
  <2>6. Informed(a)'
    BY <2>1, <2>2, <2>3 DEF FilesInv, FilesTyped, Files!Goto, Files!Close, Informed, HasOpen, Stamp, Content
  <2>7. ASSUME NEW b \in Agents, b # a PROVE Informed(b)'
    <3>1. Silent(b) /\ late'[b] = late[b]
      BY <2>3, <2>7 DEF FilesInv, FilesTyped, Files!Goto, Files!Close, Silent
    <3>2. PathKept
      BY <2>3 DEF FilesInv, FilesTyped, PathKept
    <3>3. QED
      BY <2>5, <3>1, <3>2, Bystander
  <2>8. QED
    BY <2>3, <2>4, <2>6, <2>7 DEF FilesInv, Stamp
<1>7. ASSUME NEW a \in Agents, Files!Look(a)
      PROVE  FilesInv'
  <2>1. FilesTyped'
    BY <1>7 DEF FilesInv, FilesTyped, Files!Look, Files!Goto, Calls
  <2>2. Successors /\ UNCHANGED <<path, inodes, changes, expected, late>>
    BY <1>7 DEF Files!Look, Successors
  <2>3. Informed(a)'
    BY <1>7 DEF FilesInv, FilesTyped, Files!Look, Files!Unchanged, Files!Goto, Informed, HasOpen, Stamp, Content
  <2>4. ASSUME NEW b \in Agents, b # a PROVE Informed(b)'
    <3>1. Silent(b) /\ PathKept
      BY <1>7, <2>2, <2>4 DEF FilesInv, FilesTyped, Files!Look, Files!Goto, Silent, PathKept
    <3>2. QED
      BY <2>2, <3>1, Bystander
  <2>5. QED
    BY <2>1, <2>2, <2>3, <2>4 DEF FilesInv, Stamp
<1>8. ASSUME NEW a \in Agents, NEW c \in Files!Contents, Files!Place(a, c),
             changes < MaxChanges, changes' = changes + 1, late' \in [Agents -> BOOLEAN],
             \A b \in Agents : b # a /\ call[b] = "replace" => late'[b]
      PROVE  FilesInv'
  <2>1. /\ path' \in Files!Numbers /\ path' \notin DOMAIN inodes /\ Files!Ends(a)
        /\ expected' = [expected EXCEPT ![a] = c] 
    BY <1>8 DEF Files!Place
  <2>2. /\ DOMAIN inodes' = (DOMAIN inodes \cup {path'}) \cap ({path'} \cup {source'[b] : b \in Agents})
        /\ inodes'[path'] = [blocks |-> c, stamp |-> changes']
        /\ \A n \in DOMAIN inodes' : n # path' => n \in DOMAIN inodes /\ inodes'[n] = inodes[n]
    BY <1>8, <2>1 DEF Files!Place, Files!Kept
  <2>3. FilesTyped'
    <3>1. path' \in DOMAIN inodes' /\ changes \in 0..MaxChanges /\ changes' \in 0..MaxChanges
      BY <1>8, <2>2 DEF FilesInv, FilesTyped
    <3>2. ASSUME NEW n \in DOMAIN inodes'
          PROVE  n \in Files!Numbers /\ inodes'[n] \in [blocks : Files!Contents, stamp : 0..changes']
      <4>1. CASE n = path'
        <5>1. changes' \in 0..changes'
          BY <1>8, <2>1, <2>2, <3>1 DEF FilesInv, FilesTyped
        <5>2. QED
          BY <1>8, <2>1, <2>2, <3>1, <4>1, <5>1 DEF FilesInv, FilesTyped
      <4>2. CASE n # path'
        <5>1. n \in Files!Numbers /\ inodes'[n] \in [blocks : Files!Contents, stamp : 0..changes]
          BY <1>8, <2>1, <2>2, <3>1, <3>2, <4>2 DEF FilesInv, FilesTyped
        <5>2. 0..changes \subseteq 0..changes'
          BY <1>8, <2>1, <2>2, <3>1 DEF FilesInv, FilesTyped
        <5>3. QED
          BY <5>1, <5>2
      <4>3. QED
        BY <4>1, <4>2
    <3>3. /\ call' \in [Agents -> Calls] /\ before' \in [Agents -> 0..changes']
          /\ copied' \in [Agents -> Seq(0..MaxChanges)]
          /\ DOMAIN edited' = Agents /\ DOMAIN page' = Agents
      BY <1>8, <2>1, <3>1 DEF FilesInv, FilesTyped, Files!Ends, Files!Goto, Calls
    <3>4. source' \in [Agents -> DOMAIN inodes' \cup {Files!None}]
      BY <2>1, <2>2 DEF FilesInv, FilesTyped, Files!Ends, Files!Close
    <3>5. expected' \in [Agents -> Files!Contents \cup {<<>>}]
      BY <2>1 DEF FilesInv, FilesTyped
    <3>6. QED
      BY <1>8, <2>1, <3>1, <3>2, <3>3, <3>4, <3>5 DEF FilesTyped
  <2>4. Successors
    BY <1>8, <2>1, <2>2 DEF Successors, Stamp
  <2>5. Informed(a)'
    BY <2>1 DEF FilesInv, FilesTyped, Files!Ends, Files!Goto, Files!Close, Informed, HasOpen
  <2>6. ASSUME NEW b \in Agents, b # a PROVE Informed(b)'
    <3>1. Silent(b)
      BY <2>1, <2>6 DEF FilesInv, FilesTyped, Files!Ends, Files!Goto, Files!Close, Silent
    <3>2. QED
      BY <1>8, <2>4, <2>6, <3>1, Bystander
  <2>7. QED
    BY <2>2, <2>3, <2>4, <2>5, <2>6, OneStamp DEF FilesInv
<1>9. ASSUME NEW b \in 1..Blocks, Files!Scribble(b)
      PROVE  FilesInv'
  <2>1. /\ path \in DOMAIN inodes /\ path # Files!None /\ changes' = changes + 1 /\ changes' \in 0..MaxChanges
        /\ late' = [a \in Agents |-> late[a] \/ call[a] = "replace"]
        /\ DOMAIN inodes' = DOMAIN inodes
        /\ inodes'[path] = [blocks |-> [Content(path) EXCEPT ![b] = changes'], stamp |-> changes']
        /\ \A n \in DOMAIN inodes' : n # path => inodes'[n] = inodes[n]
        /\ UNCHANGED <<path, call, source, before, copied, edited, page, expected>>
    BY <1>9 DEF Files!Scribble, Files!Changed, FilesInv, FilesTyped, Content
  <2>2. FilesTyped'
    <3>1. [Content(path) EXCEPT ![b] = changes'] \in Files!Contents
      BY <1>9, <2>1 DEF Files!Contents
    <3>2. ASSUME NEW n \in DOMAIN inodes'
          PROVE  n \in Files!Numbers /\ inodes'[n] \in [blocks : Files!Contents, stamp : 0..changes']
      <4>1. CASE n = path
        <5>1. changes' \in 0..changes'
          BY <2>1, <3>1 DEF FilesInv, FilesTyped
        <5>2. QED
          <6>1. n \in Files!Numbers
            BY <2>1, <4>1 DEF FilesInv, FilesTyped
          <6>2. inodes'[n] = [blocks |-> [Content(path) EXCEPT ![b] = changes'], stamp |-> changes']
            BY <2>1, <4>1
          <6>3. QED
            BY <3>1, <5>1, <6>1, <6>2
      <4>2. CASE n # path
        <5>1. n \in Files!Numbers /\ inodes'[n] \in [blocks : Files!Contents, stamp : 0..changes]
          BY <2>1, <3>1, <3>2, <4>2 DEF FilesInv, FilesTyped
        <5>2. 0..changes \subseteq 0..changes'
          BY <2>1, <3>1 DEF FilesInv, FilesTyped
        <5>3. QED
          BY <5>1, <5>2
      <4>3. QED
        BY <4>1, <4>2
    <3>3. before' \in [Agents -> 0..changes'] /\ late' \in [Agents -> BOOLEAN]
      BY <2>1 DEF FilesInv, FilesTyped
    <3>4. QED
      BY <2>1, <3>2, <3>3 DEF FilesInv, FilesTyped
  <2>3. Successors
    BY <2>1 DEF Successors, Stamp
  <2>4. ASSUME NEW a \in Agents PROVE Informed(a)'
    <3>1. Silent(a) /\ (call[a] = "replace" => late'[a])
      BY <2>1 DEF Silent, FilesInv, FilesTyped
    <3>2. QED
      BY <2>3, <3>1, Bystander
  <2>5. QED
    BY <2>1, <2>2, <2>3, <2>4, OneStamp DEF FilesInv
<1>10. CASE Files!Delete
  <2>1. /\ path # Files!None /\ path' = Files!None /\ changes' = changes + 1 /\ changes' \in 0..MaxChanges
        /\ late' = [a \in Agents |-> late[a] \/ call[a] = "replace"]
        /\ inodes' = [n \in DOMAIN inodes \cap ({Files!None} \cup {source[a] : a \in Agents}) |-> inodes[n]]
        /\ UNCHANGED <<call, source, before, copied, edited, page, expected>>
    BY <1>10 DEF Files!Delete, Files!Changed, Files!Kept, FilesInv, FilesTyped
  <2>2. FilesTyped'
    BY <2>1 DEF FilesInv, FilesTyped
  <2>3. Successors
    BY <2>1 DEF Successors
  <2>4. ASSUME NEW a \in Agents PROVE Informed(a)'
    <3>1. Silent(a) /\ (call[a] = "replace" => late'[a])
      BY <2>1 DEF Silent, FilesInv, FilesTyped
    <3>2. QED
      BY <2>3, <3>1, Bystander
  <2>5. QED
    BY <2>1, <2>2, <2>3, <2>4, OneStamp DEF FilesInv
<1>11. ASSUME NEW a \in Agents, Files!ReplaceEdit(a)
       PROVE  FilesInv'
  <2> DEFINE c == [copied[a] EXCEPT ![edited[a]] = changes']
  <2>1. c \in Files!Contents
    <3>1. copied[a] \in Files!Contents
      BY <1>11 DEF Files!ReplaceEdit, FilesInv, Informed
    <3>2. changes' \in 0..MaxChanges
      BY <1>11 DEF Files!ReplaceEdit, FilesInv, FilesTyped
    <3>3. QED
      BY <3>1, <3>2 DEF Files!Contents
  <2>2. QED
    BY <1>8, <1>11, <2>1 DEF Files!ReplaceEdit, FilesInv, FilesTyped
<1>12. ASSUME NEW a \in Agents, Files!Write(a)
       PROVE  FilesInv'
  <2>1. [b \in 1..Blocks |-> changes'] \in Files!Contents
    BY <1>12 DEF Files!Write, Files!Changed, FilesInv, FilesTyped, Files!Contents
  <2>2. QED
    BY <1>8, <1>12, <2>1 DEF Files!Write, Files!Changed, FilesInv, FilesTyped
<1>13. QED
  BY <1>1, <1>2, <1>3, <1>4, <1>5, <1>6, <1>7, <1>9, <1>10, <1>11, <1>12
     DEF Files!Next, Files!OpenRead, Files!OpenEdit, FilesInv, FilesTyped

LEMMA FilesInvariant == Spec => [](part = "files" => FilesInv)
<1>1. Init => (part = "files" => FilesInv)
  BY FilesInit DEF Init
<1>2. (part = "files" => FilesInv) /\ [Next]_vars => (part = "files" => FilesInv)'
  <2> SUFFICES ASSUME part = "files" => FilesInv, [Next]_vars, (part = "files")'
               PROVE  FilesInv'
    OBVIOUS
  <2>1. CASE UNCHANGED filesVars /\ part' = part
    BY <2>1 DEF filesVars, FilesInv, FilesTyped, Informed, HasOpen, Stamp, Content
  <2>2. CASE Only("files") /\ Files!Next
    BY <2>2, FilesStep DEF Only
  <2>3. QED
    BY <2>1, <2>2 DEF Next, Only, vars
<1>3. QED
  BY <1>1, <1>2, PTL DEF Spec

LEMMA DigestStep == FilesInv /\ Files!Next => Files!DigestIsCurrent
<1> SUFFICES ASSUME FilesInv, Files!Next, NEW a \in Agents, expected'[a] # expected[a]
             PROVE  /\ path' # Files!None /\ expected'[a] = Content(path)'
                    /\ call[a] = "digest" => page[a] = expected'[a][1]
  BY DEF Files!DigestIsCurrent, Content
<1>0. Files!None = 0 /\ 0 \notin Files!Numbers /\ Blocks \in Nat \ {0}
  BY FilesAssumed DEF Files!None, Files!Numbers, Files!FilesAssumption
<1>1. PICK b \in Agents : Files!FinishRead(b) \/ Files!ReplaceEdit(b) \/ Files!Write(b)
  BY DEF Files!Next, Files!OpenRead, Files!OpenEdit, Files!Open, Files!ReadPage, Files!ReadBlock,
       Files!Verify, Files!Look, Files!Fail, Files!Scribble, Files!Delete
<1>2. b = a
  BY <1>1 DEF Files!FinishRead, Files!ReplaceEdit, Files!Write, Files!Place, FilesInv, FilesTyped
<1>3. CASE Files!FinishRead(a)
  <2>1. /\ call[a] = "digest" /\ Len(copied[a]) = Blocks /\ source[a] = path
        /\ path \in DOMAIN inodes /\ Stamp(path) = before[a] /\ path' = path
        /\ inodes'[path] = inodes[path] /\ expected'[a] = copied[a]
    BY <1>3 DEF Files!FinishRead, Files!Unchanged, Files!Kept, Stamp, FilesInv, FilesTyped
  <2>2. /\ page[a] = Content(path)[1] /\ path # Files!None
        /\ \A i \in 1..Blocks : copied[a][i] = Content(path)[i]
    BY <1>0, <2>1 DEF FilesInv, FilesTyped, Informed, HasOpen
  <2>3. copied[a] \in Seq(0..MaxChanges) /\ Content(path) \in [1..Blocks -> 0..MaxChanges]
    BY <2>1 DEF FilesInv, FilesTyped, Files!Contents, Content
  <2>4. copied[a] = Content(path)
    BY <1>0, <2>1, <2>2, <2>3, WholeContent
  <2>5. QED
    BY <1>0, <2>1, <2>2, <2>4 DEF Content
<1>4. ASSUME NEW c, Files!Place(a, c), call[a] # "digest"
      PROVE  path' # Files!None /\ expected'[a] = Content(path)'
  BY <1>0, <1>4 DEF Files!Place, Files!Kept, FilesInv, FilesTyped, Content
<1>5. QED
  BY <1>1, <1>2, <1>3, <1>4 DEF Files!ReplaceEdit, Files!Write

LEMMA EditStep == FilesInv /\ Files!Next => Files!EditKeepsRest
<1> SUFFICES ASSUME FilesInv, Files!Next, NEW a \in Agents,
                    call[a] = "replace", path' # path, call'[a] = "idle", ~late[a]
             PROVE  /\ path # Files!None /\ Content(path) = expected[a]
                    /\ \A b \in 1..Blocks \ {edited[a]} : Content(path)'[b] = Content(path)[b]
  BY DEF Files!EditKeepsRest, Content
<1>1. Files!ReplaceEdit(a)
  <2>1. PICK b \in Agents : Files!ReplaceEdit(b) \/ Files!Write(b)
    BY DEF Files!Next, Files!OpenRead, Files!OpenEdit, Files!Open, Files!ReadPage, Files!ReadBlock,
         Files!FinishRead, Files!Verify, Files!Look, Files!Fail, Files!Scribble, Files!Delete
  <2>2. b = a
    BY <2>1 DEF Files!ReplaceEdit, Files!Write, Files!Place, Files!Ends, Files!Goto, FilesInv,
         FilesTyped
  <2>3. QED
    BY <2>1, <2>2 DEF Files!Write
<1>2. /\ path # Files!None /\ path \in DOMAIN inodes /\ Stamp(path) = before[a]
      /\ Content(path) = expected[a] /\ copied[a] = expected[a] /\ expected[a] \in Files!Contents
  BY DEF FilesInv, FilesTyped, Informed
<1>3. Content(path)' = [copied[a] EXCEPT ![edited[a]] = changes']
  BY <1>1 DEF Files!ReplaceEdit, Files!Place, Files!Kept, Content
<1>4. QED
  BY <1>2, <1>3 DEF Files!Contents

(* A tool that answers with a digest speaks of the file as it is, and an edit    *)
(* replaces what its agent knew and keeps what it was not to touch               *)
(* (plugins/filesystem/operations.py _read_file_page, _EditStreams,              *)
(* _replace_edit), for any number of agents and blocks and changes of the file.  *)
THEOREM FilesCorrect == Spec => EditsAreInformed
<1>1. (part = "files" => FilesInv) /\ [Next]_vars =>
        [part = "files" => Files!DigestIsCurrent /\ Files!EditKeepsRest]_filesVars
  <2> SUFFICES ASSUME part = "files", FilesInv, [Next]_vars, ~UNCHANGED filesVars
               PROVE  Files!DigestIsCurrent /\ Files!EditKeepsRest
    OBVIOUS
  <2>1. Files!Next
    BY DEF Next, Only, vars
  <2>2. QED
    BY <2>1, DigestStep, EditStep
<1>2. QED
  BY <1>1, FilesInvariant, PTL DEF Spec, EditsAreInformed

(***************************************************************************)
(* The journal, from the lemmas of JournalProofs.                              *)
(***************************************************************************)
-----------------------------------------------------------------------------
(* What has been published survives.                                         *)

LEMMA TurnsAppended ==
  ASSUME NEW f, NEW g, NEW h, NEW i, NEW t \in Nat, Log!HistoryOf(f, h) \in Seq(Nat),
         Log!HistoryOf(g, i) = Append(Log!HistoryOf(f, h), t)
  PROVE  Turns(g, i) = Turns(f, h) \cup {t}
<1> DEFINE s == Log!HistoryOf(f, h)
           u == Log!HistoryOf(g, i)
<1>1. s \in Seq(Nat) /\ u = Append(s, t)
  OBVIOUS
<1>2. Turns(f, h) = {s[k] : k \in DOMAIN s} /\ Turns(g, i) = {u[k] : k \in DOMAIN u}
  BY DEF Turns
<1> HIDE DEF s, u
<1>3. /\ Len(s) \in Nat /\ DOMAIN s = 1..Len(s) /\ DOMAIN u = 1..(Len(s) + 1)
      /\ u[Len(s) + 1] = t /\ \A k \in 1..Len(s) : u[k] = s[k]
  BY <1>1
<1>4. \A k \in 1..(Len(s) + 1) : k \in 1..Len(s) \/ k = Len(s) + 1
  BY <1>3
<1>5. Len(s) + 1 \in 1..(Len(s) + 1) /\ \A k \in 1..Len(s) : k \in 1..(Len(s) + 1)
  BY <1>3
<1>6. {u[k] : k \in DOMAIN u} = {s[k] : k \in DOMAIN s} \cup {t}
  BY <1>3, <1>4, <1>5
<1>7. QED
  BY <1>2, <1>6

LEMMA TurnsSame ==
  ASSUME NEW f, NEW g, NEW h, NEW i, Log!HistoryOf(g, i) = Log!HistoryOf(f, h)
  PROVE  Turns(g, i) = Turns(f, h)
BY DEF Turns

LEMMA TurnsAlike ==
  ASSUME NEW n \in Nat, Alike(n), NEW m \in 0..n
  PROVE  /\ Log!Selected(file, m) \in 0..m /\ Log!Selected(file', m) = Log!Selected(file, m)
         /\ Turns(file', m) = Turns(file, m)
         /\ Turns(file', Log!Selected(file', m)) = Turns(file, Log!Selected(file, m))
<1>1. Log!Selected(file, m) \in 0..n /\ Log!Selected(file, m) \in 0..m
      /\ Log!Selected(file', m) = Log!Selected(file, m)
  BY DEF Alike
<1>2. \A k \in 0..n : Log!HistoryOf(file', k) = Log!HistoryOf(file, k)
  BY DEF Alike
<1>3. \A k \in 0..n : Turns(file', k) = Turns(file, k)
  BY <1>2, TurnsSame
<1>4. QED
  BY <1>1, <1>3

LEMMA HistoriesTyped ==
  ASSUME JournalTypes, NEW h \in 0..Len(file)
  PROVE  Log!HistoryOf(file, h) \in Seq(Nat)
<1>1. Len(file) \in Nat /\ Chained(file, Len(file))
  BY DEF JournalTypes, DiskOK
<1>2. \A i \in 1..Len(file) : file[i].turn \in Nat
  <2>1. \A i \in 1..Len(file) : file[i] \in Entries
    BY DEF JournalTypes, DiskOK
  <2>2. QED
    BY <2>1 DEF Entries
<1>3. QED
  BY <1>1, <1>2, HistoryTurns

LEMMA HoldsGrown ==
  ASSUME JournalTypes, JournalTypes', HoldsOpen, NEW n \in 0..Len(file), Alike(n),
         n <= Len(file'),
         synced <= synced', Promised' \subseteq Promised,
         \A m \in Log!Lengths(Log!Journal)' : m > n =>
           Promised' \subseteq Turns(file', Log!Selected(file', m))
  PROVE  HoldsOpen'
<1>1. /\ synced \in Nat /\ synced' \in Nat /\ Len(file) \in Nat /\ Len(file') \in Nat /\ n \in Nat
  BY DEF JournalTypes, DiskOK
<1>2. Log!Lengths(Log!Journal)' = synced'..Len(file')
      /\ Log!Lengths(Log!Journal) = synced..Len(file)
  BY DEF Log!Journal, Log!Lengths
<1>3. ASSUME NEW m \in Log!Lengths(Log!Journal)'
      PROVE  Promised' \subseteq Turns(file', Log!Selected(file', m))
  <2>1. CASE m > n
    BY <1>3, <2>1
  <2>2. CASE m <= n
    <3>1. m \in 0..n /\ m \in Log!Lengths(Log!Journal)
      BY <1>1, <1>2, <2>2
    <3>2. Turns(file', Log!Selected(file', m)) = Turns(file, Log!Selected(file, m))
      BY <1>1, <3>1, TurnsAlike
    <3>3. QED
      BY <3>1, <3>2 DEF HoldsOpen
  <2>3. m \in Nat
    BY <1>1, <1>2
  <2>4. QED
    BY <1>1, <2>1, <2>2, <2>3
<1>4. QED
  BY <1>3 DEF HoldsOpen

LEMMA HoldsSame ==
  ASSUME HoldsOpen, UNCHANGED <<file, synced>>, Promised' \subseteq Promised
  PROVE  HoldsOpen'
BY DEF HoldsOpen, Log!Journal, Log!Lengths, Turns

LEMMA HoldsLoaded ==
  ASSUME NEW j \in Shelved, Readable(j), Holds(j)
  PROVE  Holds(Log!Loaded(j))
<1>1. /\ Log!Loaded(j).file = j.file /\ Log!Loaded(j).published = j.published
      /\ Log!Loaded(j).synced >= j.synced
      /\ Log!Loaded(j).synced \in Nat /\ j.synced \in Nat /\ Len(j.file) \in Nat
  BY LoadedOK DEF Shelved
<1>2. \A n \in Log!Lengths(Log!Loaded(j)) : n \in Log!Lengths(j)
  BY <1>1 DEF Log!Lengths
<1>3. QED
  BY <1>1, <1>2 DEF Holds

LEMMA HoldsCut ==
  ASSUME NEW j \in Shelved, Readable(j), NEW d \in Log!Cut(j), NEW s,
         \A n \in Log!Lengths(j) : s \subseteq Turns(j.file, Log!Selected(j.file, n)), NEW m \in Log!Lengths(d)
  PROVE  s \subseteq Turns(d.file, Log!Selected(d.file, m))
<1>1. m \in Log!Lengths(j) /\ Log!HistoryAt(d, m) = Log!HistoryAt(j, m)
  BY CutReads
<1>2. Turns(d.file, Log!Selected(d.file, m)) = Turns(j.file, Log!Selected(j.file, m))
  BY <1>1, TurnsSame DEF Log!HistoryAt
<1>3. QED
  BY <1>1, <1>2

LEMMA PublishedStep ==
  ASSUME JournalTypes, JournalTypes', PublishedInv, Log!Next
  PROVE  PublishedInv'
<1>1. /\ Len(file) \in Nat /\ Len(shelf) \in Nat /\ head \in 0..Len(file)
      /\ committed \in 0..Len(file)
      /\ synced \in Nat /\ synced <= Len(file) /\ turn \in Nat
  <2>1. file \in Seq(Entries) /\ shelf \in Seq(Shelved)
    BY DEF JournalTypes, DiskOK
  <2>2. Len(file) \in Nat /\ Len(shelf) \in Nat
    BY <2>1
  <2>3. QED
    BY <2>2 DEF JournalTypes, DiskOK, StoreOK, ChatOK
<1>2. "none" \notin Log!Operations /\ Log!Operations = {"commit", "checkpoint", "select"}
  BY DEF Log!Operations
<1>3. MemoryHolds /\ HoldsOpen /\ \A k \in 1..Len(shelf) : Holds(shelf[k])
  BY DEF PublishedInv
<1>4. Log!Lengths(Log!Journal) = synced..Len(file)
      /\ Log!Lengths(Log!Journal)' = synced'..Len(file')
  BY DEF Log!Journal, Log!Lengths
<1>5. Len(file) \in Log!Lengths(Log!Journal)
  BY <1>1, <1>4
<1>6. published \subseteq Promised
  BY DEF Promised
<1>7. CASE Log!BeginTurn
  <2>1. UNCHANGED <<file, synced, shelf>> /\ Promised' \subseteq Promised
    BY <1>7 DEF Log!BeginTurn, Log!diskVars, Log!keptVars, Log!turnVars, Promised
  <2>2. HoldsOpen' /\ \A k \in 1..Len(shelf') : Holds(shelf'[k])
    BY <1>3, <2>1, HoldsSame
  <2>3. MemoryHolds'
    BY <1>7, <1>1, <1>2, <1>3, <2>1 DEF Log!BeginTurn, MemoryHolds, Work, JournalTypes, StoreOK,
                                        ChatOK, Log!storeVars, Log!chatVars, Log!turnVars,
                                        Log!keptVars, Log!Free
  <2>4. QED
    BY <2>2, <2>3 DEF PublishedInv
<1>8. CASE Log!StartPrompt
  <2>1. /\ Log!AppendRecord("start") /\ UNCHANGED <<edits, Log!keptVars>>
        /\ phase' \in Log!Phases /\ phase' # "committing" /\ phase # "idle"
        /\ phase' = "running" /\ UNCHANGED <<turn, start>> /\ io' = io /\ io.op = "none"
        /\ committed' = committed /\ up
        /\ UNCHANGED <<synced, shelf, published>>
    BY <1>8 DEF Log!StartPrompt, Log!turnVars, Log!Phases, Log!AppendRecord, Log!Free,
                Log!keptVars
  <2>2. /\ DiskOK' /\ Len(file') = Len(file) + 1 /\ (\A i \in 1..Len(file) : file'[i] = file[i])
        /\ file'[head'] = Log!Record("start", head, Log!Blank) /\ head' = Len(file) + 1
    BY <2>1, RecordTypes DEF Log!AppendRecord
  <2>3. /\ Alike(Len(file)) /\ Log!Selected(file', head') = Log!Selected(file, Len(file))
        /\ Log!HistoryOf(file', head') = IF "start" = "message" THEN Append(Log!HistoryOf(file, head), turn) ELSE Log!HistoryOf(file, head)
    BY <1>1, <2>2, RecordReads
  <2>4. /\ Turns(file', committed) = Turns(file, committed)
        /\ Turns(file', Log!Selected(file, Len(file))) = Turns(file, Log!Selected(file, Len(file)))
    <3>1. Log!Selected(file, Len(file)) \in 0..Len(file)
      BY <1>1, <2>3 DEF Alike
    <3>2. QED
      BY <1>1, <2>3, <3>1, TurnsAlike
  <2>5. Turns(file', head') = Turns(file, head)
    BY <2>3, TurnsSame
  <2>6. Promised' = published /\ Promised = published
    BY <1>8, <2>1 DEF Log!StartPrompt, Promised
  <2>7. HoldsOpen'
    <3>1. Promised \subseteq Turns(file, Log!Selected(file, Len(file)))
      BY <1>3, <1>5 DEF HoldsOpen
    <3>2. \A m \in Log!Lengths(Log!Journal)' : m > Len(file) =>
            Promised' \subseteq Turns(file', Log!Selected(file', m))
      <4>1. \A m \in Log!Lengths(Log!Journal)' : m > Len(file) => m = head'
        BY <1>1, <1>4, <2>1, <2>2
      <4>2. QED
        BY <2>3, <2>4, <2>6, <3>1, <4>1
    <3>3. synced <= synced' /\ Len(file) \in 0..Len(file) /\ Len(file) <= Len(file')
      BY <1>1, <2>1, <2>2
    <3>4. QED
      BY <1>3, <2>3, <2>6, <3>2, <3>3, HoldsGrown
  <2>8. MemoryHolds'
    <3>1. Work' = head' /\ Work = head
      BY <2>1 DEF Work
    <3>2. phase = "open" /\ UNCHANGED history
      BY <1>8, <2>5 DEF Log!StartPrompt, Log!chatVars
    <3>3. QED
      BY <1>3, <2>1, <2>4, <2>5, <2>6, <3>1, <3>2 DEF MemoryHolds
  <2>9. \A k \in 1..Len(shelf') : Holds(shelf'[k])
    BY <1>3, <2>1
  <2>10. QED
    BY <2>7, <2>8, <2>9 DEF PublishedInv
<1>9. CASE Log!AddHistory
  <2>1. /\ Log!AppendRecord("message") /\ UNCHANGED <<edits, Log!keptVars>>
        /\ phase' \in Log!Phases /\ phase' # "committing" /\ phase # "idle"
        /\ phase' = "running" /\ UNCHANGED <<turn, start>> /\ io' = io /\ io.op = "none"
        /\ committed' = committed /\ up
        /\ UNCHANGED <<synced, shelf, published>>
    BY <1>9 DEF Log!AddHistory, Log!turnVars, Log!Phases, Log!AppendRecord, Log!Free, Log!keptVars
  <2>2. /\ DiskOK' /\ Len(file') = Len(file) + 1 /\ (\A i \in 1..Len(file) : file'[i] = file[i])
        /\ file'[head'] = Log!Record("message", head, Log!Blank) /\ head' = Len(file) + 1
    BY <2>1, RecordTypes DEF Log!AppendRecord
  <2>3. /\ Alike(Len(file)) /\ Log!Selected(file', head') = Log!Selected(file, Len(file))
        /\ Log!HistoryOf(file', head') = IF "message" = "message" THEN Append(Log!HistoryOf(file, head), turn) ELSE Log!HistoryOf(file, head)
    BY <1>1, <2>2, RecordReads
  <2>4. /\ Turns(file', committed) = Turns(file, committed)
        /\ Turns(file', Log!Selected(file, Len(file))) = Turns(file, Log!Selected(file, Len(file)))
    <3>1. Log!Selected(file, Len(file)) \in 0..Len(file)
      BY <1>1, <2>3 DEF Alike
    <3>2. QED
      BY <1>1, <2>3, <3>1, TurnsAlike
  <2>5. Turns(file', head') = Turns(file, head) \cup {turn}
    <3>1. Log!HistoryOf(file, head) \in Seq(Nat) /\ turn \in Nat
      BY <1>1, HistoriesTyped
    <3>2. Log!HistoryOf(file', head') = Append(Log!HistoryOf(file, head), turn)
      BY <2>3
    <3>3. QED
      BY <3>1, <3>2, TurnsAppended
  <2>6. Promised' = published /\ Promised = published
    BY <1>9, <2>1 DEF Log!AddHistory, Promised
  <2>7. HoldsOpen'
    <3>1. Promised \subseteq Turns(file, Log!Selected(file, Len(file)))
      BY <1>3, <1>5 DEF HoldsOpen
    <3>2. \A m \in Log!Lengths(Log!Journal)' : m > Len(file) =>
            Promised' \subseteq Turns(file', Log!Selected(file', m))
      <4>1. \A m \in Log!Lengths(Log!Journal)' : m > Len(file) => m = head'
        BY <1>1, <1>4, <2>1, <2>2
      <4>2. QED
        BY <2>3, <2>4, <2>6, <3>1, <4>1
    <3>3. synced <= synced' /\ Len(file) \in 0..Len(file) /\ Len(file) <= Len(file')
      BY <1>1, <2>1, <2>2
    <3>4. QED
      BY <1>3, <2>3, <2>6, <3>2, <3>3, HoldsGrown
  <2>8. MemoryHolds'
    <3>1. Work' = head' /\ Work = head
      BY <2>1 DEF Work
    <3>2. turn \in Turns(file', head')
      BY <1>9, <2>5 DEF Log!AddHistory, Log!chatVars
    <3>3. QED
      BY <1>3, <2>1, <2>4, <2>5, <2>6, <3>1, <3>2 DEF MemoryHolds
  <2>9. \A k \in 1..Len(shelf') : Holds(shelf'[k])
    BY <1>3, <2>1
  <2>10. QED
    BY <2>7, <2>8, <2>9 DEF PublishedInv
<1>10. CASE Log!Delegate
  <2>1. UNCHANGED <<file, synced, shelf>> /\ Promised' \subseteq Promised
    BY <1>10 DEF Log!Delegate, Log!diskVars, Log!keptVars, Log!turnVars, Promised
  <2>2. HoldsOpen' /\ \A k \in 1..Len(shelf') : Holds(shelf'[k])
    BY <1>3, <2>1, HoldsSame
  <2>3. MemoryHolds'
    BY <1>10, <1>1, <1>2, <1>3, <2>1 DEF Log!Delegate, MemoryHolds, Work, JournalTypes, StoreOK,
                                        ChatOK, Log!storeVars, Log!chatVars, Log!turnVars,
                                        Log!keptVars, Log!Free
  <2>4. QED
    BY <2>2, <2>3 DEF PublishedInv
<1>11. CASE Log!RestoreChild
  <2>1. UNCHANGED <<file, synced, shelf>> /\ Promised' \subseteq Promised
    BY <1>11 DEF Log!RestoreChild, Log!diskVars, Log!keptVars, Log!turnVars, Promised
  <2>2. HoldsOpen' /\ \A k \in 1..Len(shelf') : Holds(shelf'[k])
    BY <1>3, <2>1, HoldsSame
  <2>3. MemoryHolds'
    BY <1>11, <1>1, <1>2, <1>3, <2>1 DEF Log!RestoreChild, MemoryHolds, Work, JournalTypes,
                                        StoreOK, ChatOK, Log!storeVars, Log!chatVars,
                                        Log!turnVars, Log!keptVars, Log!Free
  <2>4. QED
    BY <2>2, <2>3 DEF PublishedInv
<1>11a. CASE Log!RestoreFails
  <2>1. UNCHANGED <<file, synced, shelf>> /\ Promised' \subseteq Promised
    BY <1>11a DEF Log!RestoreFails, Log!diskVars, Log!keptVars, Log!turnVars, Promised
  <2>2. HoldsOpen' /\ \A k \in 1..Len(shelf') : Holds(shelf'[k])
    BY <1>3, <2>1, HoldsSame
  <2>3. MemoryHolds'
    BY <1>11a, <1>1, <1>2, <1>3, <2>1 DEF Log!RestoreFails, MemoryHolds, Work, JournalTypes,
                                        StoreOK, ChatOK, Log!storeVars, Log!chatVars,
                                        Log!turnVars, Log!keptVars, Log!Free
  <2>4. QED
    BY <2>2, <2>3 DEF PublishedInv
<1>12. CASE Log!CommitTurn
  <2>1. /\ Log!BeginAppend("commit", "none", KindOf("commit"), head, live) /\ UNCHANGED edits
        /\ io.op = "none" /\ up /\ up' = up
    BY <1>12 DEF Log!CommitTurn, KindOf, Log!BeginAppend, Log!Free
  <2>2. /\ head \in 0..Len(file) /\ live \in Values /\ published' \in SUBSET Nat
        /\ kept' \in Values
        /\ UNCHANGED <<published, turn>> /\ phase = "running" /\ phase' = "committing"
        /\ history # start
    BY <1>12 DEF JournalTypes, StoreOK, DiskOK, ChatOK, Log!keptVars, Log!CommitTurn
  <2>3. ("commit" = "checkpoint" => "none" \in Owners) /\ "commit" = "commit" <=>
          phase' = "committing"
    BY <2>2
  <2>4. /\ DiskOK' /\ Len(file') = Len(file) + 1
        /\ (\A i \in 1..Len(file) : file'[i] = file[i])
              /\ file'[head'] = Log!Record(KindOf("commit"), head, live)
        /\ head' = Len(file) + 1
    <3>1. head' = Len(file) + 1
      BY <2>1 DEF Log!BeginAppend
    <3>2. QED
      BY <1>12, <1>2, <2>1, <2>2, <2>3, <3>1, BeginTypes
  <2>5. /\ Alike(Len(file)) /\ Log!HistoryOf(file', head') = Log!HistoryOf(file, head)
        /\ file'[head'].parent = head
        /\ Log!Selected(file', head') = IF "commit" = "select" THEN head ELSE head'
    BY <1>1, <1>2, <2>2, <2>4, BeginReads
  <2>6. /\ Turns(file', head') = Turns(file, head) /\ Turns(file', head) = Turns(file, head)
        /\ Turns(file', head) = Turns(file, head)
        /\ Turns(file', committed) = Turns(file, committed)
    BY <1>1, <2>2, <2>5, TurnsSame, TurnsAlike
  <2>7. io'.op = "commit" /\ io'.previous = head /\ UNCHANGED <<synced, shelf, committed>>
    BY <2>1 DEF Log!BeginAppend
  <2>8. Work = head
    BY <2>1 DEF Work
  <2>9. Promised' \subseteq Promised /\ Promised' \subseteq Turns(file, head)
    BY <1>3, <2>1, <2>2, <2>8 DEF Promised, MemoryHolds
  <2>10. HoldsOpen'
    <3>1. \A m \in Log!Lengths(Log!Journal)' : m > Len(file) =>
            Promised' \subseteq Turns(file', Log!Selected(file', m))
      <4>1. \A m \in Log!Lengths(Log!Journal)' : m > Len(file) => m = head'
        BY <1>1, <1>4, <2>4, <2>7
      <4>2. QED
        BY <2>5, <2>6, <2>9, <4>1
    <3>2. synced <= synced' /\ Len(file) \in 0..Len(file) /\ Len(file) <= Len(file')
      BY <1>1, <2>4, <2>7
    <3>3. QED
      BY <1>3, <2>5, <2>9, <3>1, <3>2, HoldsGrown
  <2>11. MemoryHolds'
    <3>1. Work' = head' /\ turn' \in Turns(file', head')
      BY <1>3, <2>2, <2>6, <2>7, <2>8 DEF Work, MemoryHolds
    <3>2. published' \subseteq Promised' /\ published' = published /\ published \subseteq Promised
      BY <2>2 DEF Promised
    <3>3. QED
      BY <1>3, <2>1, <2>2, <2>6, <2>7, <2>8, <2>9, <3>1, <3>2 DEF MemoryHolds
  <2>12. \A k \in 1..Len(shelf') : Holds(shelf'[k])
    BY <1>3, <2>7
  <2>13. QED
    BY <2>10, <2>11, <2>12 DEF PublishedInv
<1>13. CASE Log!CommitChild
  <2>1. /\ DiskOK' /\ Len(file') = Len(file) + 2
        /\ Alike(Len(file))
        /\ Log!Selected(file', Len(file) + 1) = Log!Selected(file, Len(file))
        /\ Log!Selected(file', Len(file) + 2) = Len(file) + 2
        /\ Log!HistoryOf(file', Len(file) + 1) = Append(Log!HistoryOf(file, head), turn)
        /\ Log!HistoryOf(file', Len(file) + 2) = Append(Log!HistoryOf(file, head), turn)
    BY <1>13, ChildTypes, ChildReads
  <2>2. /\ UNCHANGED <<synced, shelf, up, committed, published, turn>> /\ up
        /\ phase = "restored" /\ phase' = "committing"
        /\ head' = Len(file) + 2 /\ io'.op = "commit" /\ io'.previous = Len(file) + 1
        /\ io.op = "none"
    BY <1>13 DEF Log!CommitChild, Log!keptVars, Log!Free
  <2>3. Promised' = published /\ Promised = published /\ Work = head /\ Work' = head'
    BY <2>2 DEF Promised, Work
  <2>4. /\ Turns(file', Len(file) + 1) = Turns(file, head) \cup {turn}
        /\ Turns(file', Len(file) + 2) = Turns(file, head) \cup {turn}
    <3>1. Log!HistoryOf(file, head) \in Seq(Nat) /\ turn \in Nat
      BY <1>1, HistoriesTyped
    <3>2. Log!HistoryOf(file', Len(file) + 1) = Append(Log!HistoryOf(file, head), turn)
      BY <2>1
    <3>3. Log!HistoryOf(file', Len(file) + 2) = Append(Log!HistoryOf(file, head), turn)
      BY <2>1
    <3>4. Turns(file', Len(file) + 1) = Turns(file, head) \cup {turn}
      BY <3>1, <3>2, TurnsAppended
    <3>5. Turns(file', Len(file) + 2) = Turns(file, head) \cup {turn}
      BY <3>1, <3>3, TurnsAppended
    <3>6. QED
      BY <3>4, <3>5
  <2>5. /\ Turns(file', committed) = Turns(file, committed)
        /\ Turns(file', Log!Selected(file, Len(file))) = Turns(file, Log!Selected(file, Len(file)))
    <3>1. Log!Selected(file, Len(file)) \in 0..Len(file)
      BY <1>1, <2>1 DEF Alike
    <3>2. QED
      BY <1>1, <2>1, <3>1, TurnsAlike
  <2>6. HoldsOpen'
    <3>1. Promised \subseteq Turns(file, Log!Selected(file, Len(file)))
          /\ Promised \subseteq Turns(file, head)
      BY <1>3, <1>5, <2>2, <2>3 DEF HoldsOpen, MemoryHolds
    <3>2. \A m \in Log!Lengths(Log!Journal)' : m > Len(file) =>
            Promised' \subseteq Turns(file', Log!Selected(file', m))
      <4>1. \A m \in Log!Lengths(Log!Journal)' : m > Len(file) =>
              m = Len(file) + 1 \/ m = Len(file) + 2
        BY <1>1, <1>4, <2>1, <2>2
      <4>2. QED
        BY <2>1, <2>3, <2>4, <2>5, <3>1, <4>1
    <3>3. synced <= synced' /\ Len(file) \in 0..Len(file) /\ Len(file) <= Len(file')
      BY <1>1, <2>1, <2>2
    <3>4. QED
      BY <1>3, <2>1, <2>3, <3>2, <3>3, HoldsGrown
  <2>7. MemoryHolds'
    BY <1>3, <2>2, <2>3, <2>4, <2>5 DEF MemoryHolds
  <2>8. \A k \in 1..Len(shelf') : Holds(shelf'[k])
    BY <1>3, <2>2
  <2>9. QED
    BY <2>6, <2>7, <2>8 DEF PublishedInv
<1>14. CASE Log!CommitSynced
  <2>1. Log!Synced("commit") /\ UNCHANGED <<file, shelf, up>> /\ io'.op = "none"
        /\ synced' = Len(file)
    BY <1>14 DEF Log!CommitSynced, Log!Synced, Log!NoIo
  <2>2. io.op = "commit" /\ Appending /\ up
    BY <1>2, <2>1 DEF Log!Synced, JournalTypes, StoreOK
  <2>3. head = Len(file) /\ head \in 1..Len(file) /\ file[head].kind = KindOf("commit")
    BY <1>1, <2>2 DEF Appending, JournalTypes, StoreOK, DiskOK
  <2>4. Promised \subseteq Turns(file, Log!Selected(file, head))
    BY <1>3, <1>5, <2>3 DEF HoldsOpen
  <2>5. Log!Selected(file, head) = IF "commit" = "select" THEN file[head].parent ELSE head
    <3>1. KindOf("commit") \in Log!Selections
          /\ (KindOf("commit") = "select" <=> "commit" = "select")
      BY DEF KindOf, Log!Selections
    <3>2. head - 1 \in Nat /\ (head - 1) + 1 = head
      BY <1>1, <2>3
    <3>3. QED
      BY <2>3, <3>1, <3>2, SelectedNext
  <2>6. Promised' \subseteq Turns(file, Log!Selected(file, head))
        /\ Promised' \subseteq Turns(file, head)
    <3>1. phase = "committing" /\ phase' = "committed" /\ UNCHANGED <<published, turn>>
      BY <1>14, <2>2 DEF Log!CommitSynced, Log!keptVars, JournalTypes, StoreOK
    <3>2. turn \in Turns(file, head) /\ published \subseteq Turns(file, head)
      BY <1>3, <1>6, <2>2, <3>1 DEF MemoryHolds, Work
    <3>3. QED
      BY <2>5, <3>1, <3>2 DEF Promised
  <2>7. MemoryHolds'
    <3>1. phase' = "committed" /\ committed' = head /\ head' = head
      BY <1>14 DEF Log!CommitSynced
    <3>2. QED
      BY <2>1, <2>6, <3>1 DEF MemoryHolds, Work
  <2>8. HoldsOpen'
    <3>1. \A m \in Log!Lengths(Log!Journal)' : m = head
      BY <1>1, <1>4, <2>1, <2>3
    <3>2. QED
      BY <2>1, <2>6, <3>1 DEF HoldsOpen
  <2>9. \A k \in 1..Len(shelf') : Holds(shelf'[k])
    BY <1>3, <2>1
  <2>10. QED
    BY <2>7, <2>8, <2>9 DEF PublishedInv
<1>15. CASE Log!CommitFailed
  <2>1. Log!AppendFailed("commit") /\ UNCHANGED <<edits, Log!keptVars>>
        /\ phase' = IF "commit" = "commit" THEN "finishing" ELSE phase
    BY <1>15 DEF Log!CommitFailed, Log!turnVars
  <2>2. /\ io.op = "commit" /\ Len(file') \in io.offset..Len(file) /\ Alike(Len(file'))
        /\ synced' = synced
        /\ io.offset \in Nat /\ head' = io.previous /\ committed' = committed /\ Appending
    BY <1>2, <2>1, FailedReads
  <2>3. UNCHANGED <<shelf, up>> /\ io'.op = "none" /\ up /\ turn' = turn /\ published' = published
    BY <1>15, <2>1 DEF Log!CommitFailed, Log!AppendFailed, Log!NoIo, Log!keptVars, Log!turnVars
  <2>4. Promised' \subseteq Promised
    BY <2>1, <2>3 DEF Promised
  <2>5. HoldsOpen'
    <3>1. \A m \in Log!Lengths(Log!Journal)' : ~ (m > Len(file'))
      BY <1>1, <1>4, <2>2
    <3>2. synced <= synced' /\ Len(file') \in 0..Len(file) /\ Len(file') <= Len(file')
      BY <1>1, <2>2
    <3>3. QED
      BY <1>3, <2>2, <2>4, <3>1, <3>2, HoldsGrown
  <2>6. Turns(file', committed) = Turns(file, committed)
        /\ Turns(file', io.previous) = Turns(file, io.previous)
    <3>1. Len(file') \in Nat /\ committed \in 0..Len(file') /\ io.previous \in 0..Len(file')
      BY <1>1, <2>2 DEF Appending, JournalTypes, StoreOK
    <3>2. QED
      BY <2>2, <3>1, TurnsAlike
  <2>7. MemoryHolds'
    <3>1. Work' = io.previous /\ ("commit" # "commit" => Work = io.previous)
      BY <2>2, <2>3 DEF Work
    <3>2. "commit" = "commit" => Promised' = published
      BY <2>1, <2>3 DEF Promised
    <3>3. phase' = "committing" => FALSE
      BY <2>1, <2>2 DEF JournalTypes, StoreOK
    <3>4. "commit" # "select" => UNCHANGED history
      BY <1>15 DEF Log!CommitFailed, Log!chatVars
    <3>5. "commit" = "select" => phase' = "idle"
      BY <2>1, <2>2 DEF JournalTypes, StoreOK
    <3>6. UNCHANGED start
      BY <1>15 DEF Log!CommitFailed, Log!turnVars
    <3>7. QED
      BY <1>3, <2>1, <2>2, <2>3, <2>4, <2>6, <3>1, <3>2, <3>3, <3>4, <3>5, <3>6 DEF MemoryHolds
  <2>8. \A k \in 1..Len(shelf') : Holds(shelf'[k])
    BY <1>3, <2>3
  <2>9. QED
    BY <2>5, <2>7, <2>8 DEF PublishedInv
<1>16. CASE Log!PublishDone
  <2>1. UNCHANGED <<file, synced, shelf>> /\ Promised' \subseteq Promised
    BY <1>16 DEF Log!PublishDone, Log!diskVars, Log!keptVars, Log!turnVars, Promised
  <2>2. HoldsOpen' /\ \A k \in 1..Len(shelf') : Holds(shelf'[k])
    BY <1>3, <2>1, HoldsSame
  <2>3. MemoryHolds'
    BY <1>16, <1>1, <1>2, <1>3, <2>1 DEF Log!PublishDone, MemoryHolds, Work, JournalTypes,
                                         StoreOK, ChatOK, Log!storeVars, Log!chatVars,
                                         Log!turnVars, Log!keptVars, Log!Free
  <2>4. QED
    BY <2>2, <2>3 DEF PublishedInv
<1>17. CASE Log!FailTurn
  <2>1. UNCHANGED <<file, synced, shelf>> /\ Promised' \subseteq Promised
    BY <1>17 DEF Log!FailTurn, Log!diskVars, Log!keptVars, Log!turnVars, Promised
  <2>2. HoldsOpen' /\ \A k \in 1..Len(shelf') : Holds(shelf'[k])
    BY <1>3, <2>1, HoldsSame
  <2>3. MemoryHolds'
    BY <1>17, <1>1, <1>2, <1>3, <2>1 DEF Log!FailTurn, MemoryHolds, Work, JournalTypes, StoreOK,
                                         ChatOK, Log!storeVars, Log!chatVars, Log!turnVars,
                                         Log!keptVars, Log!Free
  <2>4. QED
    BY <2>2, <2>3 DEF PublishedInv
<1>18. CASE Log!AppendFails
  <2>1. UNCHANGED <<file, synced, shelf>> /\ Promised' \subseteq Promised
    BY <1>18 DEF Log!AppendFails, Log!diskVars, Log!keptVars, Log!turnVars, Promised
  <2>2. HoldsOpen' /\ \A k \in 1..Len(shelf') : Holds(shelf'[k])
    BY <1>3, <2>1, HoldsSame
  <2>3. MemoryHolds'
    BY <1>18, <1>1, <1>2, <1>3, <2>1 DEF Log!AppendFails, MemoryHolds, Work, JournalTypes,
                                         StoreOK, ChatOK, Log!storeVars, Log!chatVars,
                                         Log!turnVars, Log!keptVars, Log!Free
  <2>4. QED
    BY <2>2, <2>3 DEF PublishedInv
<1>19. CASE Log!FinishTurn
  <2>1. UNCHANGED <<file, synced, shelf>> /\ Promised' \subseteq Promised
    BY <1>19 DEF Log!FinishTurn, Log!diskVars, Log!keptVars, Log!turnVars, Promised, Log!TurnOver
  <2>2. HoldsOpen' /\ \A k \in 1..Len(shelf') : Holds(shelf'[k])
    BY <1>3, <2>1, HoldsSame
  <2>3. MemoryHolds'
    BY <1>19, <1>1, <1>2, <1>3, <2>1 DEF Log!FinishTurn, MemoryHolds, Work, JournalTypes, StoreOK,
                                         ChatOK, Log!storeVars, Log!chatVars, Log!turnVars,
                                         Log!keptVars, Log!Free, Log!TurnOver
  <2>4. QED
    BY <2>2, <2>3 DEF PublishedInv
<1>20. ASSUME NEW o \in Owners, Log!PluginEdit(o) PROVE PublishedInv'
  <2>1. UNCHANGED <<file, synced, shelf>> /\ Promised' \subseteq Promised
    BY <1>20 DEF Log!PluginEdit, Log!diskVars, Log!keptVars, Log!turnVars, Promised
  <2>2. HoldsOpen' /\ \A k \in 1..Len(shelf') : Holds(shelf'[k])
    BY <1>3, <2>1, HoldsSame
  <2>3. MemoryHolds'
    BY <1>20, <1>1, <1>2, <1>3, <2>1 DEF Log!PluginEdit, MemoryHolds, Work, JournalTypes, StoreOK,
                                         ChatOK, Log!storeVars, Log!chatVars, Log!turnVars,
                                         Log!keptVars, Log!Free
  <2>4. QED
    BY <2>2, <2>3 DEF PublishedInv
<1>21. ASSUME NEW o \in Owners, Log!ChildEdit(o) PROVE PublishedInv'
  <2>1. UNCHANGED <<file, synced, shelf>> /\ Promised' \subseteq Promised
    BY <1>21 DEF Log!ChildEdit, Log!diskVars, Log!keptVars, Log!turnVars, Promised
  <2>2. HoldsOpen' /\ \A k \in 1..Len(shelf') : Holds(shelf'[k])
    BY <1>3, <2>1, HoldsSame
  <2>3. MemoryHolds'
    BY <1>21, <1>1, <1>2, <1>3, <2>1 DEF Log!ChildEdit, MemoryHolds, Work, JournalTypes, StoreOK,
                                         ChatOK, Log!storeVars, Log!chatVars, Log!turnVars,
                                         Log!keptVars, Log!Free
  <2>4. QED
    BY <2>2, <2>3 DEF PublishedInv
<1>22. ASSUME NEW o \in Owners, Log!CommandEdit(o) PROVE PublishedInv'
  <2>1. UNCHANGED <<file, synced, shelf>> /\ Promised' \subseteq Promised
    BY <1>22 DEF Log!CommandEdit, Log!diskVars, Log!keptVars, Log!turnVars, Promised
  <2>2. HoldsOpen' /\ \A k \in 1..Len(shelf') : Holds(shelf'[k])
    BY <1>3, <2>1, HoldsSame
  <2>3. MemoryHolds'
    BY <1>22, <1>1, <1>2, <1>3, <2>1 DEF Log!CommandEdit, MemoryHolds, Work, JournalTypes,
                                         StoreOK, ChatOK, Log!storeVars, Log!chatVars,
                                         Log!turnVars, Log!keptVars, Log!Free
  <2>4. QED
    BY <2>2, <2>3 DEF PublishedInv
<1>23. ASSUME NEW o \in Owners, Log!Checkpoint(o) PROVE PublishedInv'
  <2>1. /\ Log!BeginAppend("checkpoint", o, KindOf("checkpoint"), committed, Log!Checkpointed(o))
        /\ UNCHANGED edits
        /\ io.op = "none" /\ up /\ up' = up
    BY <1>23 DEF Log!Checkpoint, KindOf, Log!BeginAppend, Log!Free
  <2>2. /\ committed \in 0..Len(file) /\ Log!Checkpointed(o) \in Values
        /\ published' \in SUBSET Nat /\ kept' \in Values
        /\ UNCHANGED <<published, turn, phase, history, start>>
    <3>1. Log!Checkpointed(o) \in Values
      BY <1>23 DEF Log!Checkpointed, Values, JournalTypes, ChatOK
    <3>2. kept' \in Values
      BY <1>23 DEF JournalTypes, DiskOK, Values, Log!Checkpoint, Log!BeginAppend
    <3>3. QED
      BY <1>23, <1>1, <3>1, <3>2 DEF JournalTypes, DiskOK, Log!keptVars, Log!Checkpoint, Log!chatVars,
                               Log!turnVars
  <2>3. phase' # "committing" /\ "checkpoint" # "commit" /\ "checkpoint" # "select"
    BY <2>1, <2>2 DEF JournalTypes, StoreOK
  <2>4. /\ DiskOK' /\ Len(file') = Len(file) + 1
        /\ (\A i \in 1..Len(file) : file'[i] = file[i])
              /\ file'[head'] = Log!Record(KindOf("checkpoint"), committed, Log!Checkpointed(o))
        /\ head' = Len(file) + 1
    <3>1. head' = Len(file) + 1
      BY <2>1 DEF Log!BeginAppend
    <3>2. QED
      BY <1>23, <1>2, <2>1, <2>2, <2>3, <3>1, BeginTypes
  <2>5. /\ Alike(Len(file)) /\ Log!HistoryOf(file', head') = Log!HistoryOf(file, committed)
        /\ file'[head'].parent = committed
        /\ Log!Selected(file', head') = IF "checkpoint" = "select" THEN committed ELSE head'
    BY <1>1, <1>2, <2>2, <2>4, BeginReads
  <2>6. /\ Turns(file', head') = Turns(file, committed)
        /\ Turns(file', committed) = Turns(file, committed)
        /\ Turns(file', head) = Turns(file, head)
        /\ Turns(file', committed) = Turns(file, committed)
    BY <1>1, <2>2, <2>5, TurnsSame, TurnsAlike
  <2>7. io'.op = "checkpoint" /\ io'.previous = head /\ UNCHANGED <<synced, shelf, committed>>
    BY <2>1 DEF Log!BeginAppend
  <2>8. Work = head
    BY <2>1 DEF Work
  <2>9. Promised' \subseteq Promised /\ Promised' \subseteq Turns(file, committed)
    BY <1>3, <2>1, <2>2 DEF Promised, MemoryHolds
  <2>10. HoldsOpen'
    <3>1. \A m \in Log!Lengths(Log!Journal)' : m > Len(file) =>
            Promised' \subseteq Turns(file', Log!Selected(file', m))
      <4>1. \A m \in Log!Lengths(Log!Journal)' : m > Len(file) => m = head'
        BY <1>1, <1>4, <2>4, <2>7
      <4>2. QED
        BY <2>5, <2>6, <2>9, <4>1
    <3>2. synced <= synced' /\ Len(file) \in 0..Len(file) /\ Len(file) <= Len(file')
      BY <1>1, <2>4, <2>7
    <3>3. QED
      BY <1>3, <2>5, <2>9, <3>1, <3>2, HoldsGrown
  <2>11. MemoryHolds'
    <3>1. Work' = head
      BY <2>7 DEF Work
    <3>2. QED
      BY <1>3, <2>1, <2>2, <2>3, <2>5, <2>6, <2>7, <2>8, <2>9, <3>1 DEF MemoryHolds
  <2>12. \A k \in 1..Len(shelf') : Holds(shelf'[k])
    BY <1>3, <2>7
  <2>13. QED
    BY <2>10, <2>11, <2>12 DEF PublishedInv
<1>24. ASSUME NEW o \in Owners, Log!CheckpointRefused(o) PROVE PublishedInv'
  <2>1. UNCHANGED <<file, synced, shelf>> /\ Promised' \subseteq Promised
    BY <1>24 DEF Log!CheckpointRefused, Log!diskVars, Log!keptVars, Log!turnVars, Promised
  <2>2. HoldsOpen' /\ \A k \in 1..Len(shelf') : Holds(shelf'[k])
    BY <1>3, <2>1, HoldsSame
  <2>3. MemoryHolds'
    BY <1>24, <1>1, <1>2, <1>3, <2>1 DEF Log!CheckpointRefused, MemoryHolds, Work, JournalTypes,
                                         StoreOK, ChatOK, Log!storeVars, Log!chatVars,
                                         Log!turnVars, Log!keptVars, Log!Free
  <2>4. QED
    BY <2>2, <2>3 DEF PublishedInv
<1>25. CASE Log!CheckpointSynced
  <2>1. Log!Synced("checkpoint") /\ UNCHANGED <<file, shelf, up>> /\ io'.op = "none"
        /\ synced' = Len(file)
    BY <1>25 DEF Log!CheckpointSynced, Log!Synced, Log!NoIo
  <2>2. io.op = "checkpoint" /\ Appending /\ up
    BY <1>2, <2>1 DEF Log!Synced, JournalTypes, StoreOK
  <2>3. head = Len(file) /\ head \in 1..Len(file) /\ file[head].kind = KindOf("checkpoint")
    BY <1>1, <2>2 DEF Appending, JournalTypes, StoreOK, DiskOK
  <2>4. Promised \subseteq Turns(file, Log!Selected(file, head))
    BY <1>3, <1>5, <2>3 DEF HoldsOpen
  <2>5. Log!Selected(file, head) = IF "checkpoint" = "select" THEN file[head].parent ELSE head
    <3>1. KindOf("checkpoint") \in Log!Selections
          /\ (KindOf("checkpoint") = "select" <=> "checkpoint" = "select")
      BY DEF KindOf, Log!Selections
    <3>2. head - 1 \in Nat /\ (head - 1) + 1 = head
      BY <1>1, <2>3
    <3>3. QED
      BY <2>3, <3>1, <3>2, SelectedNext
  <2>6. Promised' \subseteq Turns(file, Log!Selected(file, head))
        /\ Promised' \subseteq Turns(file, head)
        /\ Promised' = Promised
    <3>1. UNCHANGED <<published, turn, phase>>
      BY <1>25 DEF Log!CheckpointSynced, Log!turnVars
    <3>2. QED
      BY <2>4, <2>5, <3>1 DEF Promised
  <2>7. MemoryHolds'
    <3>1. /\ committed' = head /\ head' = IF io.previous # committed THEN io.previous ELSE head
          /\ UNCHANGED <<published, turn, phase, history, start>> /\ phase # "committing"
      BY <1>25, <2>2 DEF Log!CheckpointSynced, Log!turnVars, JournalTypes, StoreOK
    <3>2. Work = io.previous /\ Work' = head'
      BY <2>1, <2>2 DEF Work
    <3>3. Turns(file, head) = Turns(file, committed)
      <4>1. file[head].parent = committed /\ file[head].kind = "state" /\ "state" # "message"
        BY <1>3, <2>2, <2>3 DEF MemoryHolds, KindOf
      <4>2. Log!HistoryOf(file, head) = Log!HistoryOf(file, committed)
        BY <1>1, <2>3, <4>1, HistoryChain DEF JournalTypes, DiskOK
      <4>3. QED
        BY <4>2, TurnsSame
    <3>4. Turns(file, head') = Turns(file, Work)
      BY <3>1, <3>2, <3>3
    <3>5. QED
      BY <1>3, <2>1, <2>2, <2>6, <3>1, <3>2, <3>4 DEF MemoryHolds
  <2>8. HoldsOpen'
    <3>1. \A m \in Log!Lengths(Log!Journal)' : m = head
      BY <1>1, <1>4, <2>1, <2>3
    <3>2. QED
      BY <2>1, <2>6, <3>1 DEF HoldsOpen
  <2>9. \A k \in 1..Len(shelf') : Holds(shelf'[k])
    BY <1>3, <2>1
  <2>10. QED
    BY <2>7, <2>8, <2>9 DEF PublishedInv
<1>26. CASE Log!CheckpointFailed
  <2>1. Log!AppendFailed("checkpoint") /\ UNCHANGED <<edits, Log!keptVars>>
        /\ phase' = IF "checkpoint" = "commit" THEN "finishing" ELSE phase
    BY <1>26 DEF Log!CheckpointFailed, Log!turnVars
  <2>2. /\ io.op = "checkpoint" /\ Len(file') \in io.offset..Len(file) /\ Alike(Len(file'))
        /\ synced' = synced
        /\ io.offset \in Nat /\ head' = io.previous /\ committed' = committed /\ Appending
    BY <1>2, <2>1, FailedReads
  <2>3. UNCHANGED <<shelf, up>> /\ io'.op = "none" /\ up /\ turn' = turn /\ published' = published
    BY <1>26, <2>1 DEF Log!CheckpointFailed, Log!AppendFailed, Log!NoIo, Log!keptVars,
                       Log!turnVars
  <2>4. Promised' \subseteq Promised
    BY <2>1, <2>3 DEF Promised
  <2>5. HoldsOpen'
    <3>1. \A m \in Log!Lengths(Log!Journal)' : ~ (m > Len(file'))
      BY <1>1, <1>4, <2>2
    <3>2. synced <= synced' /\ Len(file') \in 0..Len(file) /\ Len(file') <= Len(file')
      BY <1>1, <2>2
    <3>3. QED
      BY <1>3, <2>2, <2>4, <3>1, <3>2, HoldsGrown
  <2>6. Turns(file', committed) = Turns(file, committed)
        /\ Turns(file', io.previous) = Turns(file, io.previous)
    <3>1. Len(file') \in Nat /\ committed \in 0..Len(file') /\ io.previous \in 0..Len(file')
      BY <1>1, <2>2 DEF Appending, JournalTypes, StoreOK
    <3>2. QED
      BY <2>2, <3>1, TurnsAlike
  <2>7. MemoryHolds'
    <3>1. Work' = io.previous /\ ("checkpoint" # "commit" => Work = io.previous)
      BY <2>2, <2>3 DEF Work
    <3>2. "checkpoint" = "commit" => Promised' = published
      BY <2>1, <2>3 DEF Promised
    <3>3. phase' = "committing" => FALSE
      BY <2>1, <2>2 DEF JournalTypes, StoreOK
    <3>4. "checkpoint" # "select" => UNCHANGED history
      BY <1>26 DEF Log!CheckpointFailed, Log!chatVars
    <3>5. "checkpoint" = "select" => phase' = "idle"
      BY <2>1, <2>2 DEF JournalTypes, StoreOK
    <3>6. UNCHANGED start
      BY <1>26 DEF Log!CheckpointFailed, Log!turnVars
    <3>7. QED
      BY <1>3, <2>1, <2>2, <2>3, <2>4, <2>6, <3>1, <3>2, <3>3, <3>4, <3>5, <3>6 DEF MemoryHolds
  <2>8. \A k \in 1..Len(shelf') : Holds(shelf'[k])
    BY <1>3, <2>3
  <2>9. QED
    BY <2>5, <2>7, <2>8 DEF PublishedInv
<1>27. ASSUME NEW e \in 1..MaxRecords, Log!Fork(e) PROVE PublishedInv'
  <2>1. /\ Log!BeginAppend("select", "none", KindOf("select"), e, file[e].state)
        /\ UNCHANGED edits
        /\ io.op = "none" /\ up /\ up' = up
    BY <1>27 DEF Log!Fork, KindOf, Log!BeginAppend, Log!Free
  <2>2. /\ e \in 0..Len(file) /\ file[e].state \in Values /\ published' \in SUBSET Nat
        /\ kept' \in Values
        /\ UNCHANGED <<turn, phase>> /\ phase = "idle"
        /\ history' = Log!HistoryOf(file, e)
        /\ published' = {t \in published : \E i \in DOMAIN history' : history'[i] = t}
    <3>1. e \in 1..Len(file) /\ file[e] \in Entries
      BY <1>27 DEF Log!Fork, JournalTypes, DiskOK
    <3>2. file[e].state \in Values /\ Values' = Values
      BY <2>1, <3>1 DEF Entries, Values
    <3>3. QED
      BY <1>27, <1>1, <3>1, <3>2 DEF JournalTypes, DiskOK, Log!Fork, Log!turnVars,
                                     Log!BeginAppend, Log!Free
  <2>3. phase' # "committing" /\ phase' = "idle" /\ "select" # "commit" /\ "select" # "checkpoint"
    BY <2>2
  <2>4. /\ DiskOK' /\ Len(file') = Len(file) + 1
        /\ (\A i \in 1..Len(file) : file'[i] = file[i])
              /\ file'[head'] = Log!Record(KindOf("select"), e, file[e].state)
        /\ head' = Len(file) + 1
    <3>1. head' = Len(file) + 1
      BY <2>1 DEF Log!BeginAppend
    <3>2. QED
      BY <1>27, <1>2, <2>1, <2>2, <2>3, <3>1, BeginTypes
  <2>5. /\ Alike(Len(file)) /\ Log!HistoryOf(file', head') = Log!HistoryOf(file, e)
        /\ file'[head'].parent = e
        /\ Log!Selected(file', head') = IF "select" = "select" THEN e ELSE head'
    BY <1>1, <1>2, <2>2, <2>4, BeginReads
  <2>6. /\ Turns(file', head') = Turns(file, e) /\ Turns(file', e) = Turns(file, e)
        /\ Turns(file', head) = Turns(file, head)
        /\ Turns(file', committed) = Turns(file, committed)
    BY <1>1, <2>2, <2>5, TurnsSame, TurnsAlike
  <2>7. io'.op = "select" /\ io'.previous = head /\ UNCHANGED <<synced, shelf, committed>>
    BY <2>1 DEF Log!BeginAppend
  <2>8. Work = head
    BY <2>1 DEF Work
  <2>9. Promised' \subseteq Promised /\ Promised' \subseteq Turns(file, e)
    BY <2>2 DEF Promised, Turns
  <2>10. HoldsOpen'
    <3>1. \A m \in Log!Lengths(Log!Journal)' : m > Len(file) =>
            Promised' \subseteq Turns(file', Log!Selected(file', m))
      <4>1. \A m \in Log!Lengths(Log!Journal)' : m > Len(file) => m = head'
        BY <1>1, <1>4, <2>4, <2>7
      <4>2. QED
        BY <2>5, <2>6, <2>9, <4>1
    <3>2. synced <= synced' /\ Len(file) \in 0..Len(file) /\ Len(file) <= Len(file')
      BY <1>1, <2>4, <2>7
    <3>3. QED
      BY <1>3, <2>5, <2>9, <3>1, <3>2, HoldsGrown
  <2>11. MemoryHolds'
    <3>1. Work' = head
      BY <2>7 DEF Work
    <3>2. QED
      BY <1>3, <2>1, <2>2, <2>3, <2>6, <2>7, <2>8, <2>9, <3>1 DEF MemoryHolds
  <2>12. \A k \in 1..Len(shelf') : Holds(shelf'[k])
    BY <1>3, <2>7
  <2>13. QED
    BY <2>10, <2>11, <2>12 DEF PublishedInv
<1>28. CASE Log!ForkSynced
  <2>1. Log!Synced("select") /\ UNCHANGED <<file, shelf, up>> /\ io'.op = "none"
        /\ synced' = Len(file)
    BY <1>28 DEF Log!ForkSynced, Log!Synced, Log!NoIo
  <2>2. io.op = "select" /\ Appending /\ up
    BY <1>2, <2>1 DEF Log!Synced, JournalTypes, StoreOK
  <2>3. head = Len(file) /\ head \in 1..Len(file) /\ file[head].kind = KindOf("select")
    BY <1>1, <2>2 DEF Appending, JournalTypes, StoreOK, DiskOK
  <2>4. Promised \subseteq Turns(file, Log!Selected(file, head))
    BY <1>3, <1>5, <2>3 DEF HoldsOpen
  <2>5. Log!Selected(file, head) = IF "select" = "select" THEN file[head].parent ELSE head
    <3>1. KindOf("select") \in Log!Selections
          /\ (KindOf("select") = "select" <=> "select" = "select")
      BY DEF KindOf, Log!Selections
    <3>2. head - 1 \in Nat /\ (head - 1) + 1 = head
      BY <1>1, <2>3
    <3>3. QED
      BY <2>3, <3>1, <3>2, SelectedNext
  <2>6. Promised' \subseteq Turns(file, Log!Selected(file, head)) /\ Promised' = Promised
    <3>1. UNCHANGED <<published, turn, phase>>
      BY <1>28 DEF Log!ForkSynced, Log!turnVars, Log!keptVars
    <3>2. QED
      BY <2>4, <3>1 DEF Promised
  <2>7. MemoryHolds'
    <3>1. /\ head' = file[head].parent /\ committed' = file[head].parent /\ UNCHANGED phase
          /\ phase = "idle"
      BY <1>28, <2>2 DEF Log!ForkSynced, Log!turnVars, JournalTypes, StoreOK
    <3>2. QED
      BY <2>1, <2>5, <2>6, <3>1 DEF MemoryHolds, Work
  <2>8. HoldsOpen'
    <3>1. \A m \in Log!Lengths(Log!Journal)' : m = head
      BY <1>1, <1>4, <2>1, <2>3
    <3>2. QED
      BY <2>1, <2>6, <3>1 DEF HoldsOpen
  <2>9. \A k \in 1..Len(shelf') : Holds(shelf'[k])
    BY <1>3, <2>1
  <2>10. QED
    BY <2>7, <2>8, <2>9 DEF PublishedInv
<1>29. CASE Log!ForkFailed
  <2>1. Log!AppendFailed("select") /\ UNCHANGED <<edits, Log!keptVars>>
        /\ phase' = IF "select" = "commit" THEN "finishing" ELSE phase
    BY <1>29 DEF Log!ForkFailed, Log!turnVars
  <2>2. /\ io.op = "select" /\ Len(file') \in io.offset..Len(file) /\ Alike(Len(file'))
        /\ synced' = synced
        /\ io.offset \in Nat /\ head' = io.previous /\ committed' = committed /\ Appending
    BY <1>2, <2>1, FailedReads
  <2>3. UNCHANGED <<shelf, up>> /\ io'.op = "none" /\ up /\ turn' = turn /\ published' = published
    BY <1>29, <2>1 DEF Log!ForkFailed, Log!AppendFailed, Log!NoIo, Log!keptVars, Log!turnVars
  <2>4. Promised' \subseteq Promised
    BY <2>1, <2>3 DEF Promised
  <2>5. HoldsOpen'
    <3>1. \A m \in Log!Lengths(Log!Journal)' : ~ (m > Len(file'))
      BY <1>1, <1>4, <2>2
    <3>2. synced <= synced' /\ Len(file') \in 0..Len(file) /\ Len(file') <= Len(file')
      BY <1>1, <2>2
    <3>3. QED
      BY <1>3, <2>2, <2>4, <3>1, <3>2, HoldsGrown
  <2>6. Turns(file', committed) = Turns(file, committed)
        /\ Turns(file', io.previous) = Turns(file, io.previous)
    <3>1. Len(file') \in Nat /\ committed \in 0..Len(file') /\ io.previous \in 0..Len(file')
      BY <1>1, <2>2 DEF Appending, JournalTypes, StoreOK
    <3>2. QED
      BY <2>2, <3>1, TurnsAlike
  <2>7. MemoryHolds'
    <3>1. Work' = io.previous /\ ("select" # "commit" => Work = io.previous)
      BY <2>2, <2>3 DEF Work
    <3>2. "select" = "commit" => Promised' = published
      BY <2>1, <2>3 DEF Promised
    <3>3. phase' = "committing" => FALSE
      BY <2>1, <2>2 DEF JournalTypes, StoreOK
    <3>4. "select" # "select" => UNCHANGED history
      BY <1>29 DEF Log!ForkFailed, Log!chatVars
    <3>5. "select" = "select" => phase' = "idle"
      BY <2>1, <2>2 DEF JournalTypes, StoreOK
    <3>6. UNCHANGED start
      BY <1>29 DEF Log!ForkFailed, Log!turnVars
    <3>7. QED
      BY <1>3, <2>1, <2>2, <2>3, <2>4, <2>6, <3>1, <3>2, <3>3, <3>4, <3>5, <3>6 DEF MemoryHolds
  <2>8. \A k \in 1..Len(shelf') : Holds(shelf'[k])
    BY <1>3, <2>3
  <2>9. QED
    BY <2>5, <2>7, <2>8 DEF PublishedInv
<1>30. CASE Log!Reset
  <2>1. /\ io.op = "none" /\ phase = "idle" /\ UNCHANGED <<io, phase>>
        /\ shelf' = Append(shelf, Log!Journal) /\ published' = {}
    BY <1>30 DEF Log!Reset, Log!Settled, Log!Free, Log!turnVars
  <2>2. Len(shelf') = Len(shelf) + 1 /\ shelf'[Len(shelf) + 1] = Log!Journal
        /\ \A k \in 1..Len(shelf) : shelf'[k] = shelf[k]
    <3>1. Log!Journal \in Shelved /\ shelf \in Seq(Shelved)
      BY JournalShelved DEF JournalTypes, DiskOK
    <3>2. QED
      BY <2>1, <3>1, Appended
  <2>3. Holds(Log!Journal)
    <3>1. Log!Journal.published = published /\ Log!Journal.file = file
      BY DEF Log!Journal
    <3>2. QED
      BY <1>3, <1>6, <3>1 DEF Holds, HoldsOpen
  <2>4. \A k \in 1..Len(shelf') : Holds(shelf'[k])
    <3>1. \A k \in 1..Len(shelf') : k \in 1..Len(shelf) \/ k = Len(shelf) + 1
      BY <1>1, <2>2
    <3>2. QED
      BY <1>3, <2>2, <2>3, <3>1
  <2>5. Promised' = {}
    BY <2>1 DEF Promised
  <2>6. HoldsOpen' /\ MemoryHolds'
    BY <2>1, <2>5 DEF HoldsOpen, MemoryHolds
  <2>7. QED
    BY <2>4, <2>6 DEF PublishedInv
<1>31. CASE Log!ResetFails
  <2>1. /\ io.op = "none" /\ phase = "idle"
        /\ UNCHANGED <<file, synced, shelf, published, turn, io, phase>> /\ up' = FALSE
    BY <1>31 DEF Log!ResetFails, Log!Settled, Log!Free, Log!turnVars, Log!diskVars, Log!keptVars
  <2>2. HoldsOpen'
    BY <1>3, <2>1, HoldsSame DEF Promised
  <2>3. MemoryHolds'
    BY <2>1 DEF MemoryHolds
  <2>4. QED
    BY <1>3, <2>1, <2>2, <2>3 DEF PublishedInv
<1>32. ASSUME NEW k \in 1..2, Log!Resume(k) PROVE PublishedInv'
  <2> DEFINE j == Log!Loaded(shelf[k])
  <2>1. /\ io.op = "none" /\ phase = "idle" /\ UNCHANGED <<io, phase>>
        /\ k \in DOMAIN shelf
        /\ file' = j.file /\ synced' = j.synced /\ torn' = j.torn /\ published' = j.published
        /\ kept' = j.kept
        /\ shelf' = [shelf EXCEPT ![k] = Log!Journal]
        /\ head' = Log!Selected(file', Len(file')) /\ committed' = head'
    BY <1>32 DEF Log!Resume, Log!Settled, Log!Free, Log!turnVars
  <2>2. k \in 1..Len(shelf) /\ shelf[k] \in Shelved /\ Readable(shelf[k]) /\ Holds(shelf[k])
    BY <1>3, <2>1 DEF JournalTypes, DiskOK
  <2>3. j \in Shelved /\ Holds(j)
    BY <2>2, LoadedOK, HoldsLoaded
  <2>4. Holds(Log!Journal)
    <3>1. Log!Journal.published = published /\ Log!Journal.file = file
      BY DEF Log!Journal
    <3>2. QED
      BY <1>3, <1>6, <3>1 DEF Holds, HoldsOpen
  <2> HIDE DEF j
  <2>5. Log!Journal' = j
    BY <2>1, <2>3 DEF Log!Journal, Shelved
  <2>6. Promised' = published'
    BY <2>1 DEF Promised
  <2>7. \A m \in Log!Lengths(Log!Journal') : published' \subseteq Turns(file', Log!Selected(file', m))
    BY <2>1, <2>3, <2>5 DEF Holds
  <2>8. HoldsOpen'
    BY <2>6, <2>7 DEF HoldsOpen
  <2>9. \A i \in 1..Len(shelf') : Holds(shelf'[i])
    <3>1. Len(shelf') = Len(shelf)
          /\ \A i \in 1..Len(shelf) : shelf'[i] = IF i = k THEN Log!Journal ELSE shelf[i]
      BY <2>1, <2>2 DEF JournalTypes, DiskOK
    <3>2. QED
      BY <1>3, <2>4, <3>1
  <2>10. Promised' \subseteq Turns(file', head')
    <3>1. Len(file') \in Log!Lengths(Log!Journal')
      BY <1>4 DEF JournalTypes, DiskOK
    <3>2. QED
      BY <2>1, <2>6, <2>7, <3>1
  <2>11. MemoryHolds'
    BY <2>1, <2>10 DEF MemoryHolds, Work
  <2>12. QED
    BY <2>8, <2>9, <2>11 DEF PublishedInv
<1>33. ASSUME NEW k \in 1..2, Log!ResumeFails(k) PROVE PublishedInv'
  <2>1. /\ UNCHANGED <<file, synced, torn, Log!storeVars, Log!chatVars, Log!turnVars, Log!keptVars>>
        /\ k \in DOMAIN shelf /\ shelf' = [shelf EXCEPT ![k] = Log!Loaded(shelf[k])]
    BY <1>33 DEF Log!ResumeFails
  <2>2. k \in 1..Len(shelf) /\ shelf[k] \in Shelved /\ Readable(shelf[k]) /\ Holds(shelf[k])
    BY <1>3, <2>1 DEF JournalTypes, DiskOK
  <2>3. Holds(Log!Loaded(shelf[k]))
    BY <2>2, HoldsLoaded
  <2>4. HoldsOpen'
    BY <1>3, <2>1, HoldsSame DEF Promised, Log!turnVars, Log!keptVars
  <2>5. \A i \in 1..Len(shelf') : Holds(shelf'[i])
    <3>1. Len(shelf') = Len(shelf)
          /\ \A i \in 1..Len(shelf) : shelf'[i] = IF i = k THEN Log!Loaded(shelf[k]) ELSE shelf[i]
      BY <2>1, <2>2 DEF JournalTypes, DiskOK
    <3>2. QED
      BY <1>3, <2>3, <3>1
  <2>6. MemoryHolds'
    BY <1>3, <2>1 DEF MemoryHolds, Work, Turns, Promised, Log!storeVars, Log!chatVars,
                      Log!turnVars, Log!keptVars
  <2>7. QED
    BY <2>4, <2>5, <2>6 DEF PublishedInv
<1>34. CASE Log!Crash
  <2>1. /\ up' = FALSE /\ io'.op = "none" /\ phase' = "idle" /\ UNCHANGED <<synced, Log!keptVars>>
    BY <1>34 DEF Log!Crash, Log!TurnOver, Log!NoIo
  <2>2. PICK d \in Log!Cut(Log!Journal) : file' = d.file /\ torn' = d.torn
    BY <1>34 DEF Log!Crash
  <2>3. Log!Journal \in Shelved /\ Readable(Log!Journal)
    BY JournalShelved DEF JournalTypes
  <2>4. d \in Shelved /\ d.synced = synced /\ d.kept = kept /\ d.published = published
    BY <2>3, CutOK DEF Log!Journal
  <2>5. Log!Journal' = d /\ Promised' = published
    BY <2>1, <2>2, <2>4 DEF Log!Journal, Shelved, Log!keptVars, Promised
  <2>6. HoldsOpen'
    <3>1. \A n \in Log!Lengths(Log!Journal) : published \subseteq Turns(Log!Journal.file, Log!Selected(Log!Journal.file, n))
      BY <1>3, <1>6 DEF HoldsOpen, Log!Journal
    <3>2. \A m \in Log!Lengths(d) : published \subseteq Turns(d.file, Log!Selected(d.file, m))
      BY <2>3, <3>1, HoldsCut
    <3>3. QED
      BY <2>2, <2>5, <3>2 DEF HoldsOpen
  <2>7. DOMAIN shelf' = DOMAIN shelf /\ DOMAIN shelf = 1..Len(shelf) /\ Len(shelf') = Len(shelf)
    <3>1. DOMAIN shelf' = DOMAIN shelf
      BY <1>34 DEF Log!Crash
    <3>2. DOMAIN shelf = 1..Len(shelf) /\ DOMAIN shelf' = 1..Len(shelf') /\ Len(shelf') \in Nat
      BY DEF JournalTypes, DiskOK
    <3>3. QED
      BY <1>1, <3>1, <3>2
  <2>8. ASSUME NEW k \in 1..Len(shelf)
        PROVE  Holds(shelf'[k])
    <3>1. shelf'[k] \in Log!Cut(shelf[k])
      BY <1>34, <2>7 DEF Log!Crash
    <3>2. shelf[k] \in Shelved /\ Readable(shelf[k]) /\ Holds(shelf[k])
      BY <1>3 DEF JournalTypes, DiskOK
    <3>3. shelf'[k].published = shelf[k].published
      BY <3>1, <3>2, CutOK
    <3>4. \A m \in Log!Lengths(shelf'[k]) : shelf[k].published \subseteq Turns(shelf'[k].file, Log!Selected(shelf'[k].file, m))
      BY <3>1, <3>2, HoldsCut DEF Holds
    <3>5. QED
      BY <3>3, <3>4 DEF Holds
  <2>9. MemoryHolds'
    BY <2>1 DEF MemoryHolds
  <2>10. QED
    BY <2>6, <2>7, <2>8, <2>9 DEF PublishedInv
<1>35. CASE Log!Reopen
  <2>1. /\ ~up /\ synced' = Log!Loaded(Log!Journal).synced
        /\ head' = Log!Selected(file, Len(file)) /\ committed' = head'
        /\ UNCHANGED <<file, shelf, io, phase, turn, published>>
    BY <1>35 DEF Log!Reopen, Log!turnVars, Log!keptVars
  <2>2. Log!Loaded(Log!Journal).synced >= synced /\ synced' \in Nat
    <3>1. Log!Loaded(Log!Journal).synced >= Log!Journal.synced
      BY JournalShelved, LoadedOK DEF JournalTypes
    <3>2. QED
      BY <3>1 DEF Log!Journal, JournalTypes, DiskOK
  <2>3. io.op = "none" /\ phase = "idle" /\ Promised' = Promised
    BY <2>1 DEF JournalTypes, StoreOK, Promised
  <2>4. HoldsOpen'
    <3>1. \A m \in Log!Lengths(Log!Journal)' : m \in Log!Lengths(Log!Journal)
      BY <1>1, <1>4, <2>1, <2>2
    <3>2. QED
      BY <1>3, <2>1, <2>3, <3>1 DEF HoldsOpen
  <2>5. MemoryHolds'
    <3>1. Promised \subseteq Turns(file, Log!Selected(file, Len(file)))
      BY <1>3, <1>5 DEF HoldsOpen
    <3>2. QED
      BY <2>1, <2>3, <3>1 DEF MemoryHolds, Work
  <2>6. QED
    BY <1>3, <2>1, <2>4, <2>5 DEF PublishedInv
<1>36. QED
  BY <1>7, <1>8, <1>9, <1>10, <1>11, <1>11a, <1>12, <1>13, <1>14, <1>15, <1>16, <1>17, <1>18, <1>19, <1>20,
     <1>21, <1>22, <1>23, <1>24, <1>25, <1>26, <1>27, <1>28, <1>29, <1>30, <1>31, <1>32, <1>33,
     <1>34, <1>35 DEF Log!Next

-----------------------------------------------------------------------------
(* Between turns and commands, memory is what the journal selects.           *)

LEMMA DurableStep ==
  ASSUME JournalTypes, JournalTypes', PublishedInv, DurableInv, Log!Next
  PROVE  DurableInv'
<1>1. /\ Len(file) \in Nat /\ head \in 0..Len(file) /\ committed \in 0..Len(file)
      /\ live \in Values /\ live # NoState /\ cmd \in Values /\ DOMAIN live = Owners
      /\ DOMAIN cmd = Owners
      /\ \A o \in Owners : cmd[o] \in Nat
  <2>1. file \in Seq(Entries) /\ edits \in 0..MaxEdits /\ NoState \notin Values
        /\ MaxEdits \in Nat
    BY Bounds DEF JournalTypes, DiskOK, ChatOK
  <2>2. live \in Values /\ cmd \in Values
    BY DEF JournalTypes, ChatOK
  <2>3. DOMAIN live = Owners /\ DOMAIN cmd = Owners /\ \A o \in Owners : cmd[o] \in Nat
    BY <2>1, <2>2 DEF Values
  <2>4. head \in 0..Len(file) /\ committed \in 0..Len(file)
    BY DEF JournalTypes, StoreOK
  <2>5. QED
    BY <2>1, <2>2, <2>3, <2>4
<1>2. "none" \notin Log!Operations /\ Log!Operations = {"commit", "checkpoint", "select"}
  BY DEF Log!Operations
<1>3. io.op = "checkpoint" => file[head].parent = committed
  BY DEF PublishedInv, MemoryHolds
<1>4. /\ (io.op = "commit") <=> (phase = "committing")
      /\ (io.op # "none" => Appending) /\ (io.op = "checkpoint" => io.owner \in Owners)
      /\ (io.op = "select" => phase = "idle")
      /\ io.op \in Log!Operations \cup {"none"}
      /\ phase = "idle" => rollback = NoState
      /\ phase \in {"open", "running", "child", "restored", "undone", "committing"} =>
           rollback # NoState
  BY DEF JournalTypes, StoreOK, ChatOK
<1>5. CASE Log!BeginTurn
  BY <1>5, <1>1, <1>2, <1>4 DEF Log!BeginTurn, DurableInv, Level, Quiet, Undo, Spoken, Pending,
                                Matches, Work, Log!diskVars, Log!storeVars, Log!chatVars,
                                Log!turnVars, Log!Free
<1>6. CASE Log!StartPrompt
  <2>1. /\ Log!AppendRecord("start") /\ UNCHANGED <<edits, Log!keptVars>>
        /\ phase' \in Log!Phases /\ phase' # "committing" /\ phase # "idle"
    BY <1>6 DEF Log!StartPrompt, Log!turnVars, Log!Phases
  <2>2. /\ DiskOK' /\ Len(file') = Len(file) + 1 /\ (\A i \in 1..Len(file) : file'[i] = file[i])
        /\ file'[head'] = Log!Record("start", head, Log!Blank) /\ head' = Len(file) + 1
    BY <2>1, RecordTypes DEF Log!AppendRecord
  <2>3. /\ Alike(Len(file)) /\ Log!Selected(file', Len(file')) = Log!Selected(file, Len(file))
        /\ Log!HistoryOf(file', head') = Log!HistoryOf(file, head)
    BY <1>1, <2>2, RecordReads
  <2>4. Log!HistoryOf(file', committed) = Log!HistoryOf(file, committed)
        /\ Log!StateOf(file', committed) = Log!StateOf(file, committed)
    BY <1>1, <2>3 DEF Alike
  <2>5. QED
    BY <1>6, <1>1, <1>4, <2>2, <2>3, <2>4 DEF Log!StartPrompt, Log!AppendRecord, DurableInv,
                                              Level, Quiet, Undo, Spoken, Pending, Matches, Work,
                                              Log!chatVars, Log!turnVars, Log!Free
<1>7. CASE Log!AddHistory
  <2>1. /\ Log!AppendRecord("message") /\ UNCHANGED <<edits, Log!keptVars>>
        /\ phase' \in Log!Phases /\ phase' # "committing" /\ phase # "idle"
    BY <1>7 DEF Log!AddHistory, Log!turnVars, Log!Phases
  <2>2. /\ DiskOK' /\ Len(file') = Len(file) + 1 /\ (\A i \in 1..Len(file) : file'[i] = file[i])
        /\ file'[head'] = Log!Record("message", head, Log!Blank) /\ head' = Len(file) + 1
    BY <2>1, RecordTypes DEF Log!AppendRecord
  <2>3. /\ Alike(Len(file)) /\ Log!Selected(file', Len(file')) = Log!Selected(file, Len(file))
        /\ Log!HistoryOf(file', head') = Append(Log!HistoryOf(file, head), turn)
    BY <1>1, <2>2, RecordReads
  <2>4. Log!HistoryOf(file', committed) = Log!HistoryOf(file, committed)
        /\ Log!StateOf(file', committed) = Log!StateOf(file, committed)
    BY <1>1, <2>3 DEF Alike
  <2>5. QED
    BY <1>7, <1>1, <1>4, <2>2, <2>3, <2>4 DEF Log!AddHistory, Log!AppendRecord, DurableInv, Level,
                                              Quiet, Undo, Spoken, Pending, Matches, Work,
                                              Log!chatVars, Log!turnVars, Log!Free
<1>8. CASE Log!Delegate
  BY <1>8, <1>1, <1>2, <1>4 DEF Log!Delegate, DurableInv, Level, Quiet, Undo, Spoken, Pending,
                                Matches, Work, Log!diskVars, Log!storeVars, Log!chatVars,
                                Log!turnVars, Log!Free
<1>9. CASE Log!RestoreChild
  BY <1>9, <1>1, <1>2, <1>4 DEF Log!RestoreChild, DurableInv, Level, Quiet, Undo, Spoken, Pending,
                                Matches, Work, Log!diskVars, Log!storeVars, Log!chatVars,
                                Log!turnVars, Log!Free
<1>9a. CASE Log!RestoreFails
  BY <1>9a, <1>1, <1>2, <1>4 DEF Log!RestoreFails, DurableInv, Level, Quiet, Undo, Spoken, Pending,
                                Matches, Work, Log!diskVars, Log!storeVars, Log!chatVars,
                                Log!turnVars, Log!Free
<1>10. CASE Log!CommitTurn
  <2>1. /\ Log!BeginAppend("commit", "none", KindOf("commit"), head, live) /\ UNCHANGED edits
        /\ io.op = "none" /\ up /\ up' = up /\ ~failed /\ ~failed' /\ head' = Len(file) + 1
        /\ committed' = committed
        /\ io'.op = "commit" /\ io'.owner = "none" /\ io'.previous = head
    BY <1>10 DEF Log!CommitTurn, KindOf, Log!BeginAppend, Log!Free
  <2>2. /\ head \in 0..Len(file) /\ live \in Values /\ published' \in SUBSET Nat
        /\ kept' \in Values
        /\ phase' = "committing"
    BY <1>10 DEF JournalTypes, StoreOK, DiskOK, ChatOK, Log!keptVars, Log!CommitTurn
  <2>3. ("commit" = "checkpoint" => "none" \in Owners) /\ "commit" = "commit" <=>
          phase' = "committing"
    BY <2>2
  <2>4. /\ DiskOK' /\ Len(file') = Len(file) + 1
        /\ (\A i \in 1..Len(file) : file'[i] = file[i])
              /\ file'[head'] = Log!Record(KindOf("commit"), head, live)
    BY <1>10, <1>2, <2>1, <2>2, <2>3, BeginTypes
  <2>5. /\ Alike(Len(file)) /\ Log!HistoryOf(file', head') = Log!HistoryOf(file, head)
        /\ file'[head'].parent = head
        /\ file'[head'].state = live /\ Log!StateOf(file', head') = live
    BY <1>1, <1>2, <2>1, <2>2, <2>4, BeginReads
  <2>6. /\ Log!HistoryOf(file', committed) = Log!HistoryOf(file, committed)
        /\ Log!StateOf(file', committed) = Log!StateOf(file, committed)
        /\ Log!HistoryOf(file', head) = Log!HistoryOf(file, head)
        /\ Log!HistoryOf(file', head) = Log!HistoryOf(file, head)
        /\ Log!StateOf(file', head) = Log!StateOf(file, head)
    BY <1>1, <2>2, <2>5 DEF Alike
  <2>7. QED
    BY <1>10, <1>1, <1>2, <1>4, <2>1, <2>2, <2>3, <2>5, <2>6
    DEF Log!CommitTurn, DurableInv, Level, Quiet, Undo, Spoken, Pending, Matches, Work,
        Log!chatVars, Log!turnVars
<1>11. CASE Log!CommitChild
  <2>1. /\ Alike(Len(file)) /\ Len(file') = Len(file) + 2
        /\ Log!HistoryOf(file', Len(file) + 2) = Append(Log!HistoryOf(file, head), turn)
        /\ Log!StateOf(file', Len(file) + 2) = live
    BY <1>11, ChildTypes, ChildReads
  <2>2. QED
    BY <1>11, <1>1, <1>2, <1>4, <2>1 DEF Log!CommitChild, DurableInv, Level, Quiet, Undo, Spoken,
                                        Pending, Matches, Work, Log!chatVars, Log!Free
<1>12. CASE Log!CommitSynced
  <2>1. /\ io.op = "commit" /\ io'.op = "none" /\ UNCHANGED <<file, up, failed>> /\ Appending
    BY <1>12, <1>2, <1>4 DEF Log!CommitSynced, Log!Synced, Log!NoIo
  <2>2. head = Len(file) /\ head \in 1..Len(file) /\ file[head].kind = KindOf("commit")
    BY <1>1, <2>1 DEF Appending, JournalTypes, StoreOK, DiskOK
  <2>3. Log!Selected(file, Len(file)) = IF "commit" = "select" THEN file[head].parent ELSE head
    <3>1. KindOf("commit") \in Log!Selections
          /\ (KindOf("commit") = "select" <=> "commit" = "select")
      BY DEF KindOf, Log!Selections
    <3>2. head - 1 \in Nat /\ (head - 1) + 1 = head
      BY <1>1, <2>2
    <3>3. QED
      BY <2>2, <3>1, <3>2, SelectedNext
  <2>4. QED
    BY <1>12, <1>1, <1>4, <2>1, <2>2, <2>3 DEF Log!CommitSynced, DurableInv, Level, Quiet, Undo,
                                              Spoken, Pending, Matches, Work
<1>13. CASE Log!CommitFailed
  BY <1>13 DEF Log!CommitFailed, Log!AppendFailed, Log!NoIo, DurableInv
<1>14. CASE Log!PublishDone
  BY <1>14, <1>1, <1>2, <1>4 DEF Log!PublishDone, DurableInv, Level, Quiet, Undo, Spoken, Pending,
                                 Matches, Work, Log!diskVars, Log!storeVars, Log!chatVars,
                                 Log!turnVars, Log!Free
<1>15. CASE Log!FailTurn
  BY <1>15, <1>1, <1>2, <1>4 DEF Log!FailTurn, DurableInv, Level, Quiet, Undo, Spoken, Pending,
                                 Matches, Work, Log!diskVars, Log!storeVars, Log!chatVars,
                                 Log!turnVars, Log!Free
<1>16. CASE Log!AppendFails
  BY <1>16 DEF Log!AppendFails, Log!Free, DurableInv
<1>17. CASE Log!FinishTurn
  BY <1>17, <1>1, <1>2, <1>4 DEF Log!FinishTurn, DurableInv, Level, Quiet, Undo, Spoken, Pending,
                                 Matches, Work, Log!diskVars, Log!storeVars, Log!chatVars,
                                 Log!turnVars, Log!Free, Log!TurnOver
<1>18. ASSUME NEW o \in Owners, Log!PluginEdit(o) PROVE DurableInv'
  BY <1>18, <1>1, <1>2, <1>4 DEF Log!PluginEdit, DurableInv, Level, Quiet, Undo, Spoken, Pending,
                                 Matches, Work, Log!diskVars, Log!storeVars, Log!chatVars,
                                 Log!turnVars, Log!Free
<1>19. ASSUME NEW o \in Owners, Log!ChildEdit(o) PROVE DurableInv'
  BY <1>19, <1>1, <1>2, <1>4 DEF Log!ChildEdit, DurableInv, Level, Quiet, Undo, Spoken, Pending,
                                 Matches, Work, Log!diskVars, Log!storeVars, Log!chatVars,
                                 Log!turnVars, Log!Free
<1>20. ASSUME NEW o \in Owners, Log!CommandEdit(o) PROVE DurableInv'
  <2>1. /\ cmd[o] = 0 /\ cmd'[o] # 0
        /\ \A p \in Owners \ {o} : cmd'[p] = cmd[p] /\ live'[p] = live[p]
        /\ UNCHANGED <<Log!diskVars, Log!storeVars, history, rollback, Log!turnVars>>
    <3>1. edits + 1 # 0
      BY DEF JournalTypes, ChatOK
    <3>2. QED
      BY <1>20, <1>1, <3>1 DEF Log!CommandEdit
  <2>2. \A p \in Owners : cmd'[p] = 0 => cmd[p] = 0 /\ live'[p] = live[p]
    BY <2>1
  <2>3. QED
    BY <1>1, <1>2, <1>4, <2>1, <2>2 DEF DurableInv, Level, Quiet, Undo, Spoken, Pending, Matches,
                                        Work, Log!diskVars, Log!storeVars, Log!turnVars
<1>21. ASSUME NEW o \in Owners, Log!Checkpoint(o) PROVE DurableInv'
  <2>1. /\ Log!BeginAppend("checkpoint", o, KindOf("checkpoint"), committed, Log!Checkpointed(o))
        /\ UNCHANGED edits
        /\ io.op = "none" /\ up /\ up' = up /\ ~failed /\ ~failed' /\ head' = Len(file) + 1
        /\ committed' = committed
        /\ io'.op = "checkpoint" /\ io'.owner = o /\ io'.previous = head
    BY <1>21 DEF Log!Checkpoint, KindOf, Log!BeginAppend, Log!Free
  <2>2. /\ committed \in 0..Len(file) /\ Log!Checkpointed(o) \in Values
        /\ published' \in SUBSET Nat /\ kept' \in Values
        /\ UNCHANGED phase /\ Log!Checkpointed(o)[o] = live[o]
        /\ (rollback = NoState => Log!Checkpointed(o) = live)
    <3>1. Log!Checkpointed(o) \in Values
      BY <1>21 DEF Log!Checkpointed, Values, JournalTypes, ChatOK
    <3>2. Log!Checkpointed(o)[o] = live[o] /\ (rollback = NoState => Log!Checkpointed(o) = live)
      <4>1. rollback \in Values \cup {NoState}
        BY DEF JournalTypes, ChatOK
      <4>2. QED
        BY <1>21, <1>1, <4>1 DEF Log!Checkpointed, Values
    <3>3. kept' \in Values
      BY <1>21 DEF JournalTypes, DiskOK, Values, Log!Checkpoint, Log!BeginAppend
    <3>4. QED
      BY <1>21, <1>1, <3>1, <3>2, <3>3 DEF JournalTypes, DiskOK, Log!keptVars, Log!Checkpoint,
                                     Log!turnVars
  <2>3. phase' # "committing" /\ "checkpoint" # "commit" /\ "checkpoint" # "select"
    BY <2>1, <2>2 DEF JournalTypes, StoreOK
  <2>4. /\ DiskOK' /\ Len(file') = Len(file) + 1
        /\ (\A i \in 1..Len(file) : file'[i] = file[i])
              /\ file'[head'] = Log!Record(KindOf("checkpoint"), committed, Log!Checkpointed(o))
    BY <1>21, <1>2, <2>1, <2>2, <2>3, BeginTypes
  <2>5. /\ Alike(Len(file)) /\ Log!HistoryOf(file', head') = Log!HistoryOf(file, committed)
        /\ file'[head'].parent = committed
        /\ file'[head'].state = Log!Checkpointed(o)
        /\ Log!StateOf(file', head') = Log!Checkpointed(o)
    BY <1>1, <1>2, <2>1, <2>2, <2>4, BeginReads
  <2>6. /\ Log!HistoryOf(file', committed) = Log!HistoryOf(file, committed)
        /\ Log!StateOf(file', committed) = Log!StateOf(file, committed)
        /\ Log!HistoryOf(file', head) = Log!HistoryOf(file, head)
        /\ Log!HistoryOf(file', committed) = Log!HistoryOf(file, committed)
        /\ Log!StateOf(file', committed) = Log!StateOf(file, committed)
    BY <1>1, <2>2, <2>5 DEF Alike
  <2>7. QED
    BY <1>21, <1>1, <1>2, <1>4, <2>1, <2>2, <2>3, <2>5, <2>6
    DEF Log!Checkpoint, DurableInv, Level, Quiet, Undo, Spoken, Pending, Matches, Work,
        Log!chatVars, Log!turnVars
<1>22. ASSUME NEW o \in Owners, Log!CheckpointRefused(o) PROVE DurableInv'
  BY <1>22 DEF Log!CheckpointRefused, Log!storeVars, Log!Free, DurableInv
<1>23. CASE Log!CheckpointSynced
  <2>1. /\ io.op = "checkpoint" /\ io'.op = "none" /\ UNCHANGED <<file, up, failed>> /\ Appending
    BY <1>23, <1>2, <1>4 DEF Log!CheckpointSynced, Log!Synced, Log!NoIo
  <2>2. head = Len(file) /\ head \in 1..Len(file) /\ file[head].kind = KindOf("checkpoint")
    BY <1>1, <2>1 DEF Appending, JournalTypes, StoreOK, DiskOK
  <2>3. Log!Selected(file, Len(file)) = IF "checkpoint" = "select" THEN file[head].parent ELSE head
    <3>1. KindOf("checkpoint") \in Log!Selections
          /\ (KindOf("checkpoint") = "select" <=> "checkpoint" = "select")
      BY DEF KindOf, Log!Selections
    <3>2. head - 1 \in Nat /\ (head - 1) + 1 = head
      BY <1>1, <2>2
    <3>3. QED
      BY <2>2, <3>1, <3>2, SelectedNext
  <2>4. Log!HistoryOf(file, head) = Log!HistoryOf(file, committed)
    <3>1. file[head].parent = committed /\ file[head].kind # "message"
      BY <1>3, <2>1, <2>2 DEF KindOf
    <3>2. QED
      BY <1>1, <2>2, <3>1, HistoryChain DEF JournalTypes, DiskOK
  <2>5. /\ committed' = head /\ head' = IF io.previous # committed THEN io.previous ELSE head
        /\ rollback' = IF rollback = NoState THEN NoState ELSE file[head].state
        /\ cmd' = [cmd EXCEPT ![io.owner] = 0] /\ UNCHANGED <<history, live, Log!turnVars>>
    BY <1>23 DEF Log!CheckpointSynced
  <2>6. /\ Work = io.previous /\ Work' = head'
        /\ Log!HistoryOf(file, head') = Log!HistoryOf(file, Work)
        /\ Log!StateOf(file, head) = file[head].state
    BY <2>1, <2>2, <2>4, <2>5 DEF Work, Log!StateOf
  <2>7. \A p \in Owners : cmd'[p] = 0 => p = io.owner \/ cmd[p] = 0
    BY <1>1, <1>4, <2>1, <2>5
  <2>8. up /\ ~failed => Level' /\ Quiet'
    <3>1. Level'
      BY <2>1, <2>3, <2>5 DEF Level
    <3>2. file[head].state # NoState
      <4>1. file[head] \in Entries /\ NoState \notin Values
        BY <2>2, Bounds DEF JournalTypes, DiskOK, ChatOK
      <4>2. QED
        BY <4>1 DEF Entries
    <3>3. ASSUME up, ~failed, rollback' = NoState
          PROVE  Work' = committed' /\ history' = Log!HistoryOf(file', committed')
                 /\ Matches(live, committed)'
      <4>1. /\ rollback = NoState /\ Work = committed /\ history = Log!HistoryOf(file, committed)
            /\ Matches(live, head) /\ live[io.owner] = file[head].state[io.owner]
        BY <2>1, <2>5, <3>2, <3>3 DEF DurableInv, Quiet, Pending
      <4>2. \A p \in Owners : cmd'[p] = 0 => live[p] = Log!StateOf(file, head)[p]
        BY <2>6, <2>7, <4>1 DEF Matches
      <4>3. Work' = head /\ committed' = head /\ file' = file /\ live' = live
            /\ history' = history
        BY <2>1, <2>5, <2>6, <4>1
      <4>4. QED
        BY <2>4, <4>1, <4>2, <4>3 DEF Matches
    <3>4. up /\ ~failed => Quiet'
      BY <3>3 DEF Quiet
    <3>5. QED
      BY <3>1, <3>4
  <2>9. up /\ ~failed => Undo' /\ Spoken' /\ Pending'
    BY <1>4, <2>1, <2>2, <2>4, <2>5, <2>6 DEF DurableInv, Undo, Spoken, Pending, Matches,
                                              Log!turnVars
  <2>10. QED
    BY <2>1, <2>8, <2>9 DEF DurableInv
<1>24. CASE Log!CheckpointFailed
  BY <1>24 DEF Log!CheckpointFailed, Log!AppendFailed, Log!NoIo, DurableInv
<1>25. ASSUME NEW e \in 1..MaxRecords, Log!Fork(e) PROVE DurableInv'
  <2>1. /\ Log!BeginAppend("select", "none", KindOf("select"), e, file[e].state)
        /\ UNCHANGED edits
        /\ io.op = "none" /\ up /\ up' = up /\ ~failed /\ ~failed' /\ head' = Len(file) + 1
        /\ committed' = committed
        /\ io'.op = "select" /\ io'.owner = "none" /\ io'.previous = head
    BY <1>25 DEF Log!Fork, KindOf, Log!BeginAppend, Log!Free
  <2>2. /\ e \in 0..Len(file) /\ e # 0 /\ file[e].state \in Values /\ published' \in SUBSET Nat
        /\ kept' \in Values
        /\ UNCHANGED phase /\ phase = "idle" /\ Log!StateOf(file, e) = file[e].state
    <3>1. e \in 1..Len(file) /\ file[e] \in Entries
      BY <1>25 DEF Log!Fork, JournalTypes, DiskOK
    <3>2. file[e].state \in Values /\ Values' = Values
      BY <2>1, <3>1 DEF Entries, Values
    <3>3. QED
      BY <1>25, <1>1, <3>1, <3>2 DEF JournalTypes, DiskOK, Log!Fork, Log!turnVars,
                                     Log!BeginAppend, Log!Free, Log!StateOf
  <2>3. phase' # "committing" /\ "select" # "commit" /\ "select" # "checkpoint"
    BY <2>2
  <2>4. /\ DiskOK' /\ Len(file') = Len(file) + 1
        /\ (\A i \in 1..Len(file) : file'[i] = file[i])
              /\ file'[head'] = Log!Record(KindOf("select"), e, file[e].state)
    BY <1>25, <1>2, <2>1, <2>2, <2>3, BeginTypes
  <2>5. /\ Alike(Len(file)) /\ Log!HistoryOf(file', head') = Log!HistoryOf(file, e)
        /\ file'[head'].parent = e
        /\ file'[head'].state = file[e].state /\ Log!StateOf(file', head') = file[e].state
    BY <1>1, <1>2, <2>1, <2>2, <2>4, BeginReads
  <2>6. /\ Log!HistoryOf(file', committed) = Log!HistoryOf(file, committed)
        /\ Log!StateOf(file', committed) = Log!StateOf(file, committed)
        /\ Log!HistoryOf(file', head) = Log!HistoryOf(file, head)
        /\ Log!HistoryOf(file', e) = Log!HistoryOf(file, e)
        /\ Log!StateOf(file', e) = Log!StateOf(file, e)
    BY <1>1, <2>2, <2>5 DEF Alike
  <2>7. QED
    BY <1>25, <1>1, <1>2, <1>4, <2>1, <2>2, <2>3, <2>5, <2>6
    DEF Log!Fork, DurableInv, Level, Quiet, Undo, Spoken, Pending, Matches, Work, Log!chatVars,
        Log!turnVars
<1>26. CASE Log!ForkSynced
  <2>1. /\ io.op = "select" /\ io'.op = "none" /\ UNCHANGED <<file, up, failed>> /\ Appending
    BY <1>26, <1>2, <1>4 DEF Log!ForkSynced, Log!Synced, Log!NoIo
  <2>2. head = Len(file) /\ head \in 1..Len(file) /\ file[head].kind = KindOf("select")
    BY <1>1, <2>1 DEF Appending, JournalTypes, StoreOK, DiskOK
  <2>3. Log!Selected(file, Len(file)) = IF "select" = "select" THEN file[head].parent ELSE head
    <3>1. KindOf("select") \in Log!Selections
          /\ (KindOf("select") = "select" <=> "select" = "select")
      BY DEF KindOf, Log!Selections
    <3>2. head - 1 \in Nat /\ (head - 1) + 1 = head
      BY <1>1, <2>2
    <3>3. QED
      BY <2>2, <3>1, <3>2, SelectedNext
  <2>4. QED
    BY <1>26, <1>1, <1>4, <2>1, <2>2, <2>3 DEF Log!ForkSynced, DurableInv, Level, Quiet, Undo,
                                               Spoken, Pending, Matches, Work, Log!chatVars,
                                               Log!turnVars
<1>27. CASE Log!ForkFailed
  BY <1>27 DEF Log!ForkFailed, Log!AppendFailed, Log!NoIo, DurableInv
<1>28. CASE Log!Reset
  <2>1. /\ phase = "idle" /\ io.op = "none" /\ UNCHANGED <<io, phase, rollback>>
        /\ file' = <<>> /\ head' = 0 /\ committed' = 0 /\ history' = <<>> /\ live' = Log!Blank
    BY <1>28 DEF Log!Reset, Log!Settled, Log!Free, Log!turnVars
  <2>2. Len(file') = 0 /\ Log!HistoryOf(file', 0) = <<>> /\ Log!StateOf(file', 0) = Log!Blank
        /\ Log!Selected(file', 0) = 0
    <3>1. Len(file') = 0 /\ Chained(file', Len(file'))
      BY <2>1 DEF JournalTypes, DiskOK
    <3>2. Len(file') \in Nat
      BY <3>1
    <3>3. Log!HistoryOf(file', 0) = <<>>
      BY <3>1, <3>2, HistoryChain
    <3>4. QED
      BY <3>1, <3>3, SelectedEmpty DEF Log!StateOf
  <2>3. QED
    BY <1>4, <2>1, <2>2 DEF DurableInv, Level, Quiet, Undo, Spoken, Pending, Matches, Work
<1>29. CASE Log!ResetFails
  BY <1>29 DEF Log!ResetFails, DurableInv
<1>30. ASSUME NEW k \in 1..2, Log!Resume(k) PROVE DurableInv'
  BY <1>30, <1>4 DEF Log!Resume, Log!Settled, Log!Free, Log!turnVars, DurableInv, Level, Quiet,
                     Undo, Spoken, Pending, Matches, Work
<1>31. ASSUME NEW k \in 1..2, Log!ResumeFails(k) PROVE DurableInv'
  BY <1>31 DEF Log!ResumeFails, Log!storeVars, Log!chatVars, Log!turnVars, DurableInv, Level,
               Quiet, Undo, Spoken, Pending, Matches, Work
<1>32. CASE Log!Crash
  BY <1>32 DEF Log!Crash, DurableInv
<1>33. CASE Log!Reopen
  BY <1>33, <1>4 DEF Log!Reopen, JournalTypes, StoreOK, Log!turnVars, DurableInv, Level, Quiet,
                     Undo, Spoken, Pending, Matches, Work
<1>34. QED
  BY <1>5, <1>6, <1>7, <1>8, <1>9, <1>9a, <1>10, <1>11, <1>12, <1>13, <1>14, <1>15, <1>16, <1>17, <1>18,
     <1>19, <1>20, <1>21, <1>22, <1>23, <1>24, <1>25, <1>26, <1>27, <1>28, <1>29, <1>30, <1>31,
     <1>32, <1>33 DEF Log!Next

-----------------------------------------------------------------------------
(* A turn that has not committed stays private.                              *)

LEMMA TurnsBounded ==
  ASSUME JournalTypes, Numbered(file, turn), NEW h \in 0..Len(file), NEW t \in Turns(file, h)
  PROVE  t \in Nat /\ t <= turn
<1>1. Len(file) \in Nat /\ Chained(file, Len(file)) /\ turn \in Nat
  BY DEF JournalTypes, DiskOK, ChatOK
<1>2. \A i \in 1..Len(file) : file[i].turn \in 0..turn
  <2>1. \A i \in 1..Len(file) : file[i] \in Entries
    BY DEF JournalTypes, DiskOK
  <2>2. \A i \in 1..Len(file) : file[i].turn \in Nat
    BY <2>1 DEF Entries
  <2>3. QED
    BY <1>1, <2>2 DEF Numbered
<1>3. Log!HistoryOf(file, h) \in Seq(0..turn)
  BY <1>1, <1>2, HistoryTurns
<1>4. \A i \in DOMAIN Log!HistoryOf(file, h) : Log!HistoryOf(file, h)[i] \in 0..turn
  <2>1. ASSUME NEW S, NEW s \in Seq(S) PROVE \A i \in DOMAIN s : s[i] \in S
    <3>1. DOMAIN s = 1..Len(s)
      OBVIOUS
    <3>2. \A i \in 1..Len(s) : s[i] \in S
      OBVIOUS
    <3>3. QED
      BY <3>1, <3>2
  <2>2. QED
    BY <1>3, <2>1
<1>5. QED
  BY <1>1, <1>4 DEF Turns

LEMMA NumberedGrown ==
  ASSUME Len(file) \in Nat, Numbered(file, turn), NEW n \in Nat, n <= Len(file),
         Len(file') \in Nat,
         \A i \in 1..n : file'[i] = file[i], turn' = turn,
         \A i \in 1..Len(file') : i > n => file'[i].turn <= turn
  PROVE  Numbered(file', turn')
BY DEF Numbered

LEMMA PrivateStep ==
  ASSUME JournalTypes, JournalTypes', PrivateInv, Log!Next
  PROVE  PrivateInv'
<1>1. /\ Len(file) \in Nat /\ Len(shelf) \in Nat /\ head \in 0..Len(file)
      /\ committed \in 0..Len(file)
      /\ synced \in Nat /\ synced <= Len(file) /\ turn \in Nat /\ edits \in Nat
      /\ Len(file') \in Nat /\ edits' \in Nat
  <2>1. file \in Seq(Entries) /\ shelf \in Seq(Shelved) /\ file' \in Seq(Entries')
    BY DEF JournalTypes, DiskOK
  <2>2. Len(file) \in Nat /\ Len(shelf) \in Nat /\ Len(file') \in Nat
    BY <2>1
  <2>3. edits \in Nat /\ edits' \in Nat
    BY DEF JournalTypes, ChatOK
  <2>4. QED
    BY <2>2, <2>3 DEF JournalTypes, DiskOK, StoreOK, ChatOK
<1>2. "none" \notin Log!Operations /\ Log!Operations = {"commit", "checkpoint", "select"}
  BY DEF Log!Operations
<1>3. /\ Numbered(file, turn) /\ \A k \in 1..Len(shelf) : Numbered(shelf[k].file, turn)
      /\ turnEdits \subseteq 1..edits /\ Apart
  BY DEF PrivateInv
<1>4. Log!Lengths(Log!Journal) = synced..Len(file)
      /\ Log!Lengths(Log!Journal)' = synced'..Len(file')
  BY DEF Log!Journal, Log!Lengths
<1>5. /\ (io.op = "commit") <=> (phase = "committing")
      /\ (io.op # "none" => Appending) /\ (io.op = "checkpoint" => io.owner \in Owners)
      /\ (io.op = "select" => phase = "idle")
      /\ phase = "idle" => rollback = NoState
  BY DEF JournalTypes, StoreOK, ChatOK
<1>6. /\ rollback \in Values \cup {NoState} /\ live \in Values /\ NoState \notin Values
      /\ \A s \in Values, o \in Owners : s[o] \in Nat /\ s[o] <= edits
  <2>1. rollback \in Values \cup {NoState} /\ live \in Values /\ edits \in 0..MaxEdits
    BY DEF JournalTypes, ChatOK
  <2>2. NoState \notin Values
    BY <2>1, Bounds
  <2>3. QED
    BY <1>1, <2>1, <2>2, ValueTyped
<1>7. ASSUME NEW n \in Log!Lengths(Log!Journal)
      PROVE  Log!Selected(file, n) \in 0..n /\ n \in 0..Len(file)
             /\ Log!StateOf(file, Log!Selected(file, n)) \in Values
  <2>1. Log!Journal.file = file
    BY DEF Log!Journal
  <2>2. Log!StateAt(Log!Journal, n) \in Values /\ n \in 0..Len(file)
    BY <2>1, StatesTyped, JournalShelved DEF JournalTypes
  <2>3. \A i \in 1..n : file[i].parent \in Nat /\ file[i].parent < i
    BY <1>1, <2>2 DEF JournalTypes, DiskOK, Chained
  <2>4. QED
    BY <2>1, <2>2, <2>3, SelectedRange DEF Log!StateAt
<1>8. Len(file) \in Log!Lengths(Log!Journal)
  BY <1>1, <1>4
<1>9. CASE Log!BeginTurn
  <2>1. /\ UNCHANGED <<file, synced, shelf, edits>> /\ turn' = turn + 1 /\ turnEdits' = {}
        /\ committed' = committed
    BY <1>9 DEF Log!BeginTurn, Log!diskVars, Log!storeVars
  <2>2. Numbered(file', turn') /\ (\A k \in 1..Len(shelf') : Numbered(shelf'[k].file, turn'))
    <3>1. ASSUME NEW f, f \in Seq(Entries), Numbered(f, turn)
          PROVE  \A i \in 1..Len(f) : f[i].turn <= turn + 1
      <4>1. \A i \in 1..Len(f) : f[i] \in Entries
        BY <3>1
      <4>2. \A i \in 1..Len(f) : f[i].turn \in Nat
        BY <4>1 DEF Entries
      <4>3. QED
        BY <1>1, <3>1, <4>2 DEF Numbered
    <3>2. file \in Seq(Entries) /\ \A k \in 1..Len(shelf) : shelf[k].file \in Seq(Entries)
      <4>1. \A k \in 1..Len(shelf) : shelf[k] \in Shelved
        BY DEF JournalTypes, DiskOK
      <4>2. QED
        BY <4>1 DEF JournalTypes, DiskOK, Shelved
    <3>3. QED
      BY <1>3, <2>1, <3>1, <3>2 DEF Numbered
  <2>3. \A h \in 0..Len(file) : turn + 1 \notin Turns(file, h)
    <3>1. ASSUME NEW h \in 0..Len(file), turn + 1 \in Turns(file, h)
          PROVE  turn + 1 <= turn
      BY <1>3, <3>1, TurnsBounded
    <3>2. QED
      BY <1>1, <3>1
  <2>4. Apart'
    <3>1. \A m \in Log!Lengths(Log!Journal)' : m \in Log!Lengths(Log!Journal)
             /\ Log!Selected(file, m) \in 0..Len(file)
      BY <1>1, <1>4, <1>7, <2>1
    <3>2. QED
      BY <1>1, <2>1, <2>3, <3>1 DEF Apart
  <2>5. QED
    BY <2>1, <2>2, <2>4 DEF PrivateInv
<1>10. CASE Log!StartPrompt
  <2>1. /\ Log!AppendRecord("start") /\ UNCHANGED <<edits, Log!keptVars>>
        /\ phase' \in Log!Phases /\ phase' # "committing" /\ phase # "idle"
        /\ UNCHANGED <<turn, turnEdits, rollback, owners, committed, shelf, synced, io>>
        /\ io.op = "none" /\ ~failed /\ phase # "committing"
    BY <1>10 DEF Log!StartPrompt, Log!turnVars, Log!chatVars, Log!Phases, Log!AppendRecord,
                Log!Free
  <2>2. /\ DiskOK' /\ Len(file') = Len(file) + 1 /\ (\A i \in 1..Len(file) : file'[i] = file[i])
        /\ file'[head'] = Log!Record("start", head, Log!Blank) /\ head' = Len(file) + 1
    BY <2>1, RecordTypes DEF Log!AppendRecord
  <2>3. Alike(Len(file)) /\ Log!Selected(file', head') = Log!Selected(file, Len(file))
    BY <1>1, <2>2, RecordReads
  <2>4. Numbered(file', turn') /\ \A k \in 1..Len(shelf') : Numbered(shelf'[k].file, turn')
    <3>1. \A i \in 1..Len(file') : i > Len(file) => file'[i].turn <= turn
      BY <1>1, <2>2 DEF Log!Record
    <3>2. Len(file) \in Nat /\ Len(file') \in Nat /\ turn' = turn /\ Len(file) <= Len(file)
      BY <1>1, <2>1
    <3>3. Numbered(file', turn')
      BY <1>3, <2>2, <3>1, <3>2, NumberedGrown
    <3>4. QED
      BY <1>3, <2>1, <3>2, <3>3
  <2>5. Apart'
    <3>1. ASSUME NEW m \in Log!Lengths(Log!Journal)'
          PROVE  \E p \in Log!Lengths(Log!Journal) : Turns(file', Log!Selected(file', m)) = Turns(file, Log!Selected(file, p))
                    /\ Log!StateOf(file', Log!Selected(file', m)) = Log!StateOf(file, Log!Selected(file, p))
      <4>1. CASE m = head'
        <5>1. Log!Selected(file, Len(file)) \in 0..Len(file)
          BY <1>1, <2>3 DEF Alike
        <5>2. Turns(file', Log!Selected(file, Len(file))) = Turns(file, Log!Selected(file, Len(file)))
          BY <1>1, <2>3, <5>1, TurnsAlike
        <5>3. Log!StateOf(file', Log!Selected(file, Len(file))) = Log!StateOf(file, Log!Selected(file, Len(file)))
          BY <2>3, <5>1 DEF Alike
        <5>4. QED
          BY <1>8, <2>3, <4>1, <5>2, <5>3
      <4>2. CASE m # head'
        <5>1. m \in 0..Len(file) /\ m \in Log!Lengths(Log!Journal)
          BY <1>1, <1>4, <2>1, <2>2, <4>2
        <5>2. Turns(file', Log!Selected(file', m)) = Turns(file, Log!Selected(file, m))
          BY <1>1, <2>3, <5>1, TurnsAlike
        <5>3. Log!StateOf(file', Log!Selected(file', m)) = Log!StateOf(file, Log!Selected(file, m))
          <6>1. Log!Selected(file, m) \in 0..Len(file)
                /\ Log!Selected(file', m) = Log!Selected(file, m)
            BY <1>1, <2>3, <5>1 DEF Alike
          <6>2. QED
            BY <2>3, <6>1 DEF Alike
        <5>4. QED
          BY <5>1, <5>2, <5>3
      <4>3. QED
        BY <4>1, <4>2
    <3>2. Turns(file', committed) = Turns(file, committed)
      BY <1>1, <2>3, TurnsAlike
    <3>3. QED
      BY <1>3, <2>1, <3>1, <3>2 DEF Apart
  <2>6. QED
    BY <1>3, <2>1, <2>4, <2>5 DEF PrivateInv
<1>11. CASE Log!AddHistory
  <2>1. /\ Log!AppendRecord("message") /\ UNCHANGED <<edits, Log!keptVars>>
        /\ phase' \in Log!Phases /\ phase' # "committing" /\ phase # "idle"
        /\ UNCHANGED <<turn, turnEdits, rollback, owners, committed, shelf, synced, io>>
        /\ io.op = "none" /\ ~failed /\ phase # "committing"
    BY <1>11 DEF Log!AddHistory, Log!turnVars, Log!chatVars, Log!Phases, Log!AppendRecord, Log!Free
  <2>2. /\ DiskOK' /\ Len(file') = Len(file) + 1 /\ (\A i \in 1..Len(file) : file'[i] = file[i])
        /\ file'[head'] = Log!Record("message", head, Log!Blank) /\ head' = Len(file) + 1
    BY <2>1, RecordTypes DEF Log!AppendRecord
  <2>3. Alike(Len(file)) /\ Log!Selected(file', head') = Log!Selected(file, Len(file))
    BY <1>1, <2>2, RecordReads
  <2>4. Numbered(file', turn') /\ \A k \in 1..Len(shelf') : Numbered(shelf'[k].file, turn')
    <3>1. \A i \in 1..Len(file') : i > Len(file) => file'[i].turn <= turn
      BY <1>1, <2>2 DEF Log!Record
    <3>2. Len(file) \in Nat /\ Len(file') \in Nat /\ turn' = turn /\ Len(file) <= Len(file)
      BY <1>1, <2>1
    <3>3. Numbered(file', turn')
      BY <1>3, <2>2, <3>1, <3>2, NumberedGrown
    <3>4. QED
      BY <1>3, <2>1, <3>2, <3>3
  <2>5. Apart'
    <3>1. ASSUME NEW m \in Log!Lengths(Log!Journal)'
          PROVE  \E p \in Log!Lengths(Log!Journal) : Turns(file', Log!Selected(file', m)) = Turns(file, Log!Selected(file, p))
                    /\ Log!StateOf(file', Log!Selected(file', m)) = Log!StateOf(file, Log!Selected(file, p))
      <4>1. CASE m = head'
        <5>1. Log!Selected(file, Len(file)) \in 0..Len(file)
          BY <1>1, <2>3 DEF Alike
        <5>2. Turns(file', Log!Selected(file, Len(file))) = Turns(file, Log!Selected(file, Len(file)))
          BY <1>1, <2>3, <5>1, TurnsAlike
        <5>3. Log!StateOf(file', Log!Selected(file, Len(file))) = Log!StateOf(file, Log!Selected(file, Len(file)))
          BY <2>3, <5>1 DEF Alike
        <5>4. QED
          BY <1>8, <2>3, <4>1, <5>2, <5>3
      <4>2. CASE m # head'
        <5>1. m \in 0..Len(file) /\ m \in Log!Lengths(Log!Journal)
          BY <1>1, <1>4, <2>1, <2>2, <4>2
        <5>2. Turns(file', Log!Selected(file', m)) = Turns(file, Log!Selected(file, m))
          BY <1>1, <2>3, <5>1, TurnsAlike
        <5>3. Log!StateOf(file', Log!Selected(file', m)) = Log!StateOf(file, Log!Selected(file, m))
          <6>1. Log!Selected(file, m) \in 0..Len(file)
                /\ Log!Selected(file', m) = Log!Selected(file, m)
            BY <1>1, <2>3, <5>1 DEF Alike
          <6>2. QED
            BY <2>3, <6>1 DEF Alike
        <5>4. QED
          BY <5>1, <5>2, <5>3
      <4>3. QED
        BY <4>1, <4>2
    <3>2. Turns(file', committed) = Turns(file, committed)
      BY <1>1, <2>3, TurnsAlike
    <3>3. QED
      BY <1>3, <2>1, <3>1, <3>2 DEF Apart
  <2>6. QED
    BY <1>3, <2>1, <2>4, <2>5 DEF PrivateInv
<1>12. CASE Log!Delegate
  <2>1. UNCHANGED <<file, synced, shelf, turn>>
    BY <1>12 DEF Log!Delegate, Log!diskVars, Log!turnVars
  <2>2. Numbered(file', turn') /\ (\A k \in 1..Len(shelf') : Numbered(shelf'[k].file, turn'))
    BY <1>3, <2>1 DEF Numbered
  <2>3. turnEdits' \subseteq 1..edits'
    BY <1>12, <1>1, <1>3, <2>1 DEF Log!Delegate
  <2>4. Apart'
    BY <1>12, <1>1, <1>2, <1>3, <1>4, <1>5, <1>6, <1>7, <2>1
    DEF Log!Delegate, Apart, Log!storeVars, Log!chatVars, Log!turnVars, Log!Free
  <2>5. QED
    BY <2>2, <2>3, <2>4 DEF PrivateInv
<1>13. CASE Log!RestoreChild
  <2>1. UNCHANGED <<file, synced, shelf, turn>>
    BY <1>13 DEF Log!RestoreChild, Log!diskVars, Log!turnVars
  <2>2. Numbered(file', turn') /\ (\A k \in 1..Len(shelf') : Numbered(shelf'[k].file, turn'))
    BY <1>3, <2>1 DEF Numbered
  <2>3. turnEdits' \subseteq 1..edits'
    BY <1>13, <1>1, <1>3, <2>1 DEF Log!RestoreChild
  <2>4. Apart'
    BY <1>13, <1>1, <1>2, <1>3, <1>4, <1>5, <1>6, <1>7, <2>1
    DEF Log!RestoreChild, Apart, Log!storeVars, Log!chatVars, Log!turnVars, Log!Free
  <2>5. QED
    BY <2>2, <2>3, <2>4 DEF PrivateInv
<1>13a. CASE Log!RestoreFails
  <2>1. UNCHANGED <<file, synced, shelf, turn>>
    BY <1>13a DEF Log!RestoreFails, Log!diskVars, Log!turnVars
  <2>2. Numbered(file', turn') /\ (\A k \in 1..Len(shelf') : Numbered(shelf'[k].file, turn'))
    BY <1>3, <2>1 DEF Numbered
  <2>3. turnEdits' \subseteq 1..edits'
    BY <1>13a, <1>1, <1>3, <2>1 DEF Log!RestoreFails
  <2>4. Apart'
    BY <1>13a, <1>1, <1>2, <1>3, <1>4, <1>5, <1>6, <1>7, <2>1
    DEF Log!RestoreFails, Apart, Log!storeVars, Log!chatVars, Log!turnVars, Log!Free
  <2>5. QED
    BY <2>2, <2>3, <2>4 DEF PrivateInv
<1>14. CASE Log!CommitTurn
  <2>1. /\ Log!BeginAppend("commit", "none", KindOf("commit"), head, live)
        /\ UNCHANGED <<edits, turn, turnEdits>>
        /\ io.op = "none" /\ up /\ up' = up /\ ~failed /\ ~failed' /\ head' = Len(file) + 1
        /\ UNCHANGED <<committed, shelf, synced>>
        /\ io'.op = "commit" /\ io'.owner = "none" /\ io'.previous = head
    BY <1>14 DEF Log!CommitTurn, KindOf, Log!BeginAppend, Log!Free, Log!turnVars
  <2>2. /\ head \in 0..Len(file) /\ live \in Values /\ published' \in SUBSET Nat
        /\ kept' \in Values
        /\ phase' = "committing"
    BY <1>14 DEF JournalTypes, StoreOK, DiskOK, ChatOK, Log!keptVars, Log!CommitTurn
  <2>3. ("commit" = "checkpoint" => "none" \in Owners) /\ "commit" = "commit" <=>
          phase' = "committing"
    BY <2>2
  <2>4. /\ DiskOK' /\ Len(file') = Len(file) + 1
        /\ (\A i \in 1..Len(file) : file'[i] = file[i])
        /\ file'[head'] = Log!Record(KindOf("commit"), head, live)
    BY <1>14, <1>2, <2>1, <2>2, <2>3, BeginTypes
  <2>5. Numbered(file', turn') /\ \A k \in 1..Len(shelf') : Numbered(shelf'[k].file, turn')
    <3>1. \A i \in 1..Len(file') : i > Len(file) => file'[i].turn <= turn
      BY <1>1, <2>1, <2>4 DEF Log!Record
    <3>2. Len(file) \in Nat /\ Len(file') \in Nat /\ turn' = turn /\ Len(file) <= Len(file)
      BY <1>1, <2>1
    <3>3. Numbered(file', turn')
      BY <1>3, <2>4, <3>1, <3>2, NumberedGrown
    <3>4. QED
      BY <1>3, <2>1, <3>2, <3>3
  <2>6. Apart'
    BY <2>2 DEF Apart
  <2>7. QED
    BY <1>3, <2>1, <2>5, <2>6 DEF PrivateInv
<1>15. CASE Log!CommitChild
  <2>1. /\ Len(file') = Len(file) + 2 /\ (\A i \in 1..Len(file) : file'[i] = file[i])
        /\ file'[Len(file) + 1] = Log!Record("message", head, Log!Blank)
        /\ file'[Len(file) + 2] = Log!Record("commit", Len(file) + 1, live)
    BY <1>15, ChildTypes
  <2>2. /\ UNCHANGED <<turn, shelf, edits, turnEdits>> /\ phase' = "committing"
    BY <1>15 DEF Log!CommitChild
  <2>3. Numbered(file', turn') /\ \A k \in 1..Len(shelf') : Numbered(shelf'[k].file, turn')
    <3>1. \A i \in 1..Len(file') : i > Len(file) => i = Len(file) + 1 \/ i = Len(file) + 2
      BY <1>1, <2>1
    <3>2. \A i \in 1..Len(file') : i > Len(file) => file'[i].turn <= turn
      BY <1>1, <2>1, <3>1 DEF Log!Record
    <3>3. Len(file) \in Nat /\ Len(file') \in Nat /\ turn' = turn /\ Len(file) <= Len(file)
      BY <1>1, <2>2
    <3>4. Numbered(file', turn')
      BY <1>3, <2>1, <3>2, <3>3, NumberedGrown
    <3>5. QED
      BY <1>3, <2>2, <3>4
  <2>4. QED
    BY <1>3, <2>2, <2>3 DEF PrivateInv, Apart
<1>16. CASE Log!CommitSynced
  <2>1. /\ io.op = "commit" /\ io'.op = "none"
        /\ UNCHANGED <<file, shelf, turn, edits, turnEdits, failed>> /\ Appending
        /\ synced' = Len(file)
    BY <1>16, <1>2, <1>5 DEF Log!CommitSynced, Log!Synced, Log!NoIo, Log!turnVars
  <2>2. Numbered(file', turn') /\ \A k \in 1..Len(shelf') : Numbered(shelf'[k].file, turn')
    BY <1>3, <2>1 DEF Numbered
  <2>3. Apart'
    BY <1>16 DEF Log!CommitSynced, Apart
  <2>4. QED
    BY <1>3, <2>1, <2>2, <2>3 DEF PrivateInv
<1>17. CASE Log!CommitFailed
  <2>1. Log!AppendFailed("commit") /\ UNCHANGED <<edits, Log!keptVars>>
        /\ phase' = (IF "commit" = "commit" THEN "finishing" ELSE phase)
        /\ UNCHANGED <<turn, turnEdits, shelf>>
    BY <1>17 DEF Log!CommitFailed, Log!turnVars, Log!AppendFailed
  <2>2. /\ Len(file') \in io.offset..Len(file) /\ io.offset \in Nat /\ failed' = TRUE
        /\ \A i \in 1..Len(file') : file'[i] = file[i]
    BY <1>2, <2>1, FailedReads, FailedTypes
  <2>3. Numbered(file', turn') /\ \A k \in 1..Len(shelf') : Numbered(shelf'[k].file, turn')
    <3>1. Len(file') <= Len(file)
      BY <1>1, <2>2
    <3>2. \A i \in 1..Len(file') : i \in 1..Len(file)
      BY <1>1, <3>1
    <3>3. QED
      BY <1>3, <2>1, <2>2, <3>2 DEF Numbered
  <2>4. QED
    BY <1>3, <2>1, <2>2, <2>3 DEF PrivateInv, Apart
<1>18. CASE Log!PublishDone
  <2>1. UNCHANGED <<file, synced, shelf, turn>>
    BY <1>18 DEF Log!PublishDone, Log!diskVars, Log!turnVars
  <2>2. Numbered(file', turn') /\ (\A k \in 1..Len(shelf') : Numbered(shelf'[k].file, turn'))
    BY <1>3, <2>1 DEF Numbered
  <2>3. turnEdits' \subseteq 1..edits'
    BY <1>18, <1>1, <1>3, <2>1 DEF Log!PublishDone
  <2>4. Apart'
    BY <1>18, <1>1, <1>2, <1>3, <1>4, <1>5, <1>6, <1>7, <2>1
    DEF Log!PublishDone, Apart, Log!storeVars, Log!chatVars, Log!turnVars, Log!Free
  <2>5. QED
    BY <2>2, <2>3, <2>4 DEF PrivateInv
<1>19. CASE Log!FailTurn
  <2>1. UNCHANGED <<file, synced, shelf, turn>>
    BY <1>19 DEF Log!FailTurn, Log!diskVars, Log!turnVars
  <2>2. Numbered(file', turn') /\ (\A k \in 1..Len(shelf') : Numbered(shelf'[k].file, turn'))
    BY <1>3, <2>1 DEF Numbered
  <2>3. turnEdits' \subseteq 1..edits'
    BY <1>19, <1>1, <1>3, <2>1 DEF Log!FailTurn
  <2>4. Apart'
    BY <1>19, <1>1, <1>2, <1>3, <1>4, <1>5, <1>6, <1>7, <2>1
    DEF Log!FailTurn, Apart, Log!storeVars, Log!chatVars, Log!turnVars, Log!Free
  <2>5. QED
    BY <2>2, <2>3, <2>4 DEF PrivateInv
<1>20. CASE Log!AppendFails
  <2>1. UNCHANGED <<file, synced, shelf, turn>>
    BY <1>20 DEF Log!AppendFails, Log!diskVars, Log!turnVars
  <2>2. Numbered(file', turn') /\ (\A k \in 1..Len(shelf') : Numbered(shelf'[k].file, turn'))
    BY <1>3, <2>1 DEF Numbered
  <2>3. turnEdits' \subseteq 1..edits'
    BY <1>20, <1>1, <1>3, <2>1 DEF Log!AppendFails
  <2>4. Apart'
    BY <1>20, <1>1, <1>2, <1>3, <1>4, <1>5, <1>6, <1>7, <2>1
    DEF Log!AppendFails, Apart, Log!storeVars, Log!chatVars, Log!turnVars, Log!Free
  <2>5. QED
    BY <2>2, <2>3, <2>4 DEF PrivateInv
<1>21. CASE Log!FinishTurn
  <2>1. UNCHANGED <<file, synced, shelf, turn>>
    BY <1>21 DEF Log!FinishTurn, Log!diskVars, Log!turnVars, Log!TurnOver
  <2>2. Numbered(file', turn') /\ (\A k \in 1..Len(shelf') : Numbered(shelf'[k].file, turn'))
    BY <1>3, <2>1 DEF Numbered
  <2>3. turnEdits' \subseteq 1..edits'
    BY <1>21, <1>1, <1>3, <2>1 DEF Log!FinishTurn, Log!TurnOver
  <2>4. Apart'
    BY <1>21, <1>1, <1>2, <1>3, <1>4, <1>5, <1>6, <1>7, <2>1
    DEF Log!FinishTurn, Apart, Log!storeVars, Log!chatVars, Log!turnVars, Log!Free, Log!TurnOver
  <2>5. QED
    BY <2>2, <2>3, <2>4 DEF PrivateInv
<1>22. ASSUME NEW o \in Owners, Log!PluginEdit(o) PROVE PrivateInv'
  <2>1. UNCHANGED <<file, synced, shelf, turn>>
    BY <1>22 DEF Log!PluginEdit, Log!diskVars, Log!turnVars
  <2>2. Numbered(file', turn') /\ (\A k \in 1..Len(shelf') : Numbered(shelf'[k].file, turn'))
    BY <1>3, <2>1 DEF Numbered
  <2>3. turnEdits' \subseteq 1..edits'
    BY <1>22, <1>1, <1>3, <2>1 DEF Log!PluginEdit
  <2>4. Apart'
    BY <1>22, <1>1, <1>2, <1>3, <1>4, <1>5, <1>6, <1>7, <2>1
    DEF Log!PluginEdit, Apart, Log!storeVars, Log!chatVars, Log!turnVars, Log!Free
  <2>5. QED
    BY <2>2, <2>3, <2>4 DEF PrivateInv
<1>23. ASSUME NEW o \in Owners, Log!ChildEdit(o) PROVE PrivateInv'
  <2>1. UNCHANGED <<file, synced, shelf, turn>>
    BY <1>23 DEF Log!ChildEdit, Log!diskVars, Log!turnVars
  <2>2. Numbered(file', turn') /\ (\A k \in 1..Len(shelf') : Numbered(shelf'[k].file, turn'))
    BY <1>3, <2>1 DEF Numbered
  <2>3. turnEdits' \subseteq 1..edits'
    BY <1>23, <1>1, <1>3, <2>1 DEF Log!ChildEdit
  <2>4. Apart'
    BY <1>23, <1>1, <1>2, <1>3, <1>4, <1>5, <1>6, <1>7, <2>1
    DEF Log!ChildEdit, Apart, Log!storeVars, Log!chatVars, Log!turnVars, Log!Free
  <2>5. QED
    BY <2>2, <2>3, <2>4 DEF PrivateInv
<1>24. ASSUME NEW o \in Owners, Log!CommandEdit(o) PROVE PrivateInv'
  <2>1. UNCHANGED <<file, synced, shelf, turn>>
    BY <1>24 DEF Log!CommandEdit, Log!diskVars, Log!turnVars
  <2>2. Numbered(file', turn') /\ (\A k \in 1..Len(shelf') : Numbered(shelf'[k].file, turn'))
    BY <1>3, <2>1 DEF Numbered
  <2>3. turnEdits' \subseteq 1..edits'
    BY <1>24, <1>1, <1>3, <2>1 DEF Log!CommandEdit
  <2>4. Apart'
    BY <1>24, <1>1, <1>2, <1>3, <1>4, <1>5, <1>6, <1>7, <2>1
    DEF Log!CommandEdit, Apart, Log!storeVars, Log!chatVars, Log!turnVars, Log!Free
  <2>5. QED
    BY <2>2, <2>3, <2>4 DEF PrivateInv
<1>25. ASSUME NEW o \in Owners, Log!Checkpoint(o) PROVE PrivateInv'
  <2>1. /\ Log!BeginAppend("checkpoint", o, KindOf("checkpoint"), committed, Log!Checkpointed(o))
        /\ UNCHANGED <<edits, turn, turnEdits>>
        /\ io.op = "none" /\ up /\ up' = up /\ ~failed /\ ~failed' /\ head' = Len(file) + 1
        /\ UNCHANGED <<committed, shelf, synced>>
        /\ io'.op = "checkpoint" /\ io'.owner = o /\ io'.previous = head
    BY <1>25 DEF Log!Checkpoint, KindOf, Log!BeginAppend, Log!Free, Log!turnVars
  <2>2. /\ committed \in 0..Len(file) /\ Log!Checkpointed(o) \in Values
        /\ published' \in SUBSET Nat /\ kept' \in Values
        /\ UNCHANGED <<phase, rollback, owners>>
    <3>1. Log!Checkpointed(o) \in Values
      BY <1>25 DEF Log!Checkpointed, Values, JournalTypes, ChatOK
    <3>2. kept' \in Values
      BY <1>25 DEF JournalTypes, DiskOK, Values, Log!Checkpoint, Log!BeginAppend
    <3>3. QED
      BY <1>25, <1>1, <3>1, <3>2 DEF JournalTypes, DiskOK, Log!keptVars, Log!Checkpoint, Log!turnVars,
                               Log!chatVars
  <2>3. phase' # "committing" /\ "checkpoint" # "commit" /\ "checkpoint" # "select"
    BY <2>1, <2>2 DEF JournalTypes, StoreOK
  <2>4. /\ DiskOK' /\ Len(file') = Len(file) + 1
        /\ (\A i \in 1..Len(file) : file'[i] = file[i])
        /\ file'[head'] = Log!Record(KindOf("checkpoint"), committed, Log!Checkpointed(o))
    BY <1>25, <1>2, <2>1, <2>2, <2>3, BeginTypes
  <2>5. Numbered(file', turn') /\ \A k \in 1..Len(shelf') : Numbered(shelf'[k].file, turn')
    <3>1. \A i \in 1..Len(file') : i > Len(file) => file'[i].turn <= turn
      BY <1>1, <2>1, <2>4 DEF Log!Record
    <3>2. Len(file) \in Nat /\ Len(file') \in Nat /\ turn' = turn /\ Len(file) <= Len(file)
      BY <1>1, <2>1
    <3>3. Numbered(file', turn')
      BY <1>3, <2>4, <3>1, <3>2, NumberedGrown
    <3>4. QED
      BY <1>3, <2>1, <3>2, <3>3
  <2>6. Apart'
    <3>1. /\ Alike(Len(file)) /\ Log!HistoryOf(file', head') = Log!HistoryOf(file, committed)
          /\ Log!Selected(file', head') = head' /\ Log!StateOf(file', head') = Log!Checkpointed(o)
      BY <1>1, <1>2, <2>1, <2>2, <2>4, BeginReads
    <3>2. Turns(file', head') = Turns(file, committed)
          /\ Turns(file', committed) = Turns(file, committed)
      BY <1>1, <3>1, TurnsSame, TurnsAlike
    <3>3. rollback # NoState => \A p \in Owners \ {o} : Log!Checkpointed(o)[p] = rollback[p]
      BY <1>6 DEF Log!Checkpointed, Values
    <3>4. ASSUME rollback # NoState, NEW m \in Log!Lengths(Log!Journal)'
          PROVE  /\ turn \notin Turns(file', Log!Selected(file', m))
                 /\ \A p \in Owners : Log!StateOf(file', Log!Selected(file', m))[p] \in turnEdits =>
                      p \in owners \/ p = o
      <4>1. CASE m = head'
        BY <1>3, <2>1, <2>2, <2>3, <3>1, <3>2, <3>3, <3>4, <4>1 DEF Apart
      <4>2. CASE m # head'
        <5>1. m \in 0..Len(file) /\ m \in Log!Lengths(Log!Journal)
          BY <1>1, <1>4, <2>1, <2>4, <4>2
        <5>2. Turns(file', Log!Selected(file', m)) = Turns(file, Log!Selected(file, m))
          BY <1>1, <3>1, <5>1, TurnsAlike
        <5>3. Log!StateOf(file', Log!Selected(file', m)) = Log!StateOf(file, Log!Selected(file, m))
          <6>1. Log!Selected(file, m) \in 0..Len(file)
                /\ Log!Selected(file', m) = Log!Selected(file, m)
            BY <1>1, <3>1, <5>1 DEF Alike
          <6>2. QED
            BY <3>1, <6>1 DEF Alike
        <5>4. QED
          BY <1>3, <2>1, <2>2, <2>3, <3>4, <5>1, <5>2, <5>3 DEF Apart
      <4>3. QED
        BY <4>1, <4>2
    <3>5. QED
      BY <1>3, <2>1, <2>2, <2>3, <3>2, <3>4 DEF Apart
  <2>7. QED
    BY <1>3, <2>1, <2>5, <2>6 DEF PrivateInv
<1>26. ASSUME NEW o \in Owners, Log!CheckpointRefused(o) PROVE PrivateInv'
  <2>1. UNCHANGED <<file, synced, shelf, turn>>
    BY <1>26 DEF Log!CheckpointRefused, Log!diskVars, Log!turnVars
  <2>2. Numbered(file', turn') /\ (\A k \in 1..Len(shelf') : Numbered(shelf'[k].file, turn'))
    BY <1>3, <2>1 DEF Numbered
  <2>3. turnEdits' \subseteq 1..edits'
    BY <1>26, <1>1, <1>3, <2>1 DEF Log!CheckpointRefused
  <2>4. Apart'
    BY <1>26, <1>1, <1>2, <1>3, <1>4, <1>5, <1>6, <1>7, <2>1
    DEF Log!CheckpointRefused, Apart, Log!storeVars, Log!chatVars, Log!turnVars, Log!Free
  <2>5. QED
    BY <2>2, <2>3, <2>4 DEF PrivateInv
<1>27. CASE Log!CheckpointSynced
  <2>1. /\ io.op = "checkpoint" /\ io'.op = "none"
        /\ UNCHANGED <<file, shelf, turn, edits, turnEdits, failed>> /\ Appending
        /\ synced' = Len(file)
    BY <1>27, <1>2, <1>5 DEF Log!CheckpointSynced, Log!Synced, Log!NoIo, Log!turnVars
  <2>2. Numbered(file', turn') /\ \A k \in 1..Len(shelf') : Numbered(shelf'[k].file, turn')
    BY <1>3, <2>1 DEF Numbered
  <2>3. Apart'
    <3>1. head = Len(file) /\ head \in 1..Len(file) /\ file[head].kind = "state"
      BY <1>1, <2>1 DEF Appending, JournalTypes, StoreOK, DiskOK, KindOf
    <3>2. Log!Selected(file, head) = head
      <4>1. "state" \in Log!Selections
        BY DEF Log!Selections
      <4>2. head - 1 \in Nat /\ (head - 1) + 1 = head
        BY <1>1, <3>1
      <4>3. QED
        BY <3>1, <4>1, <4>2, SelectedNext
    <3>3. /\ committed' = head /\ UNCHANGED phase /\ io.op # "commit"
          /\ rollback' = IF rollback = NoState THEN NoState ELSE file[head].state
          /\ owners' = IF rollback = NoState THEN owners ELSE owners \cup {io.owner}
      BY <1>27, <2>1 DEF Log!CheckpointSynced, Log!turnVars
    <3>4. Log!StateOf(file, head) = file[head].state /\ head \in Log!Lengths(Log!Journal)
      BY <1>1, <1>8, <3>1 DEF Log!StateOf
    <3>5. \A m \in Log!Lengths(Log!Journal)' : m = head
      BY <1>1, <1>4, <2>1, <3>1
    <3>6. phase # "committing"
      BY <1>5, <3>3
    <3>7. QED
      BY <1>3, <2>1, <3>2, <3>3, <3>4, <3>5, <3>6 DEF Apart
  <2>4. QED
    BY <1>3, <2>1, <2>2, <2>3 DEF PrivateInv
<1>28. CASE Log!CheckpointFailed
  <2>1. Log!AppendFailed("checkpoint") /\ UNCHANGED <<edits, Log!keptVars>>
        /\ phase' = (IF "checkpoint" = "commit" THEN "finishing" ELSE phase)
        /\ UNCHANGED <<turn, turnEdits, shelf>>
    BY <1>28 DEF Log!CheckpointFailed, Log!turnVars, Log!AppendFailed
  <2>2. /\ Len(file') \in io.offset..Len(file) /\ io.offset \in Nat /\ failed' = TRUE
        /\ \A i \in 1..Len(file') : file'[i] = file[i]
    BY <1>2, <2>1, FailedReads, FailedTypes
  <2>3. Numbered(file', turn') /\ \A k \in 1..Len(shelf') : Numbered(shelf'[k].file, turn')
    <3>1. Len(file') <= Len(file)
      BY <1>1, <2>2
    <3>2. \A i \in 1..Len(file') : i \in 1..Len(file)
      BY <1>1, <3>1
    <3>3. QED
      BY <1>3, <2>1, <2>2, <3>2 DEF Numbered
  <2>4. QED
    BY <1>3, <2>1, <2>2, <2>3 DEF PrivateInv, Apart
<1>29. ASSUME NEW e \in 1..MaxRecords, Log!Fork(e) PROVE PrivateInv'
  <2>1. /\ Log!BeginAppend("select", "none", KindOf("select"), e, file[e].state)
        /\ UNCHANGED <<edits, turn, turnEdits>>
        /\ io.op = "none" /\ up /\ up' = up /\ ~failed /\ ~failed' /\ head' = Len(file) + 1
        /\ UNCHANGED <<committed, shelf, synced>>
        /\ io'.op = "select" /\ io'.owner = "none" /\ io'.previous = head
    BY <1>29 DEF Log!Fork, KindOf, Log!BeginAppend, Log!Free, Log!turnVars
  <2>2. /\ e \in 0..Len(file) /\ file[e].state \in Values /\ published' \in SUBSET Nat
        /\ kept' \in Values
        /\ UNCHANGED <<phase, rollback>> /\ phase = "idle"
    <3>1. e \in 1..Len(file) /\ file[e] \in Entries
      BY <1>29 DEF Log!Fork, JournalTypes, DiskOK
    <3>2. file[e].state \in Values /\ Values' = Values
      BY <2>1, <3>1 DEF Entries, Values
    <3>3. QED
      BY <1>29, <1>1, <3>1, <3>2 DEF JournalTypes, DiskOK, Log!Fork, Log!turnVars,
                                     Log!BeginAppend, Log!Free
  <2>3. phase' # "committing" /\ "select" # "commit" /\ "select" # "checkpoint"
    BY <2>2
  <2>4. /\ DiskOK' /\ Len(file') = Len(file) + 1
        /\ (\A i \in 1..Len(file) : file'[i] = file[i])
        /\ file'[head'] = Log!Record(KindOf("select"), e, file[e].state)
    BY <1>29, <1>2, <2>1, <2>2, <2>3, BeginTypes
  <2>5. Numbered(file', turn') /\ \A k \in 1..Len(shelf') : Numbered(shelf'[k].file, turn')
    <3>1. \A i \in 1..Len(file') : i > Len(file) => file'[i].turn <= turn
      BY <1>1, <2>1, <2>4 DEF Log!Record
    <3>2. Len(file) \in Nat /\ Len(file') \in Nat /\ turn' = turn /\ Len(file) <= Len(file)
      BY <1>1, <2>1
    <3>3. Numbered(file', turn')
      BY <1>3, <2>4, <3>1, <3>2, NumberedGrown
    <3>4. QED
      BY <1>3, <2>1, <3>2, <3>3
  <2>6. Apart'
    BY <1>5, <2>2 DEF Apart
  <2>7. QED
    BY <1>3, <2>1, <2>5, <2>6 DEF PrivateInv
<1>30. CASE Log!ForkSynced
  <2>1. /\ io.op = "select" /\ io'.op = "none"
        /\ UNCHANGED <<file, shelf, turn, edits, turnEdits, failed>> /\ Appending
        /\ synced' = Len(file)
    BY <1>30, <1>2, <1>5 DEF Log!ForkSynced, Log!Synced, Log!NoIo, Log!turnVars
  <2>2. Numbered(file', turn') /\ \A k \in 1..Len(shelf') : Numbered(shelf'[k].file, turn')
    BY <1>3, <2>1 DEF Numbered
  <2>3. Apart'
    BY <1>30, <1>5, <2>1 DEF Log!ForkSynced, Apart, Log!chatVars
  <2>4. QED
    BY <1>3, <2>1, <2>2, <2>3 DEF PrivateInv
<1>31. CASE Log!ForkFailed
  <2>1. Log!AppendFailed("select") /\ UNCHANGED <<edits, Log!keptVars>>
        /\ phase' = (IF "select" = "commit" THEN "finishing" ELSE phase)
        /\ UNCHANGED <<turn, turnEdits, shelf>>
    BY <1>31 DEF Log!ForkFailed, Log!turnVars, Log!AppendFailed
  <2>2. /\ Len(file') \in io.offset..Len(file) /\ io.offset \in Nat /\ failed' = TRUE
        /\ \A i \in 1..Len(file') : file'[i] = file[i]
    BY <1>2, <2>1, FailedReads, FailedTypes
  <2>3. Numbered(file', turn') /\ \A k \in 1..Len(shelf') : Numbered(shelf'[k].file, turn')
    <3>1. Len(file') <= Len(file)
      BY <1>1, <2>2
    <3>2. \A i \in 1..Len(file') : i \in 1..Len(file)
      BY <1>1, <3>1
    <3>3. QED
      BY <1>3, <2>1, <2>2, <3>2 DEF Numbered
  <2>4. QED
    BY <1>3, <2>1, <2>2, <2>3 DEF PrivateInv, Apart
<1>32. CASE Log!Reset
  <2>1. /\ rollback' = NoState /\ UNCHANGED <<turn, edits, turnEdits>> /\ file' = <<>>
        /\ shelf' = Append(shelf, Log!Journal)
    BY <1>32, <1>5 DEF Log!Reset, Log!Settled, Log!turnVars
  <2>2. Len(shelf') = Len(shelf) + 1 /\ shelf'[Len(shelf) + 1] = Log!Journal
        /\ \A k \in 1..Len(shelf) : shelf'[k] = shelf[k]
    <3>1. Log!Journal \in Shelved /\ shelf \in Seq(Shelved)
      BY JournalShelved DEF JournalTypes, DiskOK
    <3>2. QED
      BY <2>1, <3>1, Appended
  <2>3. \A k \in 1..Len(shelf') : Numbered(shelf'[k].file, turn')
    <3>1. \A k \in 1..Len(shelf') : k \in 1..Len(shelf) \/ k = Len(shelf) + 1
      BY <1>1, <2>2
    <3>2. Log!Journal.file = file
      BY DEF Log!Journal
    <3>3. QED
      BY <1>3, <2>1, <2>2, <3>1, <3>2 DEF Numbered
  <2>4. Numbered(file', turn')
    BY <2>1 DEF Numbered
  <2>5. QED
    BY <1>3, <2>1, <2>3, <2>4 DEF PrivateInv, Apart
<1>33. CASE Log!ResetFails
  <2>1. /\ rollback' = NoState /\ UNCHANGED <<turn, edits, turnEdits, file, shelf>>
    BY <1>33, <1>5 DEF Log!ResetFails, Log!Settled, Log!turnVars, Log!diskVars
  <2>2. QED
    BY <1>3, <2>1 DEF PrivateInv, Apart, Numbered
<1>34. ASSUME NEW k \in 1..2, Log!Resume(k) PROVE PrivateInv'
  <2>1. /\ rollback' = NoState /\ UNCHANGED <<turn, edits, turnEdits>> /\ k \in DOMAIN shelf
        /\ file' = Log!Loaded(shelf[k]).file
        /\ shelf' = [shelf EXCEPT ![k] = Log!Journal]
    BY <1>34, <1>5 DEF Log!Resume, Log!Settled, Log!turnVars, Log!chatVars
  <2>2. k \in 1..Len(shelf) /\ shelf[k] \in Shelved /\ Readable(shelf[k])
        /\ Log!Journal.file = file
    BY <2>1 DEF JournalTypes, DiskOK, Log!Journal
  <2>3. Log!Loaded(shelf[k]).file = shelf[k].file
    BY <2>2, LoadedOK
  <2>4. Len(shelf') = Len(shelf)
        /\ \A i \in 1..Len(shelf) : shelf'[i] = IF i = k THEN Log!Journal ELSE shelf[i]
    BY <2>1, <2>2 DEF JournalTypes, DiskOK
  <2>5. Numbered(file', turn') /\ \A i \in 1..Len(shelf') : Numbered(shelf'[i].file, turn')
    BY <1>3, <2>1, <2>2, <2>3, <2>4 DEF Numbered
  <2>6. QED
    BY <1>3, <2>1, <2>5 DEF PrivateInv, Apart
<1>35. ASSUME NEW k \in 1..2, Log!ResumeFails(k) PROVE PrivateInv'
  <2>1. /\ rollback' = NoState /\ UNCHANGED <<turn, edits, turnEdits>> /\ k \in DOMAIN shelf
        /\ file' = file
        /\ shelf' = [shelf EXCEPT ![k] = Log!Loaded(shelf[k])]
    BY <1>35, <1>5 DEF Log!ResumeFails, Log!Settled, Log!turnVars, Log!chatVars
  <2>2. k \in 1..Len(shelf) /\ shelf[k] \in Shelved /\ Readable(shelf[k])
        /\ Log!Journal.file = file
    BY <2>1 DEF JournalTypes, DiskOK, Log!Journal
  <2>3. Log!Loaded(shelf[k]).file = shelf[k].file
    BY <2>2, LoadedOK
  <2>4. Len(shelf') = Len(shelf)
        /\ \A i \in 1..Len(shelf) : shelf'[i] = IF i = k THEN Log!Loaded(shelf[k]) ELSE shelf[i]
    BY <2>1, <2>2 DEF JournalTypes, DiskOK
  <2>5. Numbered(file', turn') /\ \A i \in 1..Len(shelf') : Numbered(shelf'[i].file, turn')
    BY <1>3, <2>1, <2>2, <2>3, <2>4 DEF Numbered
  <2>6. QED
    BY <1>3, <2>1, <2>5 DEF PrivateInv, Apart
<1>36. CASE Log!Crash
  <2>1. /\ rollback' = NoState /\ turn' = turn /\ edits' = edits /\ turnEdits' = {}
    BY <1>36 DEF Log!Crash, Log!TurnOver
  <2>2. PICK d \in Log!Cut(Log!Journal) : file' = d.file /\ torn' = d.torn
    BY <1>36 DEF Log!Crash
  <2>3. ASSUME NEW j \in Shelved, Readable(j), Numbered(j.file, turn), NEW c \in Log!Cut(j)
        PROVE  Numbered(c.file, turn)
    <3>1. /\ c \in Shelved /\ Len(c.file) \in Log!Lengths(j)
          /\ c.file = SubSeq(j.file, 1, Len(c.file))
      BY <2>3, CutOK
    <3>2. j.file \in Seq(Entries) /\ c.file \in Seq(Entries) /\ j.synced \in Nat
      BY <3>1 DEF Shelved
    <3>3. Len(c.file) \in 0..Len(j.file)
      BY <3>1, <3>2 DEF Log!Lengths
    <3>4. \A i \in 1..Len(c.file) : c.file[i] = j.file[i]
      BY <3>1, <3>2, <3>3, CutOff
    <3>5. QED
      BY <2>3, <3>2, <3>3, <3>4 DEF Numbered
  <2>4. Numbered(file', turn')
    <3>1. Numbered(d.file, turn)
      <4>1. Log!Journal \in Shelved /\ Readable(Log!Journal) /\ Log!Journal.file = file
        BY JournalShelved DEF JournalTypes, Log!Journal
      <4>2. QED
        BY <1>3, <2>3, <4>1
    <3>2. QED
      BY <2>1, <2>2, <3>1 DEF Numbered
  <2>5. DOMAIN shelf = 1..Len(shelf) /\ Len(shelf') = Len(shelf)
    <3>1. DOMAIN shelf' = DOMAIN shelf
      BY <1>36 DEF Log!Crash
    <3>2. DOMAIN shelf = 1..Len(shelf) /\ DOMAIN shelf' = 1..Len(shelf') /\ Len(shelf') \in Nat
      BY DEF JournalTypes, DiskOK
    <3>3. QED
      BY <1>1, <3>1, <3>2
  <2>6. ASSUME NEW k \in 1..Len(shelf)
        PROVE  Numbered(shelf'[k].file, turn)
    <3>1. shelf'[k] \in Log!Cut(shelf[k])
      BY <1>36, <2>5 DEF Log!Crash
    <3>2. shelf[k] \in Shelved /\ Readable(shelf[k]) /\ Numbered(shelf[k].file, turn)
      BY <1>3 DEF JournalTypes, DiskOK
    <3>3. QED
      BY <2>3, <3>1, <3>2
  <2>7. \A k \in 1..Len(shelf') : Numbered(shelf'[k].file, turn')
    BY <2>1, <2>5, <2>6 DEF Numbered
  <2>8. QED
    BY <2>1, <2>4, <2>7 DEF PrivateInv, Apart
<1>37. CASE Log!Reopen
  <2>1. /\ phase = "idle" /\ UNCHANGED <<turn, edits, turnEdits, file, shelf, rollback>>
    BY <1>37 DEF Log!Reopen, Log!turnVars, JournalTypes, StoreOK
  <2>2. QED
    BY <1>3, <1>5, <2>1 DEF PrivateInv, Apart, Numbered
<1>38. QED
  BY <1>9, <1>10, <1>11, <1>12, <1>13, <1>13a, <1>14, <1>15, <1>16, <1>17, <1>18, <1>19, <1>20, <1>21,
     <1>22,
     <1>23, <1>24, <1>25, <1>26, <1>27, <1>28, <1>29, <1>30, <1>31, <1>32, <1>33, <1>34, <1>35,
     <1>36, <1>37 DEF Log!Next

-----------------------------------------------------------------------------
(* The records of the journals can be counted.                               *)
Summed(w, i) == IF i = 0 THEN Len(file) ELSE w[i - 1] + Len(shelf[i].file)

LEMMA WrittenCounts ==
  ASSUME JournalTypes
  PROVE  Log!Written[Len(shelf)] \in Nat
<1> DEFINE n == Len(shelf)
           w == CHOOSE w : w = [i \in 0..n |-> IF i = 0 THEN Len(file) ELSE w[i - 1] + Len(shelf[i].file)]
           Has(m) == \E c : DOMAIN c = 0..m /\ \A i \in 0..m : c[i] = Summed(c, i)
           Bad == {m \in 0..n : ~ Has(m)}
<1>1. n \in Nat /\ Len(file) \in Nat /\ \A i \in 1..n : Len(shelf[i].file) \in Nat
  <2>1. file \in Seq(Entries) /\ shelf \in Seq(Shelved)
    BY DEF JournalTypes, DiskOK
  <2>2. n \in Nat /\ Len(file) \in Nat /\ \A i \in 1..n : shelf[i] \in Shelved
    BY <2>1
  <2>3. \A i \in 1..n : shelf[i].file \in Seq(Entries)
    BY <2>2 DEF Shelved
  <2>4. QED
    BY <2>2, <2>3
<1> HIDE DEF n
<1>2. Bad = {}
  <2> SUFFICES ASSUME Bad # {} PROVE FALSE
    OBVIOUS
  <2>1. PICK m \in Bad : \A k \in Bad : m <= k
    <3>1. Bad \subseteq Nat
      BY <1>1
    <3> HIDE DEF Bad
    <3>2. QED
      BY <3>1, Least
  <2>2. m # 0
    <3> DEFINE c == [i \in 0..0 |-> Len(file)]
    <3>1. DOMAIN c = 0..0 /\ \A i \in 0..0 : c[i] = Summed(c, i)
      BY DEF Summed
    <3>2. Has(0)
      BY <3>1
    <3>3. QED
      BY <3>2
  <2>3. m - 1 \in 0..n /\ m \in 1..n /\ m - 1 \notin Bad
    BY <1>1, <2>1, <2>2
  <2>4. PICK c : DOMAIN c = 0..(m - 1) /\ \A i \in 0..(m - 1) : c[i] = Summed(c, i)
    BY <2>3
  <2> DEFINE d == [i \in 0..m |-> IF i < m THEN c[i] ELSE Summed(c, m)]
  <2>5. \A i \in 0..(m - 1) : d[i] = c[i]
    BY <1>1, <2>3
  <2>6. d[m] = Summed(c, m) /\ DOMAIN d = 0..m
    BY <1>1, <2>3
  <2> HIDE DEF d
  <2>7. \A i \in 0..m : Summed(c, i) = Summed(d, i)
    BY <1>1, <2>3, <2>5 DEF Summed
  <2>8. \A i \in 0..m : d[i] = Summed(d, i)
    BY <1>1, <2>3, <2>4, <2>5, <2>6, <2>7
  <2>9. Has(m)
    BY <2>6, <2>8
  <2>10. QED
    BY <2>9
<1>3. PICK c : DOMAIN c = 0..n /\ \A i \in 0..n : c[i] = Summed(c, i)
  BY <1>1, <1>2
<1>4. \E d : d = [i \in 0..n |-> IF i = 0 THEN Len(file) ELSE d[i - 1] + Len(shelf[i].file)]
  <2> DEFINE d == [i \in 0..n |-> c[i]]
  <2>1. \A i \in 0..n : Summed(c, i) = Summed(d, i)
    BY <1>1 DEF Summed
  <2>2. d = [i \in 0..n |-> Summed(c, i)]
    BY <1>3
  <2>3. d = [i \in 0..n |-> Summed(d, i)]
    <3> HIDE DEF d
    <3>1. QED
      BY <2>1, <2>2, Zenon
  <2>4. QED
    BY <2>3 DEF Summed
<1>5. w = [i \in 0..n |-> IF i = 0 THEN Len(file) ELSE w[i - 1] + Len(shelf[i].file)]
  BY <1>4
<1>6. Log!Written[n] = w[n]
  BY DEF Log!Written, n
<1> HIDE DEF w, Bad, Has
<1>7. \A i \in 0..n : w[i] = Summed(w, i)
  <2> TAKE i \in 0..n
  <2>1. w[i] = IF i = 0 THEN Len(file) ELSE w[i - 1] + Len(shelf[i].file)
    BY <1>5, Zenon
  <2>2. QED
    BY <2>1 DEF Summed
<1> DEFINE Odd == {i \in 0..n : w[i] \notin Nat}
<1>8. Odd = {}
  <2> SUFFICES ASSUME Odd # {} PROVE FALSE
    OBVIOUS
  <2>1. PICK m \in Odd : \A k \in Odd : m <= k
    <3>1. Odd \subseteq Nat
      BY <1>1
    <3> HIDE DEF Odd
    <3>2. QED
      BY <3>1, Least
  <2>2. CASE m = 0
    BY <1>1, <1>7, <2>1, <2>2 DEF Summed
  <2>3. CASE m # 0
    <3>1. m - 1 \in 0..n /\ m \in 1..n /\ m - 1 \notin Odd
      BY <1>1, <2>1, <2>3
    <3>2. w[m] = w[m - 1] + Len(shelf[m].file)
      BY <1>7, <3>1 DEF Summed
    <3>3. QED
      BY <1>1, <2>1, <3>1, <3>2
  <2>4. QED
    BY <2>2, <2>3
<1>9. QED
  BY <1>1, <1>6, <1>8 DEF n

-----------------------------------------------------------------------------
(* The session and its journals.                                             *)
JournalInv == JournalTypes /\ KeptInv /\ PublishedInv /\ DurableInv /\ PrivateInv

LEMMA JournalInit == Log!Init => JournalInv
<1> SUFFICES ASSUME Log!Init PROVE JournalInv
  OBVIOUS
<1>1. /\ file = <<>> /\ synced = 0 /\ torn = FALSE /\ shelf = <<>> /\ head = 0 /\ committed = 0
      /\ io.op = "none" /\ history = <<>> /\ live = Log!Blank /\ rollback = NoState
      /\ phase = "idle"
      /\ turn = 0 /\ edits = 0 /\ turnEdits = {} /\ published = {} /\ kept = Log!Blank
  BY DEF Log!Init, Log!NoIo
<1>2. Log!Blank \in Values /\ \A o \in Owners : Log!Blank[o] = 0
  BY <1>1 DEF Log!Blank, Values
<1>3. Len(file) = 0 /\ Len(shelf) = 0 /\ file \in Seq(Entries) /\ shelf \in Seq(Shelved)
  BY <1>1
<1>4. Chained(file, Len(file)) /\ Len(file) \in Nat
  BY <1>3 DEF Chained
<1>5. Log!HistoryOf(file, 0) = <<>> /\ Log!Selected(file, 0) = 0
      /\ Log!StateOf(file, 0) = Log!Blank
  BY <1>4, HistoryChain, SelectedEmpty DEF Log!StateOf
<1>6. Log!Lengths(Log!Journal) = {0} /\ Log!Journal.file = file /\ Log!Journal.kept = Log!Blank
  BY <1>1, <1>3 DEF Log!Lengths, Log!Journal
<1>7. DiskOK
  <2>1. synced \in Nat /\ torn \in BOOLEAN /\ published \in SUBSET Nat /\ kept \in Values
    BY <1>1, <1>2
  <2>2. synced <= Len(file) /\ \A k \in 1..Len(shelf) : FALSE
    BY <1>1, <1>3
  <2>3. QED
    BY <1>3, <1>4, <2>1, <2>2 DEF DiskOK
<1>8. StoreOK
  <2>1. io \in [op : Log!Operations \cup {"none"}, owner : Owners \cup {"none"}, previous : Nat,
                offset : Nat, history : Seq(Nat), state : Values]
    BY <1>2 DEF Log!Init, Log!NoIo
  <2>2. head \in 0..Len(file) /\ committed \in 0..Len(file)
    BY <1>1, <1>3
  <2>3. up = TRUE /\ failed = FALSE
    BY DEF Log!Init
  <2>4. QED
    BY <1>1, <2>1, <2>2, <2>3 DEF StoreOK
<1>9. ChatOK
  <2>1. MaxEdits \in Nat /\ "idle" \in Log!Phases
    BY Bounds DEF Log!Phases
  <2>2. QED
    BY <1>1, <1>2, <2>1 DEF ChatOK, Log!Init
<1>10. KeptInv
  BY <1>1, <1>2, <1>3, <1>5, <1>6 DEF KeptInv, Keeps, MemoryKept, LiveKept, AtLeast, Log!StateAt
<1>11. PublishedInv
  BY <1>1, <1>3 DEF PublishedInv, HoldsOpen, MemoryHolds, Promised, Work
<1>12. DurableInv
  BY <1>1, <1>3, <1>5 DEF DurableInv, Level, Quiet, Undo, Spoken, Pending, Matches, Work
<1>13. PrivateInv
  BY <1>1, <1>3 DEF PrivateInv, Numbered, Apart
<1>14. QED
  BY <1>7, <1>8, <1>9, <1>10, <1>11, <1>12, <1>13 DEF JournalInv, JournalTypes

LEMMA JournalStep == JournalInv /\ Log!Next => JournalInv'
<1> SUFFICES ASSUME JournalInv, Log!Next PROVE JournalInv'
  OBVIOUS
<1>1. JournalTypes'
  BY TypesStep DEF JournalInv
<1>2. KeptInv'
  BY <1>1, KeptStep DEF JournalInv
<1>3. PublishedInv'
  BY <1>1, PublishedStep DEF JournalInv
<1>4. DurableInv'
  BY <1>1, DurableStep DEF JournalInv
<1>5. PrivateInv'
  BY <1>1, PrivateStep DEF JournalInv
<1>6. QED
  BY <1>1, <1>2, <1>3, <1>4, <1>5 DEF JournalInv

LEMMA AllKept == JournalInv => Log!CheckpointsKept
<1> SUFFICES ASSUME JournalInv PROVE Log!CheckpointsKept
  OBVIOUS
<1>1. ASSUME NEW j \in Log!Journals PROVE Keeps(j)
  <2>1. DOMAIN shelf = 1..Len(shelf)
    BY DEF JournalInv, JournalTypes, DiskOK
  <2>2. QED
    BY <2>1 DEF JournalInv, KeptInv, Log!Journals
<1>2. up => \A o \in Owners : Log!Undone(o) \/ live[o] >= kept[o]
  BY DEF JournalInv, KeptInv, MemoryKept, LiveKept
<1>3. QED
  BY <1>1, <1>2 DEF Log!CheckpointsKept, Keeps, AtLeast

LEMMA AllPublished == JournalInv => Log!PublishedSurvives
<1> SUFFICES ASSUME JournalInv, NEW j \in Log!Journals, NEW n \in Log!Lengths(j)
             PROVE  \A t \in j.published : \E i \in DOMAIN Log!HistoryAt(j, n) : Log!HistoryAt(j, n)[i] = t
  BY DEF Log!PublishedSurvives
<1>1. j.published \subseteq Turns(j.file, Log!Selected(j.file, n))
  <2>1. CASE j = Log!Journal
    <3>1. j.published = published /\ j.file = file /\ published \subseteq Promised
      BY <2>1 DEF Log!Journal, Promised
    <3>2. Promised \subseteq Turns(file, Log!Selected(file, n))
      BY <2>1 DEF JournalInv, PublishedInv, HoldsOpen
    <3>3. QED
      BY <3>1, <3>2
  <2>2. CASE j # Log!Journal
    <3>1. DOMAIN shelf = 1..Len(shelf)
      BY DEF JournalInv, JournalTypes, DiskOK
    <3>2. Holds(j)
      BY <2>2, <3>1 DEF JournalInv, PublishedInv, Log!Journals
    <3>3. QED
      BY <3>2 DEF Holds
  <2>3. QED
    BY <2>1, <2>2
<1>2. QED
  BY <1>1 DEF Turns, Log!HistoryAt

LEMMA AllPrivate == JournalInv => Log!TurnStaysPrivate
<1> SUFFICES ASSUME JournalInv, rollback # NoState, phase # "committing", ~failed,
                    NEW n \in Log!CrashLengths
             PROVE  /\ \A i \in DOMAIN Log!HistoryAt(Log!Journal, n) : Log!HistoryAt(Log!Journal, n)[i] # turn
                    /\ \A o \in Owners : Log!StateAt(Log!Journal, n)[o] \in turnEdits =>
                         o \in owners \cup {io.owner}
  BY DEF Log!TurnStaysPrivate
<1>1. Log!Journal.file = file /\ n \in Log!Lengths(Log!Journal)
  BY DEF Log!Journal, Log!CrashLengths
<1>2. /\ turn \notin Turns(file, Log!Selected(file, n))
      /\ \A o \in Owners : Log!StateOf(file, Log!Selected(file, n))[o] \in turnEdits =>
           o \in owners \/ (io.op = "checkpoint" /\ o = io.owner)
  BY <1>1 DEF JournalInv, PrivateInv, Apart
<1>3. QED
  BY <1>1, <1>2 DEF Turns, Log!HistoryAt, Log!StateAt

LEMMA AllDurable == JournalInv => Log!IdleMemoryIsDurable
<1> SUFFICES ASSUME JournalInv, up, phase = "idle", io.op = "none", ~failed, cmd = Log!Blank
             PROVE  /\ committed = Log!Selected(file, Len(file)) /\ head = committed
                    /\ history = Log!HistoryOf(file, committed)
                    /\ live = Log!StateOf(file, committed)
  BY DEF Log!IdleMemoryIsDurable
<1>1. rollback = NoState
  BY DEF JournalInv, JournalTypes, ChatOK
<1>2. /\ committed = Log!Selected(file, Len(file)) /\ head = committed
      /\ history = Log!HistoryOf(file, committed) /\ Matches(live, committed)
  BY <1>1 DEF JournalInv, DurableInv, Level, Quiet, Work
<1>3. \A o \in Owners : live[o] = Log!StateOf(file, committed)[o]
  BY <1>2 DEF Matches, Log!Blank
<1>4. live \in Values /\ Log!StateOf(file, committed) \in Values
  <2>1. file \in Seq(Entries) /\ Chained(file, Len(file)) /\ edits \in Nat /\ live \in Values
    BY DEF JournalInv, JournalTypes, DiskOK, ChatOK
  <2>2. QED
    BY <1>2, <2>1, SelectionRange
<1>5. live = Log!StateOf(file, committed)
  BY <1>3, <1>4 DEF Values
<1>6. QED
  BY <1>2, <1>5

-----------------------------------------------------------------------------
(* Every journal of MCWorkspace is one of those.                             *)

LEMMA JournalWidens ==
  ASSUME JournalTypes, Journal!Next
  PROVE  Log!Next
<1>1. Log!Written[Len(shelf)] \in Nat /\ MaxRecords \in Nat /\ MaxTurns \in Nat /\ MaxEdits \in Nat
  BY JournalBounds, WrittenCounts
<1>2. turn \in Nat /\ edits \in Nat
  BY DEF JournalTypes, ChatOK
<1>3. Journal!Written = Log!Written
  BY DEF Journal!Written, Log!Written
<1>4. /\ Journal!Delegate => Log!Delegate
      /\ Journal!RestoreChild => Log!RestoreChild
      /\ Journal!RestoreFails => Log!RestoreFails
      /\ Journal!CommitSynced => Log!CommitSynced
      /\ Journal!CommitFailed => Log!CommitFailed
      /\ Journal!PublishDone => Log!PublishDone
      /\ Journal!FailTurn => Log!FailTurn
      /\ Journal!AppendFails => Log!AppendFails
      /\ Journal!FinishTurn => Log!FinishTurn
      /\ Journal!CheckpointSynced => Log!CheckpointSynced
      /\ Journal!CheckpointFailed => Log!CheckpointFailed
      /\ Journal!ForkSynced => Log!ForkSynced
      /\ Journal!ForkFailed => Log!ForkFailed
      /\ Journal!ResetFails => Log!ResetFails
      /\ Journal!Reopen => Log!Reopen
      /\ Journal!Crash => Log!Crash
  BY DEF Journal!Delegate, Log!Delegate, Journal!diskVars, Log!diskVars, Journal!storeVars,
         Log!storeVars, Journal!chatVars, Log!chatVars, Journal!keptVars, Log!keptVars,
         Journal!RestoreFails, Log!RestoreFails,
         Journal!RestoreChild, Log!RestoreChild, Journal!Free, Log!Free, Journal!Returned,
         Log!Returned, Journal!CommitSynced, Log!CommitSynced, Journal!Synced, Log!Synced,
         Journal!NoIo, Log!NoIo, Journal!Blank, Log!Blank, Journal!CommitFailed,
         Log!CommitFailed, Journal!AppendFailed, Log!AppendFailed, Journal!PublishDone,
         Log!PublishDone, Journal!FailTurn, Log!FailTurn, Journal!AppendFails, Log!AppendFails,
         Journal!FinishTurn, Log!FinishTurn, Journal!TurnOver, Log!TurnOver,
         Journal!CheckpointSynced, Log!CheckpointSynced, Journal!turnVars, Log!turnVars,
         Journal!CheckpointFailed, Log!CheckpointFailed, Journal!ForkSynced, Log!ForkSynced,
         Journal!ForkFailed, Log!ForkFailed, Journal!ResetFails, Log!ResetFails,
         Journal!Settled, Log!Settled, Journal!Reopen, Log!Reopen, Journal!Loaded, Log!Loaded,
         Journal!Journal, Log!Journal, Journal!Selected, Log!Selected, Journal!Selections,
         Log!Selections, Journal!HistoryOf, Log!HistoryOf, Journal!StateOf, Log!StateOf,
         Journal!Crash, Log!Crash, Journal!Cut, Log!Cut, Journal!Lengths, Log!Lengths
<1>5. (Journal!Room => Log!Room) /\ (Log!Written[Len(shelf)] + 1 < MaxRecords - 2 => Log!Written[Len(shelf)] + 1 < MaxRecords)
  BY <1>1, <1>3 DEF Journal!Room, Log!Room
<1>6. /\ Journal!StartPrompt => Log!StartPrompt
      /\ Journal!AddHistory => Log!AddHistory
      /\ Journal!CommitTurn => Log!CommitTurn
      /\ Journal!CommitChild => Log!CommitChild
  BY <1>3, <1>5 DEF Journal!StartPrompt, Log!StartPrompt, Journal!AppendRecord,
         Log!AppendRecord, Journal!Free, Log!Free, Journal!Record, Log!Record, Journal!Blank,
         Log!Blank, Journal!chatVars, Log!chatVars, Journal!keptVars, Log!keptVars,
         Journal!AddHistory, Log!AddHistory, Journal!turnVars, Log!turnVars, Journal!CommitTurn,
         Log!CommitTurn, Journal!BeginAppend, Log!BeginAppend, Journal!CommitChild,
         Log!CommitChild
<1>7. Journal!BeginTurn => Log!BeginTurn
  BY <1>1, <1>2 DEF Journal!BeginTurn, Log!BeginTurn, Journal!Free, Log!Free, Journal!diskVars,
         Log!diskVars, Journal!storeVars, Log!storeVars, Journal!keptVars, Log!keptVars
<1>8. ASSUME NEW o \in Owners
      PROVE  /\ Journal!PluginEdit(o) => Log!PluginEdit(o)
             /\ Journal!ChildEdit(o) => Log!ChildEdit(o)
             /\ Journal!CommandEdit(o) => Log!CommandEdit(o)
             /\ Journal!Checkpoint(o) => Log!Checkpoint(o)
             /\ Journal!CheckpointRefused(o) => Log!CheckpointRefused(o)
  BY <1>1, <1>2, <1>5 DEF Journal!PluginEdit, Log!PluginEdit, Journal!diskVars, Log!diskVars,
         Journal!storeVars, Log!storeVars, Journal!turnVars, Log!turnVars, Journal!keptVars,
         Log!keptVars, Journal!ChildEdit, Log!ChildEdit, Journal!chatVars, Log!chatVars,
         Journal!CommandEdit, Log!CommandEdit, Journal!Checkpoint, Log!Checkpoint, Journal!Undone, Log!Undone,
         Journal!BeginAppend, Log!BeginAppend, Journal!Free, Log!Free, Journal!Record,
         Log!Record, Journal!Checkpointed, Log!Checkpointed, Journal!CheckpointRefused,
         Log!CheckpointRefused
<1>9. ASSUME NEW e, Journal!Fork(e)
      PROVE  Log!Fork(e)
  BY <1>9, <1>5 DEF Journal!Fork, Log!Fork, Journal!Blank, Log!Blank, Journal!BeginAppend,
         Log!BeginAppend, Journal!Free, Log!Free, Journal!Record, Log!Record, Journal!HistoryOf,
         Log!HistoryOf, Journal!turnVars, Log!turnVars
<1>10. Journal!Reset => Log!Reset
  BY DEF Journal!Reset, Log!Reset, Journal!Settled, Log!Settled, Journal!Blank, Log!Blank,
         Journal!Free, Log!Free, Journal!Journal, Log!Journal, Journal!turnVars, Log!turnVars
<1>11. ASSUME NEW k
      PROVE  (Journal!Resume(k) => Log!Resume(k)) /\ (Journal!ResumeFails(k) => Log!ResumeFails(k))
  BY DEF Journal!Resume, Log!Resume, Journal!Settled, Log!Settled, Journal!Blank, Log!Blank,
         Journal!Free, Log!Free, Journal!Loaded, Log!Loaded, Journal!Journal, Log!Journal,
         Journal!Selected, Log!Selected, Journal!Selections, Log!Selections, Journal!HistoryOf,
         Log!HistoryOf, Journal!StateOf, Log!StateOf, Journal!turnVars, Log!turnVars,
         Journal!ResumeFails, Log!ResumeFails, Journal!storeVars, Log!storeVars,
         Journal!chatVars, Log!chatVars, Journal!keptVars, Log!keptVars
<1>12. 1..(MaxRecords - 2) \subseteq 1..MaxRecords /\ 1..1 \subseteq 1..2
  BY <1>1
<1>13. QED
  BY <1>4, <1>5, <1>6, <1>7, <1>8, <1>9, <1>10, <1>11, <1>12 DEF Journal!Next, Log!Next

LEMMA EditedWidens ==
  ASSUME JournalTypes, Edited!Next
  PROVE  Log!Next
<1>1. Log!Written[Len(shelf)] \in Nat /\ MaxRecords \in Nat /\ MaxTurns \in Nat /\ MaxEdits \in Nat
  BY JournalBounds, WrittenCounts
<1>2. turn \in Nat /\ edits \in Nat
  BY DEF JournalTypes, ChatOK
<1>3. Edited!Written = Log!Written
  BY DEF Edited!Written, Log!Written
<1>4. /\ Edited!Delegate => Log!Delegate
      /\ Edited!RestoreChild => Log!RestoreChild
      /\ Edited!RestoreFails => Log!RestoreFails
      /\ Edited!CommitSynced => Log!CommitSynced
      /\ Edited!CommitFailed => Log!CommitFailed
      /\ Edited!PublishDone => Log!PublishDone
      /\ Edited!FailTurn => Log!FailTurn
      /\ Edited!AppendFails => Log!AppendFails
      /\ Edited!FinishTurn => Log!FinishTurn
      /\ Edited!CheckpointSynced => Log!CheckpointSynced
      /\ Edited!CheckpointFailed => Log!CheckpointFailed
      /\ Edited!ForkSynced => Log!ForkSynced
      /\ Edited!ForkFailed => Log!ForkFailed
      /\ Edited!ResetFails => Log!ResetFails
      /\ Edited!Reopen => Log!Reopen
      /\ Edited!Crash => Log!Crash
  BY DEF Edited!Delegate, Log!Delegate, Edited!diskVars, Log!diskVars, Edited!storeVars,
         Log!storeVars, Edited!chatVars, Log!chatVars, Edited!keptVars, Log!keptVars,
         Edited!RestoreFails, Log!RestoreFails,
         Edited!RestoreChild, Log!RestoreChild, Edited!Free, Log!Free, Edited!Returned,
         Log!Returned, Edited!CommitSynced, Log!CommitSynced, Edited!Synced, Log!Synced,
         Edited!NoIo, Log!NoIo, Edited!Blank, Log!Blank, Edited!CommitFailed, Log!CommitFailed,
         Edited!AppendFailed, Log!AppendFailed, Edited!PublishDone, Log!PublishDone,
         Edited!FailTurn, Log!FailTurn, Edited!AppendFails, Log!AppendFails, Edited!FinishTurn,
         Log!FinishTurn, Edited!TurnOver, Log!TurnOver, Edited!CheckpointSynced,
         Log!CheckpointSynced, Edited!turnVars, Log!turnVars, Edited!CheckpointFailed,
         Log!CheckpointFailed, Edited!ForkSynced, Log!ForkSynced, Edited!ForkFailed,
         Log!ForkFailed, Edited!ResetFails, Log!ResetFails, Edited!Settled, Log!Settled,
         Edited!Reopen, Log!Reopen, Edited!Loaded, Log!Loaded, Edited!Journal, Log!Journal,
         Edited!Selected, Log!Selected, Edited!Selections, Log!Selections, Edited!HistoryOf,
         Log!HistoryOf, Edited!StateOf, Log!StateOf, Edited!Crash, Log!Crash, Edited!Cut,
         Log!Cut, Edited!Lengths, Log!Lengths
<1>5. (Edited!Room => Log!Room) /\ (Log!Written[Len(shelf)] + 1 < MaxRecords => Log!Written[Len(shelf)] + 1 < MaxRecords)
  BY <1>1, <1>3 DEF Edited!Room, Log!Room
<1>6. /\ Edited!StartPrompt => Log!StartPrompt
      /\ Edited!AddHistory => Log!AddHistory
      /\ Edited!CommitTurn => Log!CommitTurn
      /\ Edited!CommitChild => Log!CommitChild
  BY <1>3, <1>5 DEF Edited!StartPrompt, Log!StartPrompt, Edited!AppendRecord, Log!AppendRecord,
         Edited!Free, Log!Free, Edited!Record, Log!Record, Edited!Blank, Log!Blank,
         Edited!chatVars, Log!chatVars, Edited!keptVars, Log!keptVars, Edited!AddHistory,
         Log!AddHistory, Edited!turnVars, Log!turnVars, Edited!CommitTurn, Log!CommitTurn,
         Edited!BeginAppend, Log!BeginAppend, Edited!CommitChild, Log!CommitChild
<1>7. Edited!BeginTurn => Log!BeginTurn
  BY <1>1, <1>2 DEF Edited!BeginTurn, Log!BeginTurn, Edited!Free, Log!Free, Edited!diskVars,
         Log!diskVars, Edited!storeVars, Log!storeVars, Edited!keptVars, Log!keptVars
<1>8. ASSUME NEW o \in Owners
      PROVE  /\ Edited!PluginEdit(o) => Log!PluginEdit(o)
             /\ Edited!ChildEdit(o) => Log!ChildEdit(o)
             /\ Edited!CommandEdit(o) => Log!CommandEdit(o)
             /\ Edited!Checkpoint(o) => Log!Checkpoint(o)
             /\ Edited!CheckpointRefused(o) => Log!CheckpointRefused(o)
  BY <1>1, <1>2, <1>5 DEF Edited!PluginEdit, Log!PluginEdit, Edited!diskVars, Log!diskVars,
         Edited!storeVars, Log!storeVars, Edited!turnVars, Log!turnVars, Edited!keptVars,
         Log!keptVars, Edited!ChildEdit, Log!ChildEdit, Edited!chatVars, Log!chatVars,
         Edited!CommandEdit, Log!CommandEdit, Edited!Checkpoint, Log!Checkpoint, Edited!Undone, Log!Undone,
         Edited!BeginAppend, Log!BeginAppend, Edited!Free, Log!Free, Edited!Record, Log!Record,
         Edited!Checkpointed, Log!Checkpointed, Edited!CheckpointRefused, Log!CheckpointRefused
<1>9. ASSUME NEW e, Edited!Fork(e)
      PROVE  Log!Fork(e)
  BY <1>9, <1>5 DEF Edited!Fork, Log!Fork, Edited!Blank, Log!Blank, Edited!BeginAppend,
         Log!BeginAppend, Edited!Free, Log!Free, Edited!Record, Log!Record, Edited!HistoryOf,
         Log!HistoryOf, Edited!turnVars, Log!turnVars
<1>10. Edited!Reset => Log!Reset
  BY DEF Edited!Reset, Log!Reset, Edited!Settled, Log!Settled, Edited!Blank, Log!Blank,
         Edited!Free, Log!Free, Edited!Journal, Log!Journal, Edited!turnVars, Log!turnVars
<1>11. ASSUME NEW k
      PROVE  (Edited!Resume(k) => Log!Resume(k)) /\ (Edited!ResumeFails(k) => Log!ResumeFails(k))
  BY DEF Edited!Resume, Log!Resume, Edited!Settled, Log!Settled, Edited!Blank, Log!Blank,
         Edited!Free, Log!Free, Edited!Loaded, Log!Loaded, Edited!Journal, Log!Journal,
         Edited!Selected, Log!Selected, Edited!Selections, Log!Selections, Edited!HistoryOf,
         Log!HistoryOf, Edited!StateOf, Log!StateOf, Edited!turnVars, Log!turnVars,
         Edited!ResumeFails, Log!ResumeFails, Edited!storeVars, Log!storeVars, Edited!chatVars,
         Log!chatVars, Edited!keptVars, Log!keptVars
<1>12. 1..MaxRecords \subseteq 1..MaxRecords /\ 1..1 \subseteq 1..2
  BY <1>1
<1>13. QED
  BY <1>4, <1>5, <1>6, <1>7, <1>8, <1>9, <1>10, <1>11, <1>12 DEF Edited!Next, Log!Next

LEMMA LongWidens ==
  ASSUME JournalTypes, Long!Next
  PROVE  Log!Next
<1>1. Log!Written[Len(shelf)] \in Nat /\ MaxRecords \in Nat /\ MaxTurns \in Nat /\ MaxEdits \in Nat
  BY JournalBounds, WrittenCounts
<1>2. turn \in Nat /\ edits \in Nat
  BY DEF JournalTypes, ChatOK
<1>3. Long!Written = Log!Written
  BY DEF Long!Written, Log!Written
<1>4. /\ Long!Delegate => Log!Delegate
      /\ Long!RestoreChild => Log!RestoreChild
      /\ Long!RestoreFails => Log!RestoreFails
      /\ Long!CommitSynced => Log!CommitSynced
      /\ Long!CommitFailed => Log!CommitFailed
      /\ Long!PublishDone => Log!PublishDone
      /\ Long!FailTurn => Log!FailTurn
      /\ Long!AppendFails => Log!AppendFails
      /\ Long!FinishTurn => Log!FinishTurn
      /\ Long!CheckpointSynced => Log!CheckpointSynced
      /\ Long!CheckpointFailed => Log!CheckpointFailed
      /\ Long!ForkSynced => Log!ForkSynced
      /\ Long!ForkFailed => Log!ForkFailed
      /\ Long!ResetFails => Log!ResetFails
      /\ Long!Reopen => Log!Reopen
      /\ Long!Crash => Log!Crash
  BY DEF Long!Delegate, Log!Delegate, Long!diskVars, Log!diskVars, Long!storeVars,
         Log!storeVars, Long!chatVars, Log!chatVars, Long!keptVars, Log!keptVars,
         Long!RestoreFails, Log!RestoreFails,
         Long!RestoreChild, Log!RestoreChild, Long!Free, Log!Free, Long!Returned, Log!Returned,
         Long!CommitSynced, Log!CommitSynced, Long!Synced, Log!Synced, Long!NoIo, Log!NoIo,
         Long!Blank, Log!Blank, Long!CommitFailed, Log!CommitFailed, Long!AppendFailed,
         Log!AppendFailed, Long!PublishDone, Log!PublishDone, Long!FailTurn, Log!FailTurn,
         Long!AppendFails, Log!AppendFails, Long!FinishTurn, Log!FinishTurn, Long!TurnOver,
         Log!TurnOver, Long!CheckpointSynced, Log!CheckpointSynced, Long!turnVars, Log!turnVars,
         Long!CheckpointFailed, Log!CheckpointFailed, Long!ForkSynced, Log!ForkSynced,
         Long!ForkFailed, Log!ForkFailed, Long!ResetFails, Log!ResetFails, Long!Settled,
         Log!Settled, Long!Reopen, Log!Reopen, Long!Loaded, Log!Loaded, Long!Journal,
         Log!Journal, Long!Selected, Log!Selected, Long!Selections, Log!Selections,
         Long!HistoryOf, Log!HistoryOf, Long!StateOf, Log!StateOf, Long!Crash, Log!Crash,
         Long!Cut, Log!Cut, Long!Lengths, Log!Lengths
<1>5. (Long!Room => Log!Room) /\ (Log!Written[Len(shelf)] + 1 < MaxRecords => Log!Written[Len(shelf)] + 1 < MaxRecords)
  BY <1>1, <1>3 DEF Long!Room, Log!Room
<1>6. /\ Long!StartPrompt => Log!StartPrompt
      /\ Long!AddHistory => Log!AddHistory
      /\ Long!CommitTurn => Log!CommitTurn
      /\ Long!CommitChild => Log!CommitChild
  BY <1>3, <1>5 DEF Long!StartPrompt, Log!StartPrompt, Long!AppendRecord, Log!AppendRecord,
         Long!Free, Log!Free, Long!Record, Log!Record, Long!Blank, Log!Blank, Long!chatVars,
         Log!chatVars, Long!keptVars, Log!keptVars, Long!AddHistory, Log!AddHistory,
         Long!turnVars, Log!turnVars, Long!CommitTurn, Log!CommitTurn, Long!BeginAppend,
         Log!BeginAppend, Long!CommitChild, Log!CommitChild
<1>7. Long!BeginTurn => Log!BeginTurn
  BY <1>1, <1>2 DEF Long!BeginTurn, Log!BeginTurn, Long!Free, Log!Free, Long!diskVars,
         Log!diskVars, Long!storeVars, Log!storeVars, Long!keptVars, Log!keptVars
<1>8. ASSUME NEW o \in Owners
      PROVE  /\ Long!PluginEdit(o) => Log!PluginEdit(o)
             /\ Long!ChildEdit(o) => Log!ChildEdit(o)
             /\ Long!CommandEdit(o) => Log!CommandEdit(o)
             /\ Long!Checkpoint(o) => Log!Checkpoint(o)
             /\ Long!CheckpointRefused(o) => Log!CheckpointRefused(o)
  BY <1>1, <1>2, <1>5 DEF Long!PluginEdit, Log!PluginEdit, Long!diskVars, Log!diskVars,
         Long!storeVars, Log!storeVars, Long!turnVars, Log!turnVars, Long!keptVars,
         Log!keptVars, Long!ChildEdit, Log!ChildEdit, Long!chatVars, Log!chatVars,
         Long!CommandEdit, Log!CommandEdit, Long!Checkpoint, Log!Checkpoint, Long!Undone, Log!Undone, Long!BeginAppend,
         Log!BeginAppend, Long!Free, Log!Free, Long!Record, Log!Record, Long!Checkpointed,
         Log!Checkpointed, Long!CheckpointRefused, Log!CheckpointRefused
<1>9. ASSUME NEW e, Long!Fork(e)
      PROVE  Log!Fork(e)
  BY <1>9, <1>5 DEF Long!Fork, Log!Fork, Long!Blank, Log!Blank, Long!BeginAppend,
         Log!BeginAppend, Long!Free, Log!Free, Long!Record, Log!Record, Long!HistoryOf,
         Log!HistoryOf, Long!turnVars, Log!turnVars
<1>10. Long!Reset => Log!Reset
  BY DEF Long!Reset, Log!Reset, Long!Settled, Log!Settled, Long!Blank, Log!Blank, Long!Free,
         Log!Free, Long!Journal, Log!Journal, Long!turnVars, Log!turnVars
<1>11. ASSUME NEW k
      PROVE  (Long!Resume(k) => Log!Resume(k)) /\ (Long!ResumeFails(k) => Log!ResumeFails(k))
  BY DEF Long!Resume, Log!Resume, Long!Settled, Log!Settled, Long!Blank, Log!Blank, Long!Free,
         Log!Free, Long!Loaded, Log!Loaded, Long!Journal, Log!Journal, Long!Selected,
         Log!Selected, Long!Selections, Log!Selections, Long!HistoryOf, Log!HistoryOf,
         Long!StateOf, Log!StateOf, Long!turnVars, Log!turnVars, Long!ResumeFails,
         Log!ResumeFails, Long!storeVars, Log!storeVars, Long!chatVars, Log!chatVars,
         Long!keptVars, Log!keptVars
<1>12. 1..MaxRecords \subseteq 1..MaxRecords /\ 1..1 \subseteq 1..2
  BY <1>1
<1>13. QED
  BY <1>4, <1>5, <1>6, <1>7, <1>8, <1>9, <1>10, <1>11, <1>12 DEF Long!Next, Log!Next

LEMMA MovingWidens ==
  ASSUME JournalTypes, Moving!Next
  PROVE  Log!Next
<1>1. Log!Written[Len(shelf)] \in Nat /\ MaxRecords \in Nat /\ MaxTurns \in Nat /\ MaxEdits \in Nat
  BY JournalBounds, WrittenCounts
<1>2. turn \in Nat /\ edits \in Nat
  BY DEF JournalTypes, ChatOK
<1>3. Moving!Written = Log!Written
  BY DEF Moving!Written, Log!Written
<1>4. /\ Moving!Delegate => Log!Delegate
      /\ Moving!RestoreChild => Log!RestoreChild
      /\ Moving!RestoreFails => Log!RestoreFails
      /\ Moving!CommitSynced => Log!CommitSynced
      /\ Moving!CommitFailed => Log!CommitFailed
      /\ Moving!PublishDone => Log!PublishDone
      /\ Moving!FailTurn => Log!FailTurn
      /\ Moving!AppendFails => Log!AppendFails
      /\ Moving!FinishTurn => Log!FinishTurn
      /\ Moving!CheckpointSynced => Log!CheckpointSynced
      /\ Moving!CheckpointFailed => Log!CheckpointFailed
      /\ Moving!ForkSynced => Log!ForkSynced
      /\ Moving!ForkFailed => Log!ForkFailed
      /\ Moving!ResetFails => Log!ResetFails
      /\ Moving!Reopen => Log!Reopen
      /\ Moving!Crash => Log!Crash
  BY DEF Moving!Delegate, Log!Delegate, Moving!diskVars, Log!diskVars, Moving!storeVars,
         Log!storeVars, Moving!chatVars, Log!chatVars, Moving!keptVars, Log!keptVars,
         Moving!RestoreFails, Log!RestoreFails,
         Moving!RestoreChild, Log!RestoreChild, Moving!Free, Log!Free, Moving!Returned,
         Log!Returned, Moving!CommitSynced, Log!CommitSynced, Moving!Synced, Log!Synced,
         Moving!NoIo, Log!NoIo, Moving!Blank, Log!Blank, Moving!CommitFailed, Log!CommitFailed,
         Moving!AppendFailed, Log!AppendFailed, Moving!PublishDone, Log!PublishDone,
         Moving!FailTurn, Log!FailTurn, Moving!AppendFails, Log!AppendFails, Moving!FinishTurn,
         Log!FinishTurn, Moving!TurnOver, Log!TurnOver, Moving!CheckpointSynced,
         Log!CheckpointSynced, Moving!turnVars, Log!turnVars, Moving!CheckpointFailed,
         Log!CheckpointFailed, Moving!ForkSynced, Log!ForkSynced, Moving!ForkFailed,
         Log!ForkFailed, Moving!ResetFails, Log!ResetFails, Moving!Settled, Log!Settled,
         Moving!Reopen, Log!Reopen, Moving!Loaded, Log!Loaded, Moving!Journal, Log!Journal,
         Moving!Selected, Log!Selected, Moving!Selections, Log!Selections, Moving!HistoryOf,
         Log!HistoryOf, Moving!StateOf, Log!StateOf, Moving!Crash, Log!Crash, Moving!Cut,
         Log!Cut, Moving!Lengths, Log!Lengths
<1>5. (Moving!Room => Log!Room) /\ (Log!Written[Len(shelf)] + 1 < MaxRecords - 1 => Log!Written[Len(shelf)] + 1 < MaxRecords)
  BY <1>1, <1>3 DEF Moving!Room, Log!Room
<1>6. /\ Moving!StartPrompt => Log!StartPrompt
      /\ Moving!AddHistory => Log!AddHistory
      /\ Moving!CommitTurn => Log!CommitTurn
      /\ Moving!CommitChild => Log!CommitChild
  BY <1>3, <1>5 DEF Moving!StartPrompt, Log!StartPrompt, Moving!AppendRecord, Log!AppendRecord,
         Moving!Free, Log!Free, Moving!Record, Log!Record, Moving!Blank, Log!Blank,
         Moving!chatVars, Log!chatVars, Moving!keptVars, Log!keptVars, Moving!AddHistory,
         Log!AddHistory, Moving!turnVars, Log!turnVars, Moving!CommitTurn, Log!CommitTurn,
         Moving!BeginAppend, Log!BeginAppend, Moving!CommitChild, Log!CommitChild
<1>7. Moving!BeginTurn => Log!BeginTurn
  BY <1>1, <1>2 DEF Moving!BeginTurn, Log!BeginTurn, Moving!Free, Log!Free, Moving!diskVars,
         Log!diskVars, Moving!storeVars, Log!storeVars, Moving!keptVars, Log!keptVars
<1>8. ASSUME NEW o \in Owners
      PROVE  /\ Moving!PluginEdit(o) => Log!PluginEdit(o)
             /\ Moving!ChildEdit(o) => Log!ChildEdit(o)
             /\ Moving!CommandEdit(o) => Log!CommandEdit(o)
             /\ Moving!Checkpoint(o) => Log!Checkpoint(o)
             /\ Moving!CheckpointRefused(o) => Log!CheckpointRefused(o)
  BY <1>1, <1>2, <1>5 DEF Moving!PluginEdit, Log!PluginEdit, Moving!diskVars, Log!diskVars,
         Moving!storeVars, Log!storeVars, Moving!turnVars, Log!turnVars, Moving!keptVars,
         Log!keptVars, Moving!ChildEdit, Log!ChildEdit, Moving!chatVars, Log!chatVars,
         Moving!CommandEdit, Log!CommandEdit, Moving!Checkpoint, Log!Checkpoint, Moving!Undone, Log!Undone,
         Moving!BeginAppend, Log!BeginAppend, Moving!Free, Log!Free, Moving!Record, Log!Record,
         Moving!Checkpointed, Log!Checkpointed, Moving!CheckpointRefused, Log!CheckpointRefused
<1>9. ASSUME NEW e, Moving!Fork(e)
      PROVE  Log!Fork(e)
  BY <1>9, <1>5 DEF Moving!Fork, Log!Fork, Moving!Blank, Log!Blank, Moving!BeginAppend,
         Log!BeginAppend, Moving!Free, Log!Free, Moving!Record, Log!Record, Moving!HistoryOf,
         Log!HistoryOf, Moving!turnVars, Log!turnVars
<1>10. Moving!Reset => Log!Reset
  BY DEF Moving!Reset, Log!Reset, Moving!Settled, Log!Settled, Moving!Blank, Log!Blank,
         Moving!Free, Log!Free, Moving!Journal, Log!Journal, Moving!turnVars, Log!turnVars
<1>11. ASSUME NEW k
      PROVE  (Moving!Resume(k) => Log!Resume(k)) /\ (Moving!ResumeFails(k) => Log!ResumeFails(k))
  BY DEF Moving!Resume, Log!Resume, Moving!Settled, Log!Settled, Moving!Blank, Log!Blank,
         Moving!Free, Log!Free, Moving!Loaded, Log!Loaded, Moving!Journal, Log!Journal,
         Moving!Selected, Log!Selected, Moving!Selections, Log!Selections, Moving!HistoryOf,
         Log!HistoryOf, Moving!StateOf, Log!StateOf, Moving!turnVars, Log!turnVars,
         Moving!ResumeFails, Log!ResumeFails, Moving!storeVars, Log!storeVars, Moving!chatVars,
         Log!chatVars, Moving!keptVars, Log!keptVars
<1>12. 1..(MaxRecords - 1) \subseteq 1..MaxRecords /\ 1..2 \subseteq 1..2
  BY <1>1
<1>13. QED
  BY <1>4, <1>5, <1>6, <1>7, <1>8, <1>9, <1>10, <1>11, <1>12 DEF Moving!Next, Log!Next

LEMMA SameReadings ==
  /\ Journal!Init => Log!Init
  /\ Log!CheckpointsKept => Journal!CheckpointsKept
  /\ Log!PublishedSurvives => Journal!PublishedSurvives
  /\ Log!TurnStaysPrivate => Journal!TurnStaysPrivate
  /\ Log!IdleMemoryIsDurable => Journal!IdleMemoryIsDurable
<1>1. Journal!Blank = Log!Blank /\ Journal!Journal = Log!Journal
  BY DEF Journal!Blank, Log!Blank, Journal!Journal, Log!Journal
<1>2. \A j : Journal!Lengths(j) = Log!Lengths(j)
  BY DEF Journal!Lengths, Log!Lengths
<1>3. \A f, n : /\ Journal!Selected(f, n) = Log!Selected(f, n)
                /\ Journal!HistoryOf(f, n) = Log!HistoryOf(f, n)
                /\ Journal!StateOf(f, n) = Log!StateOf(f, n)
  BY <1>1 DEF Journal!Selected, Log!Selected, Journal!Selections, Log!Selections,
              Journal!HistoryOf, Log!HistoryOf, Journal!StateOf, Log!StateOf
<1>4. \A j, n : /\ Journal!StateAt(j, n) = Log!StateAt(j, n)
                /\ Journal!HistoryAt(j, n) = Log!HistoryAt(j, n)
  BY <1>3 DEF Journal!StateAt, Log!StateAt, Journal!HistoryAt, Log!HistoryAt
<1>5. Journal!Journals = Log!Journals /\ Journal!CrashLengths = Log!CrashLengths
  BY <1>1, <1>2 DEF Journal!Journals, Log!Journals, Journal!CrashLengths, Log!CrashLengths
<1>6. Journal!Init => Log!Init
  BY <1>1 DEF Journal!Init, Log!Init, Journal!NoIo, Log!NoIo
<1>7. Log!CheckpointsKept => Journal!CheckpointsKept
  BY <1>2, <1>4, <1>5 DEF Journal!CheckpointsKept, Log!CheckpointsKept, Journal!Undone, Log!Undone
<1>8. Log!PublishedSurvives => Journal!PublishedSurvives
  BY <1>2, <1>4, <1>5 DEF Journal!PublishedSurvives, Log!PublishedSurvives
<1>9. Log!TurnStaysPrivate => Journal!TurnStaysPrivate
  BY <1>1, <1>4, <1>5 DEF Journal!TurnStaysPrivate, Log!TurnStaysPrivate
<1>10. Log!IdleMemoryIsDurable => Journal!IdleMemoryIsDurable
  BY <1>1, <1>3 DEF Journal!IdleMemoryIsDurable, Log!IdleMemoryIsDurable
<1>11. QED
  BY <1>6, <1>7, <1>8, <1>9, <1>10

LEMMA JournalRests == JournalInv /\ UNCHANGED journalVars => JournalInv'
<1> SUFFICES ASSUME JournalInv, UNCHANGED journalVars PROVE JournalInv'
  OBVIOUS
<1>1. Log!Journal' = Log!Journal /\ Values' = Values /\ Entries' = Entries /\ Shelved' = Shelved
  BY DEF journalVars, Log!Journal, Values, Entries, Shelved
<1>2. JournalTypes'
  BY <1>1 DEF journalVars, JournalInv, JournalTypes, DiskOK, StoreOK, ChatOK, Appending
<1>3. KeptInv'
  BY <1>1 DEF journalVars, JournalInv, KeptInv, MemoryKept, LiveKept, Log!Undone
<1>4. Work' = Work /\ Promised' = Promised
  BY DEF journalVars, Work, Promised
<1>5. PublishedInv'
  BY <1>1, <1>4 DEF journalVars, JournalInv, PublishedInv, HoldsOpen, MemoryHolds
<1>6. DurableInv'
  BY <1>1, <1>4 DEF journalVars, JournalInv, DurableInv, Level, Quiet, Undo, Spoken, Pending, Matches
<1>7. PrivateInv'
  BY <1>1 DEF journalVars, JournalInv, PrivateInv, Apart
<1>8. QED
  BY <1>2, <1>3, <1>5, <1>6, <1>7 DEF JournalInv

LEMMA JournalInvariant == Spec => [](part \in Journals => JournalInv)
<1>1. Init => (part \in Journals => JournalInv)
  BY SameReadings, JournalInit DEF Init
<1>2. (part \in Journals => JournalInv) /\ [Next]_vars => (part \in Journals => JournalInv)'
  <2> SUFFICES ASSUME part \in Journals => JournalInv, [Next]_vars, (part \in Journals)'
               PROVE  JournalInv'
    OBVIOUS
  <2>1. part' = part /\ JournalInv /\ JournalTypes
    BY DEF Next, Only, vars, JournalInv
  <2>2. CASE UNCHANGED journalVars
    BY <2>1, <2>2, JournalRests
  <2>3. CASE Journal!Next \/ Edited!Next \/ Long!Next \/ Moving!Next
    BY <2>1, <2>3, JournalWidens, EditedWidens, LongWidens, MovingWidens, JournalStep
  <2>4. QED
    BY <2>1, <2>2, <2>3 DEF Next, Only, vars, Journals
<1>3. QED
  BY <1>1, <1>2, PTL DEF Spec

(* What a command's checkpoint has saved for a plugin is never reverted in any   *)
(* journal by a crash, an abort, a commit, a copy coming back from another       *)
(* process, /clear or /resume; nor in memory, except that a restore hook which    *)
(* fails on the copy's return reverts it until the turn has ended, and another   *)
(* checkpoint of that plugin in between saves what the hook's failure has put    *)
(* back (raychat/session.py checkpoint, _restore_snapshot, _finish_turn,         *)
(* storage.py checkpoint); for any plugins, turns, records and edits.            *)
THEOREM CheckpointsStayKept == Spec => []CheckpointsKept
<1>1. (part \in Journals => JournalInv) => CheckpointsKept
  BY AllKept, SameReadings DEF CheckpointsKept
<1>2. QED
  BY <1>1, JournalInvariant, PTL

(* A turn whose "done" a frontend has seen is found again after any crash, in    *)
(* the open journal and in those the session has left (raychat/storage.py        *)
(* commit, _load, session.py _complete_prompt).                                  *)
THEOREM PublishedStays == Spec => []PublishedSurvives
<1>1. (part \in Journals => JournalInv) => PublishedSurvives
  BY AllPublished, SameReadings DEF PublishedSurvives
<1>2. QED
  BY <1>1, JournalInvariant, PTL

(* A turn that has not committed stays private: no crash, and no checkpoint of   *)
(* another plugin's command, makes a message or a change of it durable           *)
(* (raychat/storage.py append, checkpoint, session.py checkpoint).               *)
THEOREM UncommittedStaysPrivate == Spec => []TurnStaysPrivate
<1>1. (part \in Journals => JournalInv) => TurnStaysPrivate
  BY AllPrivate, SameReadings DEF TurnStaysPrivate
<1>2. QED
  BY <1>1, JournalInvariant, PTL

(* Between turns and commands, memory is what the journal selects: nothing of    *)
(* an aborted turn is left and nothing committed is missing (raychat/session.py  *)
(* _finish_turn, _fork, _resume, storage.py _durable_append, select).            *)
THEOREM MemoryIsDurable == Spec => []IdleMemoryIsDurable
<1>1. (part \in Journals => JournalInv) => IdleMemoryIsDurable
  BY AllDurable, SameReadings DEF IdleMemoryIsDurable
<1>2. QED
  BY <1>1, JournalInvariant, PTL
=============================================================================
