------------------------------ MODULE MemoryFile ------------------------------
(***************************************************************************)
(* The persistent memory of a workspace (plugins/memory/store.py): each        *)
(* session loads the file once, answers from its own copy, and replaces the     *)
(* whole file with every change.  Sessions of one workspace share the file and  *)
(* nothing else.                                                            *)
(***************************************************************************)
EXTENDS Integers, FiniteSets, FiniteSetsExt, Functions

CONSTANTS
  Sessions,
  MaxItems,      \* MAX_MEMORY_ITEMS
  MaxId,         \* MAX_MEMORY_ID
  MaxAdds,       \* bound on entries ever added
  MaxLoads       \* bound on starts of a session

MemoryAssumption ==
  /\ {MaxItems, MaxId} \subseteq Nat \ {0} /\ {MaxAdds, MaxLoads} \subseteq Nat
  /\ "nobody" \notin Sessions

VARIABLES
  file,      \* [items, next], or Missing; items is a function from ids to entries
  store,     \* what each session has in memory, or Missing
  saving,    \* what the session is writing to its temporary file, or Missing
  adds, loads,
  told,      \* history: the entries each id has had in a session, by its answers
  writer     \* history: the session that last replaced the file, and not since restarted

vars == <<file, store, saving, adds, loads, told, writer>>

Missing == [none |-> TRUE]
Nobody  == "nobody"
Empty   == [items |-> <<>>, next |-> 1]

Init ==
  /\ file = Missing /\ writer = Nobody /\ adds = 0 /\ loads = 0
  /\ store = [s \in Sessions |-> Missing] /\ saving = [s \in Sessions |-> Missing]
  /\ told = [s \in Sessions |-> {}]

\* _validated; a file that is missing is an empty memory.
Valid(f) == f # Missing =>
  /\ f.next \in 1..MaxId /\ Cardinality(DOMAIN f.items) <= MaxItems
  /\ \A i \in DOMAIN f.items : i >= 1 /\ i < f.next

\* MemoryStore(): the file is read once.
Load(s) ==
  /\ store[s] = Missing /\ loads < MaxLoads /\ loads' = loads + 1
  /\ Valid(file)
  /\ store' = [store EXCEPT ![s] = IF file = Missing THEN Empty ELSE file]
  /\ told' = [told EXCEPT ![s] = {<<i, store'[s].items[i]>> : i \in DOMAIN store'[s].items}]
  /\ UNCHANGED <<file, saving, adds, writer>>

Begin(s, f) == saving' = [saving EXCEPT ![s] = f] /\ UNCHANGED <<file, store, loads, told, writer>>
Idle(s)     == store[s] # Missing /\ saving[s] = Missing

Add(s) ==
  /\ Idle(s) /\ adds < MaxAdds /\ adds' = adds + 1
  /\ Cardinality(DOMAIN store[s].items) < MaxItems /\ store[s].next < MaxId
  /\ LET id == store[s].next IN
     Begin(s, [items |-> [i \in DOMAIN store[s].items \cup {id} |->
                            IF i = id THEN adds' ELSE store[s].items[i]],
               next  |-> id + 1])

\* Planted error: the next id is that after the last entry's.
RemoveCounting(s, id) ==
  /\ Idle(s) /\ id \in DOMAIN store[s].items
  /\ LET rest == Restrict(store[s].items, DOMAIN store[s].items \ {id}) IN
     Begin(s, [items |-> rest, next |-> Max(DOMAIN rest \cup {0}) + 1])
  /\ UNCHANGED adds

Remove(s, id) ==
  /\ Idle(s) /\ id \in DOMAIN store[s].items
  /\ Begin(s, [store[s] EXCEPT !.items = Restrict(@, DOMAIN @ \ {id})])
  /\ UNCHANGED adds

\* The temporary file, synced, takes the file's place, and the answer is given.
Replace(s) ==
  /\ saving[s] # Missing
  /\ file' = saving[s] /\ store' = [store EXCEPT ![s] = saving[s]]
  /\ saving' = [saving EXCEPT ![s] = Missing]
  /\ told' = [told EXCEPT ![s] = @ \cup {<<i, file'.items[i]>> : i \in DOMAIN file'.items}]
  /\ writer' = s
  /\ UNCHANGED <<adds, loads>>

\* The write fails: file and memory are as they were.
SaveFails(s) ==
  /\ saving[s] # Missing /\ saving' = [saving EXCEPT ![s] = Missing]
  /\ UNCHANGED <<file, store, adds, loads, told, writer>>

\* The session ends or is killed, perhaps between the rename and its answer.
Exit(s) ==
  /\ store[s] # Missing
  /\ store' = [store EXCEPT ![s] = Missing] /\ saving' = [saving EXCEPT ![s] = Missing]
  /\ told' = [told EXCEPT ![s] = {}]
  /\ \/ UNCHANGED file /\ writer' = (IF writer = s THEN Nobody ELSE writer)
     \/ saving[s] # Missing /\ file' = saving[s] /\ writer' = Nobody
  /\ UNCHANGED <<adds, loads>>

Next == \E s \in Sessions :
  \/ Load(s) \/ Add(s) \/ Replace(s) \/ SaveFails(s) \/ Exit(s)
  \/ \E id \in 1..MaxId : Remove(s, id)

Spec == Init /\ [][Next]_vars

(***************************************************************************)
(* Properties.                                                              *)
(***************************************************************************)
TypeOK ==
  /\ writer \in Sessions \cup {Nobody}
  /\ adds \in 0..MaxAdds /\ loads \in 0..MaxLoads
  /\ \A s \in Sessions : saving[s] # Missing => store[s] # Missing

\* Every start finds a file it can load (store.py _validated): also when the items are
\* at their limit, the ids run out, and sessions take turns in replacing the file.
AlwaysLoads == Valid(file)

\* Within a session an id names one entry, also after it was forgotten and after a
\* failed save; and what the session answers is what the file has, unless another
\* session has replaced it (store.py add, remove, _save).
AnswersHold ==
  \A s \in Sessions :
    /\ \A x, y \in told[s] : x[1] = y[1] => x[2] = y[2]
    /\ writer = s => store[s] = file

MemoryHonest == AlwaysLoads /\ AnswersHold
=============================================================================
