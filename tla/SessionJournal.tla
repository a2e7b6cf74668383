--------------------------- MODULE SessionJournal ---------------------------
(***************************************************************************)
(* raychat/storage.py, class SessionStore, under raychat/session.py, class *)
(* AgentSession: one turn thread and the commands that run beside it share *)
(* a conversation (its history and the state of each plugin) and one       *)
(* append-only journal; between turns the conversation may move to a new   *)
(* journal or back to another.  The process may crash between any two      *)
(* steps and any write, flush or fsync may fail.                           *)
(*                                                                         *)
(* A record's identifier is its place in the file.  A plugin state is a    *)
(* version number, fresh at every edit, so that a larger number is a later *)
(* value.  A message is the number of its turn.                            *)
(***************************************************************************)
EXTENDS Integers, Sequences

CONSTANTS
    Owners,         \* plugins, each with a namespace in the session state
    MaxTurns,       \* bound on turns
    MaxRecords,     \* bound on journal records
    MaxEdits,       \* bound on changes of plugin state
    MaxJournals,    \* bound on journals
    NoState         \* _rollback_state is None

States == [Owners -> 0..MaxEdits]
Blank  == [o \in Owners |-> 0]

BoundsAssumption ==
    /\ MaxTurns \in Nat /\ MaxRecords \in Nat /\ MaxEdits \in Nat
    /\ MaxJournals \in Nat \ {0}
    /\ NoState \notin States

Selections == {"commit", "state", "select"}
Kinds      == {"start", "message"} \cup Selections
Operations == {"commit", "checkpoint", "select"}
Phases     == {"idle", "open", "running", "child", "restored", "committing",
               "committed", "finishing", "undone"}

VARIABLES
    file, synced, torn,      \* the journal: records, how many of them survive
                             \* any crash, whether an incomplete one follows
    shelf,                   \* the journals that are closed
    up,                      \* whether the process runs
    head, committed, failed, \* SessionStore (0: no record)
    io,                      \* the durable append in progress, which holds
                             \* the store's mutex and the session's _state_lock
    history, live,           \* AgentSession._history, runtime.state
    rollback, owners,        \* _rollback_state, _checkpoint_owners
    phase, turn, start,      \* the turn thread, its turn, history at its start
    child,                   \* plugin state of a turn run in another process; once
                             \* it has come back, the state it replaced
    cmd,                     \* the command of each plugin: the version it wrote
                             \* and has yet to checkpoint (0: none)
    edits,                   \* number of edits made
    \* history, read by no guard
    turnEdits,               \* edits made by the open turn
    published,               \* turns whose "done" was published, this branch
    kept                     \* what the commands of each plugin checkpointed

diskVars  == <<file, synced, torn, shelf>>
storeVars == <<up, head, committed, failed, io>>
chatVars  == <<history, live, rollback, owners>>
turnVars  == <<phase, turn, start, child>>
keptVars  == <<published, kept>>
vars == <<diskVars, storeVars, chatVars, turnVars, keptVars, cmd, edits,
          turnEdits>>

NoIo == [op |-> "none", owner |-> "none", previous |-> 0, offset |-> 0,
         history |-> <<>>, state |-> Blank]

Record(kind, parent, state) ==
    [kind |-> kind, parent |-> parent, turn |-> turn, state |-> state]

(* The history along the parent chain of record h of a journal f.           *)
HistoryOf(f, h) ==
    LET chain[i \in 0..Len(f)] ==
            IF i = 0 THEN <<>>
            ELSE IF f[i].kind = "message" THEN Append(chain[f[i].parent], f[i].turn)
            ELSE chain[f[i].parent]
    IN  chain[h]

(* The journal that is open, with what was promised of it.                  *)
Journal == [file |-> file, synced |-> synced, torn |-> torn,
            published |-> published, kept |-> kept]

(* A record can still be written: MaxRecords bounds all journals together.  *)
Written[n \in 0..Len(shelf)] ==
    IF n = 0 THEN Len(file) ELSE Written[n - 1] + Len(shelf[n].file)
Room == Written[Len(shelf)] < MaxRecords

StateOf(f, h) == IF h = 0 THEN Blank ELSE f[h].state

(* _load: the selection that the first n records of a journal f leave.      *)
Selected(f, n) ==
    LET made == {i \in 1..n : f[i].kind \in Selections}
        last == CHOOSE i \in made : \A k \in made : k <= i
    IN  IF made = {} THEN 0
        ELSE IF f[last].kind = "select" THEN f[last].parent ELSE last

Init ==
    /\ file = <<>> /\ synced = 0 /\ torn = FALSE /\ shelf = <<>>
    /\ up = TRUE /\ head = 0 /\ committed = 0 /\ failed = FALSE /\ io = NoIo
    /\ history = <<>> /\ live = Blank /\ rollback = NoState /\ owners = {}
    /\ phase = "idle" /\ turn = 0 /\ start = <<>> /\ child = Blank
    /\ cmd = Blank /\ edits = 0 /\ turnEdits = {}
    /\ published = {} /\ kept = Blank

-----------------------------------------------------------------------------
(* Durable appends.                                                         *)

(* Nobody holds the store's mutex.                                          *)
Free == up /\ io.op = "none"

(* _durable_append up to the fsync.                                         *)
BeginAppend(op, owner, kind, parent, state) ==
    /\ Free /\ ~failed
    /\ Room
    /\ file' = Append(file, Record(kind, parent, state))
    /\ head' = Len(file) + 1
    /\ io' = [op |-> op, owner |-> owner, previous |-> head, offset |-> Len(file),
              history |-> history, state |-> live]
    /\ UNCHANGED <<synced, torn, shelf, up, committed, failed>>

(* The fsync returned and the selection is made.                            *)
Synced(op) ==
    /\ up /\ io.op = op
    /\ synced' = Len(file)
    /\ io' = NoIo
    /\ UNCHANGED <<file, torn, shelf, up, failed>>

(* Planted error: the head is left on the record that is cut off.           *)
AppendFailedAtHead(op) ==
    /\ up /\ io.op = op
    /\ failed' = TRUE
    /\ io' = NoIo
    /\ \/ UNCHANGED <<file, torn>>
       \/ file' = SubSeq(file, 1, io.offset) /\ torn' \in BOOLEAN
    /\ UNCHANGED <<synced, shelf, up, head, committed>>

(* A write or fsync failed: the head is restored and the file truncated to  *)
(* the offset, which may fail too and leave the record, whole or torn.      *)
AppendFailed(op) ==
    /\ up /\ io.op = op
    /\ failed' = TRUE
    /\ head' = io.previous
    /\ io' = NoIo
    /\ \/ UNCHANGED <<file, torn>>
       \/ file' = SubSeq(file, 1, io.offset) /\ torn' \in BOOLEAN
    /\ UNCHANGED <<synced, shelf, up, committed>>

-----------------------------------------------------------------------------
(* The turn thread: turn(), send(), complete_snapshot(), _finish_turn().    *)

BeginTurn ==
    /\ phase = "idle" /\ Free
    /\ turn < MaxTurns
    /\ turn' = turn + 1
    /\ phase' = "open"
    /\ start' = history
    /\ rollback' = live
    /\ owners' = {}
    /\ turnEdits' = {}
    /\ UNCHANGED <<diskVars, storeVars, history, live, child, cmd, edits,
                   keptVars>>

(* A record of the working branch: turn_start, then the turn's messages.    *)
AppendRecord(kind) ==
    /\ Free /\ ~failed
    /\ Room
    /\ file' = Append(file, Record(kind, head, Blank))
    /\ head' = Len(file) + 1
    /\ UNCHANGED <<synced, torn, shelf, up, committed, failed, io>>

StartPrompt ==
    /\ phase = "open"
    /\ AppendRecord("start")
    /\ phase' = "running"
    /\ UNCHANGED <<chatVars, turn, start, child, cmd, edits, turnEdits, keptVars>>

AddHistory ==
    /\ phase = "running"
    /\ AppendRecord("message")
    /\ history' = Append(history, turn)
    /\ UNCHANGED <<live, rollback, owners, turnVars, cmd, edits, turnEdits,
                   keptVars>>

(* A hook or tool of the turn changes the state of a plugin.                *)
PluginEdit(o) ==
    /\ phase = "running" /\ up /\ edits < MaxEdits
    /\ edits' = edits + 1
    /\ live' = [live EXCEPT ![o] = edits + 1]
    /\ turnEdits' = turnEdits \cup {edits + 1}
    /\ UNCHANGED <<diskVars, storeVars, history, rollback, owners, turnVars, cmd,
                   keptVars>>

(* ProcessConversation.run: the turn runs on a copy in another process.     *)
Delegate ==
    /\ phase = "open" /\ up
    /\ phase' = "child"
    /\ child' = live
    /\ UNCHANGED <<diskVars, storeVars, chatVars, turn, start, cmd, edits,
                   turnEdits, keptVars>>

ChildEdit(o) ==
    /\ phase = "child" /\ up /\ edits < MaxEdits
    /\ edits' = edits + 1
    /\ child' = [child EXCEPT ![o] = edits + 1]
    /\ turnEdits' = turnEdits \cup {edits + 1}
    /\ UNCHANGED <<diskVars, storeVars, chatVars, phase, turn, start, cmd,
                   keptVars>>

(* _restore_snapshot(checkpointed=True): the copy comes back, except for    *)
(* the plugins that checkpointed meanwhile, and the restore hooks run.      *)
Returned == [o \in Owners |-> IF o \in owners THEN rollback[o] ELSE child[o]]

RestoreChild ==
    /\ phase = "child" /\ Free
    /\ phase' = "restored"
    /\ history' = Append(history, turn)
    /\ live' = Returned
    /\ child' = live
    /\ UNCHANGED <<diskVars, storeVars, rollback, owners, turn, start, cmd, edits,
                   turnEdits, keptVars>>

(* A restore hook raises: memory is put back to what the copy replaced,     *)
(* whatever commands have changed since, until the end of the turn.         *)
RestoreFails ==
    /\ phase = "restored" /\ Free
    /\ phase' = "undone"
    /\ history' = start
    /\ live' = child
    /\ UNCHANGED <<diskVars, storeVars, rollback, owners, turn, start, child, cmd,
                   edits, turnEdits, keptVars>>

(* commit_turn(): of send(), and of complete_snapshot(), which appends the  *)
(* new messages in the same region.                                         *)
CommitTurn ==
    /\ phase = "running" /\ history # start
    /\ BeginAppend("commit", "none", "commit", head, live)
    /\ phase' = "committing"
    /\ UNCHANGED <<chatVars, turn, start, child, cmd, edits, turnEdits, keptVars>>

CommitChild ==
    /\ phase = "restored" /\ Free /\ ~failed
    /\ Written[Len(shelf)] + 1 < MaxRecords
    /\ file' = file \o <<Record("message", head, Blank),
                         Record("commit", Len(file) + 1, live)>>
    /\ head' = Len(file) + 2
    /\ io' = [op |-> "commit", owner |-> "none", previous |-> Len(file) + 1,
              offset |-> Len(file) + 1, history |-> history, state |-> live]
    /\ phase' = "committing"
    /\ UNCHANGED <<synced, torn, shelf, up, committed, failed, chatVars, turn,
                   start, child, cmd, edits, turnEdits, keptVars>>

(* Planted error: the commit is written but not synced.                     *)
CommitWritten ==
    /\ up /\ io.op = "commit"
    /\ io' = NoIo
    /\ committed' = head
    /\ rollback' = NoState
    /\ phase' = "committed"
    /\ UNCHANGED <<diskVars, up, failed, head, history, live, owners, turn, start,
                   child, cmd, edits, turnEdits, keptVars>>

CommitSynced ==
    /\ Synced("commit")
    /\ committed' = head
    /\ rollback' = NoState
    /\ phase' = "committed"
    /\ UNCHANGED <<head, history, live, owners, turn, start, child, cmd, edits,
                   turnEdits, keptVars>>

CommitFailed ==
    /\ AppendFailed("commit")
    /\ phase' = "finishing"
    /\ UNCHANGED <<chatVars, turn, start, child, cmd, edits, turnEdits, keptVars>>

PublishDone ==
    /\ phase = "committed" /\ up
    /\ phase' = "finishing"
    /\ published' = published \cup {turn}
    /\ UNCHANGED <<diskVars, storeVars, chatVars, turn, start, child, cmd, edits,
                   turnEdits, kept>>

(* A cancellation, a failing hook, provider or callback, a failed store.    *)
FailTurn ==
    /\ phase \in {"open", "running", "child", "restored", "committed"} /\ up
    /\ phase' = "finishing"
    /\ UNCHANGED <<diskVars, storeVars, chatVars, turn, start, child, cmd, edits,
                   turnEdits, keptVars>>

(* append() fails: the message is in the history, the record is not written *)
(* or only in part, and the store refuses every later write.                *)
AppendFails ==
    /\ phase \in {"open", "running", "restored"} /\ Free /\ ~failed
    /\ failed' = TRUE
    /\ torn' \in BOOLEAN
    /\ history' = IF phase = "running" THEN Append(history, turn) ELSE history
    /\ phase' = "finishing"
    /\ UNCHANGED <<file, synced, shelf, up, head, committed, io, live, rollback, owners,
                   turn, start, child, cmd, edits, turnEdits, keptVars>>

(* What the turn thread held of its turn is gone.                           *)
TurnOver ==
    /\ phase' = "idle" /\ start' = <<>> /\ child' = Blank /\ turnEdits' = {}
    /\ turn' = turn

(* Planted error: an aborted turn leaves the working branch where it is.    *)
FinishOnBranch ==
    /\ phase \in {"finishing", "undone"} /\ Free
    /\ IF rollback = NoState THEN UNCHANGED <<history, head, live>>
       ELSE history' = start /\ head' = head /\ live' = rollback
    /\ rollback' = NoState
    /\ owners' = {}
    /\ TurnOver
    /\ UNCHANGED <<diskVars, up, committed, failed, io, cmd, edits, keptVars>>

(* _finish_turn: a turn that did not commit leaves nothing behind.          *)
FinishTurn ==
    /\ phase \in {"finishing", "undone"} /\ Free
    /\ IF rollback = NoState THEN UNCHANGED <<history, head, live>>
       ELSE history' = start /\ head' = committed /\ live' = rollback
    /\ rollback' = NoState
    /\ owners' = {}
    /\ TurnOver
    /\ UNCHANGED <<diskVars, up, committed, failed, io, cmd, edits, keptVars>>

-----------------------------------------------------------------------------
(* Commands that run beside a turn (while_running), and /fork.              *)

CommandEdit(o) ==
    /\ cmd[o] = 0 /\ up /\ edits < MaxEdits
    /\ edits' = edits + 1
    /\ live' = [live EXCEPT ![o] = edits + 1]
    /\ cmd' = [cmd EXCEPT ![o] = edits + 1]
    /\ UNCHANGED <<diskVars, storeVars, history, rollback, owners, turnVars,
                   turnEdits, keptVars>>

(* Planted error: the checkpoint saves the state of every plugin.           *)
CheckpointedAll(o) == live

(* What AgentSession.checkpoint(o) saves.                                   *)
Checkpointed(o) ==
    [(IF rollback = NoState THEN live ELSE rollback) EXCEPT ![o] = live[o]]

(* The state of o is older than what a command checkpointed in this turn.   *)
Undone(o) == phase = "undone" /\ o \in owners

(* A checkpoint of what a failed restore has put back: from here on the     *)
(* newer value that the last one saved is no longer promised.               *)
Checkpoint(o) ==
    /\ cmd[o] # 0
    /\ BeginAppend("checkpoint", o, "state", committed, Checkpointed(o))
    /\ kept' = IF Undone(o) /\ live[o] < kept[o] THEN [kept EXCEPT ![o] = live[o]] ELSE kept
    /\ UNCHANGED <<chatVars, turnVars, cmd, edits, turnEdits, published>>

(* Planted error: the rollback state is not replaced by the checkpoint.     *)
CheckpointSyncedAside ==
    /\ Synced("checkpoint")
    /\ committed' = head
    /\ head' = IF io.previous # committed THEN io.previous ELSE head
    /\ owners' = IF rollback = NoState THEN owners ELSE owners \cup {io.owner}
    /\ cmd' = [cmd EXCEPT ![io.owner] = 0]
    /\ kept' = [kept EXCEPT ![io.owner] = file[head].state[io.owner]]
    /\ UNCHANGED <<history, live, rollback, turnVars, edits, turnEdits, published>>

CheckpointSynced ==
    /\ Synced("checkpoint")
    /\ committed' = head
    /\ head' = IF io.previous # committed THEN io.previous ELSE head
    /\ rollback' = IF rollback = NoState THEN NoState ELSE file[head].state
    /\ owners' = IF rollback = NoState THEN owners ELSE owners \cup {io.owner}
    /\ cmd' = [cmd EXCEPT ![io.owner] = 0]
    /\ kept' = [kept EXCEPT ![io.owner] = file[head].state[io.owner]]
    /\ UNCHANGED <<history, live, turnVars, edits, turnEdits, published>>

CheckpointFailed ==
    /\ AppendFailed("checkpoint")
    /\ cmd' = [cmd EXCEPT ![io.owner] = 0]
    /\ UNCHANGED <<chatVars, turnVars, edits, turnEdits, keptVars>>

(* A failed store refuses every write.                                      *)
CheckpointRefused(o) ==
    /\ cmd[o] # 0 /\ Free /\ failed
    /\ cmd' = [cmd EXCEPT ![o] = 0]
    /\ UNCHANGED <<diskVars, storeVars, chatVars, turnVars, edits, turnEdits,
                   keptVars>>

(* _fork in an idle session: the snapshot is restored, then selected.  From *)
(* here on what the other branch published or saved is no longer promised.  *)
Fork(e) ==
    /\ phase = "idle" /\ cmd = Blank
    /\ e \in DOMAIN file /\ file[e].kind = "commit"
    /\ BeginAppend("select", "none", "select", e, file[e].state)
    /\ history' = HistoryOf(file, e)
    /\ live' = file[e].state
    /\ published' = {t \in published : \E i \in DOMAIN history' : history'[i] = t}
    /\ kept' = [o \in Owners |-> IF kept[o] < live'[o] THEN kept[o] ELSE live'[o]]
    /\ UNCHANGED <<rollback, owners, turnVars, cmd, edits, turnEdits>>

ForkSynced ==
    /\ Synced("select")
    /\ head' = file[head].parent
    /\ committed' = file[head].parent
    /\ UNCHANGED <<chatVars, turnVars, cmd, edits, turnEdits, keptVars>>

ForkFailed ==
    /\ AppendFailed("select")
    /\ history' = io.history
    /\ live' = io.state
    /\ UNCHANGED <<rollback, owners, turnVars, cmd, edits, turnEdits, keptVars>>

-----------------------------------------------------------------------------
(* /clear and /resume, in an idle session.                                  *)

Settled == phase = "idle" /\ cmd = Blank /\ Free

(* AgentSession.reset and new_session: memory is cleared, the journal       *)
(* closed and another one created.                                          *)
Reset ==
    /\ Settled
    /\ Len(shelf) + 1 < MaxJournals
    /\ shelf' = Append(shelf, Journal)
    /\ file' = <<>> /\ synced' = 0 /\ torn' = FALSE
    /\ head' = 0 /\ committed' = 0 /\ failed' = FALSE
    /\ history' = <<>> /\ live' = Blank
    /\ published' = {} /\ kept' = Blank
    /\ UNCHANGED <<up, io, rollback, owners, turnVars, cmd, edits, turnEdits>>

(* The new journal cannot be created: the old one is closed already, and    *)
(* the exception ends the worker of the session.                            *)
ResetFails ==
    /\ Settled
    /\ up' = FALSE
    /\ head' = 0 /\ committed' = 0 /\ failed' = FALSE
    /\ history' = <<>> /\ live' = Blank
    /\ UNCHANGED <<diskVars, io, rollback, owners, turnVars, cmd, edits, turnEdits,
                   keptVars>>

(* A journal as _load leaves it: an incomplete record is cut off, and only  *)
(* that makes the file durable.                                             *)
Loaded(j) == [j EXCEPT !.torn = FALSE, !.synced = IF j.torn THEN Len(j.file) ELSE @]

(* _resume: the other journal is opened and restored, this one closed.      *)
Resume(k) ==
    /\ Settled
    /\ k \in DOMAIN shelf
    /\ LET j == Loaded(shelf[k]) IN
          /\ file' = j.file /\ synced' = j.synced /\ torn' = j.torn
          /\ published' = j.published /\ kept' = j.kept
    /\ shelf' = [shelf EXCEPT ![k] = Journal]
    /\ failed' = FALSE
    /\ head' = Selected(file', Len(file')) /\ committed' = head'
    /\ history' = HistoryOf(file', head') /\ live' = StateOf(file', head')
    /\ UNCHANGED <<up, io, rollback, owners, turnVars, cmd, edits, turnEdits>>

(* A restore hook refuses what the other journal holds: it is closed again, *)
(* and the session stays with its own.                                      *)
ResumeFails(k) ==
    /\ Settled
    /\ k \in DOMAIN shelf
    /\ shelf' = [shelf EXCEPT ![k] = Loaded(@)]
    /\ UNCHANGED <<file, synced, torn, storeVars, chatVars, turnVars, cmd, edits,
                   turnEdits, keptVars>>

-----------------------------------------------------------------------------
(* Crashes.                                                                 *)

(* What a crash may leave of the records that were not synced.              *)
Lengths(j)   == j.synced..Len(j.file)
CrashLengths == Lengths(Journal)

Cut(j) ==
    UNION {{[j EXCEPT !.file = SubSeq(@, 1, n), !.torn = t] :
               t \in IF n = Len(j.file) THEN {j.torn, FALSE} ELSE BOOLEAN} :
           n \in Lengths(j)}

Crash ==
    /\ up
    /\ up' = FALSE
    /\ \E j \in Cut(Journal) : file' = j.file /\ torn' = j.torn
    /\ shelf' \in [DOMAIN shelf -> UNION {Cut(shelf[k]) : k \in DOMAIN shelf}]
    /\ \A k \in DOMAIN shelf : shelf'[k] \in Cut(shelf[k])
    /\ head' = 0 /\ committed' = 0 /\ failed' = FALSE /\ io' = NoIo
    /\ history' = <<>> /\ live' = Blank /\ rollback' = NoState /\ owners' = {}
    /\ TurnOver
    /\ cmd' = Blank
    /\ UNCHANGED <<synced, edits, keptVars>>

(* The journal is opened again (another one: followed by Resume).           *)
Reopen ==
    /\ ~up
    /\ up' = TRUE
    /\ torn' = FALSE /\ synced' = Loaded(Journal).synced
    /\ head' = Selected(file, Len(file)) /\ committed' = head'
    /\ history' = HistoryOf(file, head') /\ live' = StateOf(file, head')
    /\ UNCHANGED <<file, shelf, failed, io, rollback, owners, turnVars, cmd, edits,
                   turnEdits, keptVars>>

Next ==
    \/ BeginTurn \/ StartPrompt \/ AddHistory \/ Delegate \/ RestoreChild \/ RestoreFails
    \/ CommitTurn \/ CommitChild \/ CommitSynced \/ CommitFailed \/ PublishDone
    \/ FailTurn \/ AppendFails \/ FinishTurn
    \/ \E o \in Owners : \/ PluginEdit(o) \/ ChildEdit(o)
                         \/ CommandEdit(o) \/ Checkpoint(o) \/ CheckpointRefused(o)
    \/ CheckpointSynced \/ CheckpointFailed
    \/ \E e \in 1..MaxRecords : Fork(e)
    \/ ForkSynced \/ ForkFailed
    \/ Reset \/ ResetFails
    \/ \E k \in 1..MaxJournals : Resume(k) \/ ResumeFails(k)
    \/ Crash \/ Reopen

Spec == Init /\ [][Next]_vars

-----------------------------------------------------------------------------
(* Properties.                                                              *)

Journals == {Journal} \cup {shelf[k] : k \in DOMAIN shelf}
Records  == [kind : Kinds, parent : 0..MaxRecords, turn : 0..MaxTurns, state : States]

TypeOK ==
    /\ Len(shelf) < MaxJournals
    /\ \A j \in Journals :
          /\ j.file \in Seq(Records) /\ Len(j.file) <= MaxRecords
          /\ j.synced \in 0..Len(j.file) /\ j.torn \in BOOLEAN
          /\ j.published \subseteq 1..MaxTurns /\ j.kept \in States
    /\ up \in BOOLEAN /\ failed \in BOOLEAN
    /\ head \in 0..Len(file) /\ committed \in 0..Len(file)
    /\ io.op \in Operations \cup {"none"} /\ io.owner \in Owners \cup {"none"}
    /\ io.previous \in 0..Len(file) /\ io.offset \in 0..Len(file)
    /\ io.history \in Seq(1..MaxTurns) /\ io.state \in States
    /\ history \in Seq(1..MaxTurns) /\ start \in Seq(1..MaxTurns)
    /\ live \in States /\ child \in States
    /\ rollback \in States \cup {NoState} /\ owners \subseteq Owners
    /\ phase \in Phases /\ turn \in 0..MaxTurns
    /\ cmd \in States
    /\ edits \in 0..MaxEdits /\ turnEdits \subseteq 1..MaxEdits

(* What opening a journal finds after a crash that leaves n of its records. *)
HistoryAt(j, n) == HistoryOf(j.file, Selected(j.file, n))
StateAt(j, n)   == StateOf(j.file, Selected(j.file, n))

(* A turn whose "done" a frontend has seen is in what opening its journal   *)
(* finds after any crash, in order and with all its predecessors on the     *)
(* branch: in the journal that is open and in those it was left for.        *)
PublishedSurvives ==
    \A j \in Journals : \A n \in Lengths(j) :
        LET h == HistoryAt(j, n) IN
        \A t \in j.published : \E i \in DOMAIN h : h[i] = t

(* What checkpoint() saved for a plugin is never reverted in the journal,   *)
(* whatever becomes of the turn it ran beside and of the journal: no crash, *)
(* abort, commit, copy coming back from another process, /clear or /resume  *)
(* restores an older value; nor in memory.  A known limit: a restore hook   *)
(* that fails on the copy's return reverts it in memory until the turn has  *)
(* ended, and a checkpoint of this plugin in between saves the older value. *)
CheckpointsKept ==
    /\ \A j \in Journals : \A n \in Lengths(j), o \in Owners :
          StateAt(j, n)[o] >= j.kept[o]
    /\ up => \A o \in Owners : Undone(o) \/ live[o] >= kept[o]

(* A turn that has not committed stays private: no crash, and no checkpoint *)
(* of another plugin, makes a message or a state change of it durable.      *)
TurnStaysPrivate ==
    rollback # NoState /\ phase # "committing" /\ ~failed =>
        \A n \in CrashLengths :
            /\ \A i \in DOMAIN HistoryAt(Journal, n) : HistoryAt(Journal, n)[i] # turn
            /\ \A o \in Owners : StateAt(Journal, n)[o] \in turnEdits =>
                  o \in owners \cup {io.owner}

(* Between turns and commands, memory is what the journal selects: nothing  *)
(* of an aborted turn is left and nothing committed is missing.             *)
IdleMemoryIsDurable ==
    up /\ phase = "idle" /\ io.op = "none" /\ ~failed
       /\ (cmd = Blank) =>
        /\ committed = Selected(file, Len(file)) /\ head = committed
        /\ history = HistoryOf(file, committed)
        /\ live = StateOf(file, committed)

(* "ctx.checkpoint() saves command-driven state changes": when a command's  *)
(* checkpoint returns, the journal holds what the command wrote, or a later *)
(* value.                                                                   *)
CheckpointSavesCommand ==
    [][CheckpointSynced => file[head].state[io.owner] >= cmd[io.owner]]_vars
=============================================================================
