----------------------------- MODULE MCWorkspace -----------------------------
(***************************************************************************)
(* What a session keeps and takes on its machine, each part on a small         *)
(* instance: its journal, the files its tools change, the memory it shares with  *)
(* other sessions, the terminal and its keys; and the search of the prompt     *)
(* optimiser, which keeps its state in a directory.  A behaviour exercises one    *)
(* of them while the others rest; they share no state.                        *)
(***************************************************************************)
EXTENDS Naturals, TLC

CONSTANTS
  Owners, MaxTurns, MaxRecords, MaxEdits, NoState,
  Agents, Blocks, MaxChanges,
  Sessions, MaxItems, MaxId, MaxAdds, MaxLoads,
  Bytes, MaxPaste, MaxEscape, MaxBytes,
  MaxEntries,
  Texts, Seed, Training, Validation, Sample, MaxCalls, MaxCandidates, MaxUncounted

VARIABLES
  part,       \* the part this behaviour exercises
  file, synced, torn, shelf, up, head, committed, failed, io, history, live, rollback, owners,
  phase, turn, start, child, cmd, edits, turnEdits, published, kept,
  path, inodes, changes, call, source, before, copied, edited, page, expected, late,
  shared, store, saving, adds, loads, told, writer,
  first, decoder, arrived, events, sent, cut,
  system, modes, screen, step, entered, active, taken, failing, reported, original, shown,
  refused, entries,
  stage, programs, best, fronts, total, caching, cache, due, tested, found, performed,
  proposal, saved, value, spent, uncounted

\* Two examples of validation that one component helps and the other hurts, so that both
\* single rewrites are kept and can be merged; the merge is good on both, or perfect.
Twin(both) ==
  LET Has(x) == IF x = Seed THEN 0 ELSE 1 IN
  [c \in [1..2 -> Texts] |-> [e \in Training \cup Validation |->
     LET one == Has(c[1])
         two == Has(c[2]) IN
     CASE e \in Training -> one + two
       [] e \in Validation /\ one + two = 2 -> both
       [] e = "v" /\ one + two < 2 -> (1 + one) - two
       [] e = "w" /\ one + two < 2 -> (1 + two) - one]]

\* One journal with few records, which two commands may edit beside its turns; one with a
\* single turn and room for two edits; a long one with one edit; and a session that moves
\* between two journals.
Journal == INSTANCE SessionJournal WITH MaxJournals <- 1, MaxRecords <- MaxRecords - 2
Edited == INSTANCE SessionJournal WITH MaxJournals <- 1, MaxTurns <- MaxTurns - 1
Long == INSTANCE SessionJournal WITH MaxJournals <- 1, MaxEdits <- MaxEdits - 1
Moving == INSTANCE SessionJournal WITH
  MaxJournals <- 2, MaxRecords <- MaxRecords - 1, MaxEdits <- MaxEdits - 1
Files == INSTANCE FileTools
Memory == INSTANCE MemoryFile WITH file <- shared
\* Every class of bytes in short streams, and longer ones of those that a control sequence
\* is made of, in which it may grow longer than the decoder waits for.
Keys == INSTANCE KeyDecoder
Escapes == INSTANCE KeyDecoder WITH
  Bytes <- {"ESC", "[", "<", "1", "A", "M"}, MaxBytes <- MaxBytes + 2
Terminal == INSTANCE TerminalModes WITH saved <- taken
Search == INSTANCE CandidateSearch WITH
  Components <- 2, TopScore <- 2, Batch <- 1, Overlap <- 2, MaxMerges <- 1,
  Evaluators <- {Twin(1), Twin(2)}

ASSUME JournalsAssumed ==
  /\ Journal!BoundsAssumption /\ Edited!BoundsAssumption
  /\ Long!BoundsAssumption /\ Moving!BoundsAssumption
ASSUME FilesAssumed == Files!FilesAssumption
ASSUME MemoryAssumed == Memory!MemoryAssumption
ASSUME KeysAssumed == Keys!DecoderAssumption /\ Escapes!DecoderAssumption
ASSUME TerminalAssumed == Terminal!ModesAssumption
ASSUME SearchAssumed == Search!SearchAssumption

journalVars == <<file, synced, torn, shelf, up, head, committed, failed, io, history, live, rollback,
    owners, phase, turn, start, child, cmd, edits, turnEdits, published, kept>>
filesVars == <<path, inodes, changes, call, source, before, copied, edited, page, expected, late>>
memoryVars == <<shared, store, saving, adds, loads, told, writer>>
keysVars == <<first, decoder, arrived, events, sent, cut>>
terminalVars == <<system, modes, screen, step, entered, active, taken, failing, reported,
    original, shown, refused, entries>>
searchVars == <<stage, programs, best, fronts, total, caching, cache, due, tested, found,
    performed, proposal, saved, value, spent, uncounted>>

Journals == {"journal", "edited", "long", "moving"}
Decoders == {"keys", "escapes"}

Init ==
  /\ part \in Journals \cup Decoders \cup {"files", "memory", "terminal", "search"}
  /\ Journal!Init /\ Files!Init /\ Memory!Init /\ Keys!Init /\ Terminal!Init /\ Search!Init
  /\ part # "keys" => first = Keys!Idle
  /\ part # "terminal" => system = "posix"
  /\ part # "search" => value = Twin(1)

Only(p) ==
  /\ part = p /\ UNCHANGED part
  /\ p \notin Journals => UNCHANGED journalVars
  /\ p # "files" => UNCHANGED filesVars
  /\ p # "memory" => UNCHANGED memoryVars
  /\ p \notin Decoders => UNCHANGED keysVars
  /\ p # "terminal" => UNCHANGED terminalVars
  /\ p # "search" => UNCHANGED searchVars

Next ==
  \/ Only("journal") /\ Journal!Next
  \/ Only("edited") /\ Edited!Next
  \/ Only("long") /\ Long!Next
  \/ Only("moving") /\ Moving!Next
  \/ Only("files") /\ Files!Next
  \/ Only("memory") /\ Memory!Next
  \/ Only("keys") /\ Keys!Next
  \/ Only("escapes") /\ Escapes!Next
  \/ Only("terminal") /\ Terminal!Next
  \/ Only("search") /\ Search!Next

vars == <<part, journalVars, filesVars, memoryVars, keysVars, terminalVars, searchVars>>

Spec == Init /\ [][Next]_vars

Symmetry == Permutations(Owners)

(***************************************************************************)
(* The type invariants of the parts.                                         *)
(***************************************************************************)
TypesOK ==
  /\ part = "journal" => Journal!TypeOK
  /\ part = "edited" => Edited!TypeOK
  /\ part = "long" => Long!TypeOK
  /\ part = "moving" => Moving!TypeOK
  /\ part = "files" => Files!TypeOK
  /\ part = "memory" => Memory!TypeOK
  /\ part \in Decoders => Keys!TypeOK
  /\ part = "terminal" => Terminal!TypeOK
  /\ part = "search" => Search!TypeOK

\* A turn whose "done" a frontend has seen is found again after any crash
\* (raychat/storage.py commit, session.py _complete_prompt), in each journal.
PublishedSurvives == part \in Journals => Journal!PublishedSurvives

\* What checkpoint() saved for a plugin is never reverted (raychat/session.py
\* checkpoint, _restore_snapshot, storage.py checkpoint), but for a restore hook that fails
\* on the return of a delegated turn.
CheckpointsKept == part \in Journals => Journal!CheckpointsKept

\* A turn that has not committed stays private (raychat/storage.py append, checkpoint).
TurnStaysPrivate == part \in Journals => Journal!TurnStaysPrivate

\* Between turns and commands, memory is what the journal selects (raychat/session.py
\* _finish_turn, storage.py _durable_append).
IdleMemoryIsDurable == part \in Journals => Journal!IdleMemoryIsDurable

\* A tool that answers with a digest speaks of the file as it is, and an edit replaces
\* what its agent knew and keeps what it was not to touch (plugins/filesystem/
\* operations.py _read_file_page, _EditStreams, _replace_edit).
EditsAreInformed ==
  [][part = "files" => Files!DigestIsCurrent /\ Files!EditKeepsRest]_filesVars

\* Every start finds a memory it can load, an id names one entry, and an answer is what
\* the file has unless another session has replaced it (plugins/memory/store.py add,
\* remove, _save, _validated).
MemoryHonest == part = "memory" => Memory!MemoryHonest

\* However input is cut into reads, and a decoder handed to a new core, the keys are the
\* same (raychat/ui/terminal.py KeyDecoder._drain, restore_handoff), but for a lone Escape, a
\* CR or an overlong sequence at a cut.
CutsDoNotMatter == part \in Decoders => Keys!CutsDoNotMatter

\* A session of the terminal gives back the modes and the screen it took, wherever it
\* has failed (raychat/ui/terminal.py __enter__, __exit__, terminal_backend.py restore).
GivenBack == part = "terminal" => Terminal!GivenBack

\* Scores, fronts, lineages and what counts of the budget of a search are right, over failures, kills
\* and resumed runs (plugins/optimization/gepa/engine.py, state.py, merge.py).
SearchHonest == part = "search" => Search!SearchHonest
=============================================================================
