----------------------------- MODULE TerminalModes -----------------------------
(***************************************************************************)
(* Taking the terminal and giving it back (raychat/ui/terminal.py              *)
(* TerminalSession, terminal_backend.py PosixBackend, WindowsBackend): the      *)
(* modes of its input and output and the screen it shows.  Each call to the     *)
(* system may fail, a write after it has reached the terminal, too.            *)
(***************************************************************************)
EXTENDS Naturals

CONSTANT MaxEntries      \* bound on entries of a session

ModesAssumption == MaxEntries \in Nat \ {0}

VARIABLES
  system,        \* "posix", "windows"; "other" has no backend
  modes, screen, \* the terminal: modes of its input and output, "main" or "alternate"
  step,          \* "out", "configure", "raw", "input", "fallback", "write", "in", "undo",
                 \* "leave", "restore", "output"
  entered, active, saved,    \* _entered, _active, the backend's snapshot or Nothing
  failing,       \* entering has failed, or a first failure of restore() is kept
  reported,      \* the session ended with an exception
  original, shown,   \* history: the modes and the screen before the session
  refused,       \* history: what the system has refused to restore in this session
  entries

session == <<entered, active, saved, failing>>
vars == <<system, modes, screen, step, session, reported, original, shown, refused, entries>>

Nothing == [none |-> TRUE]
Cooked  == [input |-> "cooked", output |-> "cooked"]

Init ==
  /\ system \in {"posix", "windows", "other"}
  /\ modes = Cooked /\ original = Cooked /\ screen = "main" /\ shown = "main"
  /\ step = "out" /\ entered = FALSE /\ active = FALSE /\ saved = Nothing
  /\ failing = FALSE /\ reported = FALSE /\ refused = {} /\ entries = 0

To(s) == step' = s
Same  == UNCHANGED <<system, original, shown, entries>>

\* __enter__, on a terminal; without a backend the session runs without one.
Enter ==
  /\ step = "out" /\ ~entered /\ entries < MaxEntries /\ entries' = entries + 1
  /\ entered' = TRUE /\ failing' = FALSE /\ reported' = FALSE /\ refused' = {}
  /\ original' = modes /\ shown' = screen
  /\ To(IF system = "other" THEN "in" ELSE "configure")
  /\ UNCHANGED <<system, modes, screen, active, saved>>

EnterFails ==
  /\ To("undo") /\ failing' = TRUE
  /\ UNCHANGED <<entered, active, saved, modes, screen, reported, refused>> /\ Same

\* configure: the modes are captured, before any is changed.
Captured ==
  /\ step = "configure" /\ saved' = modes /\ To("raw")
  /\ UNCHANGED <<entered, active, failing, modes, screen, reported, refused>> /\ Same

\* posix: raw input.  windows: the output first.
Changed(side, to, next) ==
  /\ modes' = [modes EXCEPT ![side] = to] /\ To(next)
  /\ UNCHANGED <<session, screen, reported, refused>> /\ Same
Raw ==
  \/ step = "raw" /\ system = "posix" /\ Changed("input", "raw", "write")
  \/ step = "raw" /\ system = "windows" /\ Changed("output", "raw", "input")
  \/ step = "input" /\ Changed("input", "raw", "write")
  \/ step = "fallback" /\ Changed("input", "fallback", "write")

\* Windows input without sequences, if it refuses them.
NoSequences == step = "input" /\ To("fallback") /\ UNCHANGED <<session, modes, screen, reported, refused>> /\ Same

Fails == step \in {"configure", "raw", "fallback"} /\ EnterFails

\* The backend is configured: now the screen is taken.
TakeScreen ==
  /\ step = "write" /\ active' = TRUE
  /\ \/ To("in") /\ screen' = "alternate" /\ UNCHANGED failing
     \/ /\ To("undo") /\ failing' = TRUE      \* write or flush raises
        /\ screen' \in {screen, "alternate"}
  /\ UNCHANGED <<entered, saved, modes, reported, refused>> /\ Same

\* Leaving, or undoing an entry that failed: first the screen, if it was taken.
Leave == step = "in" /\ To("leave") /\ UNCHANGED <<session, modes, screen, reported, refused>> /\ Same
GiveScreen ==
  /\ step \in {"undo", "leave"} /\ To("restore")
  /\ IF active
     THEN \/ screen' = "main" /\ UNCHANGED <<failing, refused>>
          \/ /\ UNCHANGED screen /\ refused' = refused \cup {"screen"}
             /\ failing' = TRUE
     ELSE UNCHANGED <<screen, failing, refused>>
  /\ UNCHANGED <<entered, active, saved, modes, reported>> /\ Same

\* restore(): the modes that were captured, the input's first; the output's also when
\* that has failed.
Over ==
  /\ To("out") /\ entered' = FALSE /\ active' = FALSE /\ saved' = Nothing
  /\ failing' = FALSE
Restored(side, given) ==
  /\ modes' = IF given THEN [modes EXCEPT ![side] = saved[side]] ELSE modes
  /\ refused' = IF given THEN refused ELSE refused \cup {side}

\* Planted error: a refusal of the input's modes ends restore().
RestoreInputFirst(given) ==
  /\ step = "restore"
  /\ IF saved = Nothing
     THEN Over /\ reported' = failing /\ UNCHANGED <<modes, refused>>
     ELSE /\ Restored("input", given)
          /\ IF system = "windows" /\ given
             THEN To("output") /\ UNCHANGED <<session, reported>>
             ELSE Over /\ reported' = (failing \/ ~given)
  /\ UNCHANGED screen /\ Same

RestoreInput(given) ==
  /\ step = "restore"
  /\ IF saved = Nothing
     THEN Over /\ reported' = failing /\ UNCHANGED <<modes, refused>>
     ELSE /\ Restored("input", given)
          /\ IF system = "windows"
             THEN /\ To("output") /\ failing' = (failing \/ ~given)
                  /\ UNCHANGED <<entered, active, saved, reported>>
             ELSE Over /\ reported' = (failing \/ ~given)
  /\ UNCHANGED screen /\ Same

RestoreOutput(given) ==
  /\ step = "output" /\ Restored("output", given) /\ Over
  /\ reported' = (failing \/ ~given)
  /\ UNCHANGED screen /\ Same

Next ==
  \/ Enter \/ Captured \/ Raw \/ NoSequences \/ Fails \/ TakeScreen
  \/ Leave \/ GiveScreen
  \/ \E given \in BOOLEAN : RestoreInput(given) \/ RestoreOutput(given)

Spec == Init /\ [][Next]_vars

(***************************************************************************)
(* Properties.                                                              *)
(***************************************************************************)
TypeOK ==
  /\ step \in {"out", "configure", "raw", "input", "fallback", "write", "in", "undo",
               "leave", "restore", "output"}
  /\ modes \in [input : {"cooked", "raw", "fallback"}, output : {"cooked", "raw"}]
  /\ screen \in {"main", "alternate"}
  /\ active => entered

\* Outside a session the terminal is as it was before, wherever the entry or the exit
\* has failed, but for what the system refused to give back; and then an exception
\* says so (terminal.py __enter__, __exit__, terminal_backend.py restore).
GivenBack ==
  step = "out" =>
    /\ \A side \in {"input", "output"} \ refused : modes[side] = original[side]
    /\ "screen" \notin refused => screen \in {"main", shown}
    /\ refused # {} => reported
=============================================================================
