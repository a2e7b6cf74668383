---------------------------- MODULE ContextPolicy ----------------------------
(***************************************************************************)
(* plugins/context: what a model request is built from.  select_instruction   *)
(* decides how much memory the instructions may hold, _Compaction which        *)
(* action-result pairs stay verbatim and how large the digests of the rest     *)
(* may be, each with a size calculation of its own; the history they read is   *)
(* what AgentSession.send leaves.  A message is its kind, its prompt and the   *)
(* length of its content.                                                      *)
(***************************************************************************)
EXTENDS Integers, Sequences, SequencesExt, FiniteSets

CONSTANTS
  Lengths,         \* lengths of contents
  Budgets,         \* context_chars of a session
  KeepRecent,      \* keep_recent_turns
  MaxMemory,       \* context_limit of the memory plugin, bound on stored
  MaxPrompts,      \* bound on prompts
  MaxSteps         \* bound on the actions of a turn

VARIABLES
  settings,    \* instruction_role is "user", context_chars, a memory is enabled
  history,     \* _history
  start,       \* its length when the open turn began, or Closed
  stored,      \* the length of the memories of the workspace
  request      \* the last answer of request_messages

vars == <<settings, history, start, stored, request>>

Closed   == -1
NoMemory == -1

(***************************************************************************)
(* Lengths of fixed texts.  A digest line counts the escaped line break that   *)
(* separates it only once it is serialised.                                    *)
(***************************************************************************)
Protocol   == 1      \* instructions without memory
Braces     == 1      \* of a serialised message
Prefix     == 1      \* COMPACTION_PREFIX
Separator  == 1      \* COMPACTION_SEPARATOR and the other separators
Bullet     == 1
Omission   == 2
Clip       == 2      \* summary_clip_chars

Smaller(x, y) == IF x < y THEN x ELSE y
Larger(x, y)  == IF x > y THEN x ELSE y

Total(ns) == FoldSeq(+, 0, ns)

Messages(items) ==
  [i \in DOMAIN items |-> [user |-> items[i].kind # "assistant", length |-> items[i].length]]

MessagesSize(ms) == Total([i \in DOMAIN ms |-> ms[i].length + Braces])

(***************************************************************************)
(* Digests                                                                    *)
(***************************************************************************)
NoDigest == [length |-> 0, breaks |-> 0]

DigestHeader(n) == Prefix + (IF n < 3 THEN 1 ELSE 2)

Line(item) == Smaller(item.length, Clip) + Bullet

\* The result of an action is in the group of the action.
Paired(items, i) ==
  /\ i \in 2..Len(items)
  /\ items[i - 1].kind = "assistant" /\ items[i].kind = "host_result"
  /\ items[i - 1].id = items[i].id

Extra(items, i) ==
  Line(items[i]) + (IF Paired(items, i + 1) THEN Line(items[i + 1]) ELSE 0)

\* Groups are taken newest first, whole, each if it still fits.
SessionDigest(items, limit) ==
  LET n == Len(items)
      Take(i, taken) ==
        IF Paired(items, i) \/ taken.length + Extra(items, i) > limit THEN taken
        ELSE [length |-> taken.length + Extra(items, i),
              breaks |-> taken.breaks + IF Paired(items, i + 1) THEN 2 ELSE 1]
      most == FoldRight(Take, [i \in 1..n |-> i], [length |-> DigestHeader(n), breaks |-> 0])
  IN IF most.breaks < n /\ most.length + Omission + Bullet <= limit
     THEN [length |-> most.length + Omission + Bullet, breaks |-> most.breaks + 1]
     ELSE most

MinimumDigest(items) ==
  IF items = <<>> THEN NoDigest ELSE SessionDigest(items, DigestHeader(Len(items)))

Serialised(digest) == digest.length + digest.breaks

(***************************************************************************)
(* The shape of a request: the anchors with the instructions, both digests and *)
(* the active prompt, and the messages that stay verbatim.                     *)
(***************************************************************************)
Candidate(instructions, prior, rawPrior, active, digest, rawActive) ==
  LET task   == active.length + IF digest = NoDigest THEN 0 ELSE Separator + Serialised(digest)
      user(n) == [user |-> TRUE, length |-> n]
      system == <<[user |-> FALSE, length |-> instructions]>>
      head   == IF settings.asUser THEN <<>> ELSE system
      own    == IF settings.asUser THEN instructions + Separator ELSE 0
      past   == IF prior = NoDigest THEN 0 ELSE Serialised(prior)
      gap    == IF prior = NoDigest \/ rawPrior # <<>> THEN 0 ELSE Separator
  IN head \o
     (IF rawPrior = <<>> THEN <<user(own + past + gap + task)>>
      ELSE <<user(own + past)>> \o Messages(rawPrior) \o <<user(task)>>)
     \o Messages(rawActive)

Alternates(ms) == \A i \in 1..Len(ms) - 1 : ~(ms[i].user /\ ms[i + 1].user)

Fits(ms) == MessagesSize(ms) <= settings.budget

(***************************************************************************)
(* select_instruction.  fits() weighs a floor for the request: the longest     *)
(* header stands for each digest that may become necessary.                    *)
(***************************************************************************)
InstructionPrompt(limit) == Protocol + Smaller(limit, Larger(stored, 0))

Floor(h, at, recent, limit, hasPrior) ==
  LET tail    == SubSeq(h, at + 1, Len(h))
      reserve == [length |-> DigestHeader(Larger(1, Len(h))), breaks |-> 0]
      prior   == IF hasPrior THEN reserve ELSE NoDigest
      digest  == IF recent < Len(tail) THEN reserve ELSE NoDigest
  IN Candidate(InstructionPrompt(limit), prior, <<>>, h[at], digest,
               SubSeq(tail, Len(tail) - recent + 1, Len(tail)))

\* A floor that forgets the digest of what came before the active prompt.
FloorFitsNoPrior(h, at, recent, limit) == Fits(Floor(h, at, recent, limit, FALSE))
FloorFits(h, at, recent, limit) == Fits(Floor(h, at, recent, limit, at > 1))

\* How many of the latest messages of the task select_instruction reserves.
Recent(h, at) ==
  LET reserve[n \in Int] ==
        IF n = 0 \/ FloorFits(h, at, n, 2) THEN n ELSE reserve[Larger(0, n - 2)]
  IN reserve[Len(h) - at]

\* The bisection over the memory limit, and NoLimit when nothing fits.
NoLimit == -1
MemoryLimit(h, at, recent) ==
  LET search[low, high \in Int] ==
        IF low > high THEN NoLimit
        ELSE LET middle == (low + high) \div 2
                 above  == search[middle + 1, high]
             IN IF ~FloorFits(h, at, recent, middle) THEN search[low, middle - 1]
                ELSE IF above = NoLimit THEN middle ELSE above
  IN IF stored # NoMemory THEN search[2, MaxMemory]
     ELSE IF FloorFits(h, at, recent, 2) THEN 2 ELSE NoLimit

(***************************************************************************)
(* _Compaction.  keep counts pairs, the active task's first.                  *)
(***************************************************************************)
Alternate(tail, id) ==
  /\ Len(tail) % 2 = 0
  /\ \A i \in DOMAIN tail :
       tail[i].id = id /\ tail[i].kind = IF i % 2 = 1 THEN "assistant" ELSE "host_result"

PairStarts(before) == {i \in DOMAIN before : Paired(before, i + 1)}

\* A result that does not follow its action breaks the history.
Ordered(before) == \A i \in DOMAIN before : before[i].kind = "host_result" => Paired(before, i)

Parts(before, tail, keep) ==
  LET keepActive == Smaller(keep, Len(tail) \div 2)
      keepPrior  == keep - keepActive
      cut   == IF keepPrior = 0 THEN Len(before) + 1
               ELSE CHOOSE i \in PairStarts(before) :
                      Cardinality({j \in PairStarts(before) : j >= i}) = keepPrior
      split == Len(tail) - 2 * keepActive
  IN [oldPrior |-> SubSeq(before, 1, cut - 1), rawPrior |-> SubSeq(before, cut, Len(before)),
      oldActive |-> SubSeq(tail, 1, split), rawActive |-> SubSeq(tail, split + 1, Len(tail))]

(***************************************************************************)
(* request_messages, step by step, for the task whose prompt is at Active.    *)
(***************************************************************************)
Active == CHOOSE i \in DOMAIN history :
            history[i].kind = "prompt" /\ \A j \in i + 1..Len(history) : history[j].kind # "prompt"
Before == SubSeq(history, 1, Active - 1)
After  == SubSeq(history, Active + 1, Len(history))

NoRequest == [status |-> "none", limit |-> NoLimit, keep |-> 0, active |-> NoDigest,
              prior |-> NoDigest, room |-> 0, messages |-> <<>>]

Becomes(r) == request' = r /\ UNCHANGED <<settings, history, start, stored>>

\* An exception gives back the history the turn began with.
Raises(status) ==
  /\ request' = [NoRequest EXCEPT !.status = status]
  /\ history' = SubSeq(history, 1, start) /\ start' = Closed
  /\ UNCHANGED <<settings, stored>>

Full(limit) ==
  IF settings.asUser
  THEN Messages([history EXCEPT ![1].length = @ + InstructionPrompt(limit) + Separator])
  ELSE <<[user |-> FALSE, length |-> InstructionPrompt(limit)]>> \o Messages(history)

Select ==
  /\ request.status = "select"
  /\ \E limit \in {MemoryLimit(history, Active, Recent(history, Active))} :
       IF limit = NoLimit THEN Raises("refused")
       ELSE Becomes([request EXCEPT !.status = "selected", !.limit = limit])

MaximumKeep == Len(After) \div 2 + Smaller(KeepRecent, Cardinality(PairStarts(Before)))

Build ==
  /\ request.status = "selected"
  /\ \E full \in {Full(request.limit)} :
       IF history[1].kind # "prompt" THEN Raises("invalid")
       ELSE IF Fits(full) THEN Becomes([request EXCEPT !.status = "full", !.messages = full])
       ELSE IF ~Alternate(After, history[Active].id) \/ ~Ordered(Before) THEN Raises("invalid")
       ELSE Becomes([request EXCEPT !.status = "compact", !.keep = MaximumKeep])

Shape(parts, prior, active) ==
  Candidate(InstructionPrompt(request.limit), prior, parts.rawPrior,
            history[Active], active, parts.rawActive)

FewerPairs ==
  IF request.keep = 0 THEN Raises("overflow")
  ELSE Becomes([request EXCEPT !.status = "compact", !.keep = @ - 1])

\* keep pairs are tried with the shortest digests first.
Compact ==
  /\ request.status = "compact"
  /\ \E parts \in {Parts(Before, After, request.keep)} :
     \E prior \in {MinimumDigest(parts.oldPrior)}, active \in {MinimumDigest(parts.oldActive)} :
     \E ms \in {Shape(parts, prior, active)} :
       IF ~Alternates(ms) THEN Raises("invalid")
       ELSE IF ~Fits(ms) THEN FewerPairs
       ELSE Becomes([request EXCEPT !.status = "active", !.prior = prior, !.active = active,
                                    !.room = settings.budget])

\* enrich_digest: a digest that leaves too much is made again for less room.
Enrich(items, ShapeWith(_), Use(_)) ==
  \E digest \in {SessionDigest(items, request.room)} :
  \E overflow \in {MessagesSize(ShapeWith(digest)) - settings.budget} :
    IF overflow <= 0 THEN Use(digest)
    ELSE Becomes([request EXCEPT !.room = Smaller(@ - Larger(1, overflow), digest.length - 1)])

NoRoom(items) == items = <<>> \/ request.room < DigestHeader(Len(items))

EnrichActive ==
  /\ request.status = "active"
  /\ \E parts \in {Parts(Before, After, request.keep)} :
       LET With(d) == Shape(parts, request.prior, d)
           Use(d)  == Becomes([request EXCEPT !.status = "prior", !.active = d,
                                              !.room = settings.budget])
       IN IF NoRoom(parts.oldActive) THEN Use(request.active)
          ELSE Enrich(parts.oldActive, With, Use)

EnrichPrior ==
  /\ request.status = "prior"
  /\ \E parts \in {Parts(Before, After, request.keep)} :
       LET With(d) == Shape(parts, d, request.active)
           Use(d)  == Becomes([request EXCEPT !.status = "enriched", !.prior = d])
       IN IF NoRoom(parts.oldPrior) THEN Use(request.prior)
          ELSE Enrich(parts.oldPrior, With, Use)

Return ==
  /\ request.status = "enriched"
  /\ \E ms \in {Shape(Parts(Before, After, request.keep), request.prior, request.active)} :
       IF Fits(ms) THEN Becomes([request EXCEPT !.status = "compacted", !.messages = ms])
       ELSE FewerPairs

(***************************************************************************)
(* The turn: AgentSession.send                                                *)
(***************************************************************************)
Ready == {"none", "full", "compacted", "refused", "overflow", "invalid"}

TypeOK ==
  /\ settings \in [asUser : BOOLEAN, budget : Budgets]
  /\ history \in Seq([kind : {"prompt", "assistant", "host_result"}, id : 1..MaxPrompts,
                      length : Lengths])
  /\ start \in Closed..Len(history)
  /\ stored \in {NoMemory} \cup 2..MaxMemory
  /\ request.status \in Ready \cup {"select", "selected", "compact", "active", "prior", "enriched"}
  /\ request.keep \in 0..MaxSteps + KeepRecent
  /\ request.room <= settings.budget

Init ==
  /\ settings \in [asUser : BOOLEAN, budget : Budgets]
  /\ history = <<>> /\ start = Closed
  /\ stored \in {NoMemory, 2}
  /\ request = NoRequest

Item(kind, id, n) == [kind |-> kind, id |-> id, length |-> n]
PromptId == IF history = <<>> THEN 0 ELSE history[Len(history)].id

Requests(h) == history' = h /\ request' = [NoRequest EXCEPT !.status = "select"]

Prompt(n) ==
  /\ start = Closed /\ PromptId < MaxPrompts
  /\ start' = Len(history)
  /\ Requests(Append(history, Item("prompt", PromptId + 1, n)))
  /\ UNCHANGED <<settings, stored>>

\* The model has been asked; its reply and the result of its action follow.
Asked == start # Closed /\ request.status \in {"full", "compacted"}
Exchange(n, m) ==
  history \o <<Item("assistant", PromptId, n), Item("host_result", PromptId, m)>>

\* remember and forget change what the workspace stores.
Remembered == stored' \in IF stored = NoMemory THEN {stored} ELSE {2, MaxMemory}

Step(n, m) ==
  /\ Asked /\ Len(history) - start < 2 * MaxSteps
  /\ Requests(Exchange(n, m))
  /\ Remembered /\ UNCHANGED <<settings, start>>

Complete(h, n) ==
  /\ history' = Append(h, Item("assistant", PromptId, n))
  /\ start' = Closed /\ request' = NoRequest
  /\ UNCHANGED settings

\* A "done" action, whose reply is the last message of the turn.
Done(n) == Asked /\ Complete(history, n) /\ UNCHANGED stored

\* A tool that finishes the turn, or a review that has used up its model turns.
Finish(n, m) ==
  /\ Asked /\ Len(history) - start < 2 * MaxSteps
  /\ Complete(Exchange(n, m), n) /\ Remembered

\* Cancellation, a failed call or too many steps.
Abort == Asked /\ Raises("none")

Next ==
  \/ \E n \in Lengths : Prompt(n) \/ Done(n)
  \/ \E n, m \in Lengths : Step(n, m) \/ Finish(n, m)
  \/ Abort
  \/ Select \/ Build \/ Compact \/ EnrichActive \/ EnrichPrior \/ Return

Spec == Init /\ [][Next]_vars

(***************************************************************************)
(* What select_instruction accepted is a request: the compaction never runs    *)
(* out of room or into a broken history, and the request fits.  And memory     *)
(* never takes the place of a result of the task: as many of its latest pairs  *)
(* are kept verbatim as fit beside the smallest memory ("Reserve complete      *)
(* active results before assigning space to dynamic memory").                  *)
(***************************************************************************)
SelectedFits ==
  /\ request.status \notin {"overflow", "invalid"}
  /\ request.status = "full" => Fits(request.messages)
  /\ request.status = "compacted" =>
       /\ Fits(request.messages) /\ Alternates(request.messages)
       /\ \A n \in 1..Len(After) \div 2 :
            FloorFits(history, Active, 2 * n, 2) => request.keep >= n
=============================================================================
