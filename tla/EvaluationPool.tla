---------------------------- MODULE EvaluationPool ----------------------------
(***************************************************************************)
(* The evaluation of one candidate on a batch of examples (plugins/optimization *)
(* /gepa/evaluation.py, stdio_capture.py, optimize_anything.py).              *)
(*                                                                         *)
(* The threads of a pool look an answer up in a cache they share, or call the   *)
(* evaluator with their output captured, and may then have the candidate        *)
(* refined and evaluated again.  The evaluator is a language model: it may      *)
(* answer differently each time, or raise.  The process may be killed; an       *)
(* adapter that keeps its cache on disk loads it again.                       *)
(***************************************************************************)
EXTENDS Integers, Sequences, FiniteSets, SequencesExt

CONSTANTS
  Candidates, Examples,
  Batches,          \* the batches asked for: sequences of examples
  TopScore,         \* scores are 0..TopScore
  Workers,          \* max_workers
  TopK,             \* best_example_evals_k
  MaxRefinements,   \* max_refinements
  Settings,         \* records of parallel, caching, refining, raising, capturing
  MaxBatches,       \* batches of a behaviour; a refined one counts for two
  MaxKills

PoolAssumption ==
  /\ {Workers, TopK} \subseteq Nat \ {0}
  /\ {TopScore, MaxRefinements, MaxBatches, MaxKills} \subseteq Nat
  /\ Batches \subseteq Seq(Examples)
  /\ Settings \subseteq [parallel : BOOLEAN, caching : {"off", "memory", "disk"},
                         refining : BOOLEAN, raising : BOOLEAN, capturing : BOOLEAN]

VARIABLES
  settings,
  batch, candidate, \* what evaluate() was called with; <<>> when it is not running
  work,             \* of each position: its step and what it has in hand
  done,             \* the futures in the order they completed
  handed,           \* what evaluate() returned or raised last, or Nothing
  memory, disk,     \* _eval_cache and the files of fitness_cache
  top,              \* _best_evals_by_example
  stdout,           \* sys.stdout: 0 is the original stream, n the n-th wrapper
  users, installed, \* _refcount, and the number of wrappers there have been
  batches, kills,   \* how many there have been
  answered,         \* history: what the evaluator has answered
  recorded,         \* history: the scores recorded of each example, by this process
  strayed           \* history: output that was not captured where it belongs

pool == <<batch, candidate, work, done, handed>>
capture == <<stdout, users, installed>>
caches == <<memory, disk>>
vars == <<settings, pool, caches, top, capture, batches, kills, answered, recorded, strayed>>

Nothing == [none |-> TRUE]
Failure == [raised |-> TRUE]
Answer(c, e, s) == [candidate |-> c, example |-> e, score |-> s, failed |-> FALSE]
Error(c, e)     == [candidate |-> c, example |-> e, score |-> 0, failed |-> TRUE]
Answers == {Answer(c, e, s) : c \in Candidates, e \in Examples, s \in 0..TopScore}
             \cup {Error(c, e) : c \in Candidates, e \in Examples}

Steps == {"queued", "lookup", "capture", "evaluate", "store", "got", "refine", "failed", "done"}

Positions == DOMAIN batch
Idle      == batch = <<>>
Key(i)    == <<work[i].asks, batch[i]>>
Queued    == [step |-> "queued", asks |-> candidate', answer |-> Nothing, original |-> Nothing,
              best |-> Nothing, tries |-> 0, holds |-> 0]

Init ==
  /\ settings \in Settings
  /\ batch = <<>> /\ candidate \in Candidates /\ work = <<>> /\ done = <<>> /\ handed = Nothing
  /\ memory = <<>> /\ disk = <<>> /\ top = [e \in Examples |-> <<>>]
  /\ stdout = 0 /\ users = 0 /\ installed = 0 /\ batches = 0 /\ kills = 0
  /\ answered = {} /\ recorded = [e \in Examples |-> <<>>] /\ strayed = {}

Evaluate(c, b) ==
  /\ Idle
  /\ batches' = batches + (IF settings.refining THEN 2 ELSE 1) /\ batches' <= MaxBatches
  /\ batch' = b /\ candidate' = c
  /\ work' = [i \in DOMAIN b |-> Queued]
  /\ done' = <<>> /\ handed' = Nothing
  /\ UNCHANGED <<settings, caches, top, capture, kills, answered, recorded, strayed>>

(***************************************************************************)
(* The pool takes the positions in their order, and has so many threads; one   *)
(* thread alone takes the next when the last one is done and did not raise.     *)
(***************************************************************************)
Running == {i \in Positions : work[i].step \notin {"queued", "done"}}
Pooled  == settings.parallel /\ Len(batch) > 1
Raised  == \E n \in DOMAIN done : done[n][2] = Failure

Becomes(i, s) == work' = [work EXCEPT ![i].step = s]

Begin(i) ==
  /\ work[i].step = "queued" /\ \A j \in 1..(i - 1) : work[j].step # "queued"
  /\ Cardinality(Running) < IF Pooled THEN Workers ELSE 1
  /\ ~Pooled => ~Raised
  /\ Becomes(i, "lookup")
  /\ UNCHANGED <<settings, batch, candidate, done, handed, caches, top, capture, batches, kills,
                 answered, recorded, strayed>>

(***************************************************************************)
(* _call_evaluator: the lock is held for the look into the cache, and taken     *)
(* again for the answer.                                                    *)
(***************************************************************************)
Hit(i) == settings.caching # "off" /\ Key(i) \in DOMAIN memory

Lookup(i) ==
  /\ work[i].step = "lookup"
  /\ work' = IF Hit(i) THEN [work EXCEPT ![i].step = "got", ![i].answer = memory[Key(i)]]
             ELSE [work EXCEPT ![i].step = "capture"]
  /\ UNCHANGED <<settings, batch, candidate, done, handed, caches, top, capture, batches, kills,
                 answered, recorded, strayed>>

\* The first user installs a wrapper, the others share it.
Acquire(i) ==
  /\ installed' = IF users = 0 THEN installed + 1 ELSE installed
  /\ users' = users + 1
  /\ stdout' = IF users = 0 THEN installed' ELSE stdout
  /\ work' = [work EXCEPT ![i].step = "evaluate", ![i].holds = installed']

\* Planted error: the first to end takes the stream from the others.
ReleasedByAny == users' = users - 1 /\ UNCHANGED installed /\ stdout' = 0

Released ==
  /\ users' = users - 1 /\ UNCHANGED installed
  /\ stdout' = IF users' = 0 THEN 0 ELSE stdout

Capture(i) ==
  /\ work[i].step = "capture"
  /\ IF settings.capturing THEN Acquire(i) ELSE Becomes(i, "evaluate") /\ UNCHANGED capture
  /\ UNCHANGED <<settings, batch, candidate, done, handed, caches, top, batches, kills, answered,
                 recorded, strayed>>

\* A wrapper keeps the output of a thread that captures on it.
Write(i) ==
  /\ work[i].step = "evaluate" /\ settings.capturing
  /\ strayed' = IF stdout = work[i].holds THEN strayed ELSE strayed \cup {batch[i]}
  /\ UNCHANGED <<settings, pool, caches, top, capture, batches, kills, answered, recorded>>

\* The evaluator ends; whatever it did, the capture ends with it.
Ends(i) == IF settings.capturing THEN Released ELSE UNCHANGED capture

Keeps(i) == IF settings.caching = "off" THEN "got" ELSE "store"

Returns(i, s) ==
  /\ work[i].step = "evaluate" /\ Ends(i)
  /\ LET a == Answer(work[i].asks, batch[i], s) IN
     /\ answered' = answered \cup {a}
     /\ work' = [work EXCEPT ![i].step = Keeps(i), ![i].answer = a, ![i].holds = 0]
  /\ UNCHANGED <<settings, batch, candidate, done, handed, caches, top, batches, kills, recorded, strayed>>

Raises(i) ==
  /\ work[i].step = "evaluate" /\ Ends(i)
  /\ IF settings.raising THEN work' = [work EXCEPT ![i].step = "failed", ![i].holds = 0]
     ELSE work' = [work EXCEPT ![i].step = Keeps(i), ![i].answer = Error(work[i].asks, batch[i]),
                               ![i].holds = 0]
  /\ UNCHANGED <<settings, batch, candidate, done, handed, caches, top, batches, kills, answered,
                 recorded, strayed>>

With(f, k, a) == [x \in DOMAIN f \cup {k} |-> IF x = k THEN a ELSE f[x]]

\* The answer is in memory before its file is written, and the write may fail.
Store(i) ==
  /\ work[i].step = "store"
  /\ memory' = With(memory, Key(i), work[i].answer)
  /\ IF settings.caching = "disk"
     THEN \/ disk' = With(disk, Key(i), work[i].answer) /\ Becomes(i, "got")
          \/ UNCHANGED disk /\ Becomes(i, "failed")
     ELSE UNCHANGED disk /\ Becomes(i, "got")
  /\ UNCHANGED <<settings, batch, candidate, done, handed, top, capture, batches, kills, answered,
                 recorded, strayed>>

(***************************************************************************)
(* The best scores of each example, the highest first.                        *)
(***************************************************************************)
Ranked(s) == SortSeq(s, LAMBDA x, y : x > y)
Kept(s)   == SubSeq(Ranked(s), 1, IF Len(s) < TopK THEN Len(s) ELSE TopK)

Record(e, s) ==
  /\ top' = [top EXCEPT ![e] = Kept(Append(@, s))]
  /\ recorded' = [recorded EXCEPT ![e] = Append(@, s)]

(***************************************************************************)
(* Refinement: every attempt that scores better than the last is the base of    *)
(* the next; a failing evaluation of an attempt ends it, and is not raised.      *)
(***************************************************************************)
Better(i) == work[i].answer.score > work[i].best.score

Settled(i) == work[i].original # Nothing

Again(i, b) ==
  [work EXCEPT ![i].step = "refine", ![i].best = b,
               ![i].original = IF Settled(i) THEN @ ELSE work[i].answer]
Over(i) == [work EXCEPT ![i].step = "done"]

Finish(i, r) == done' = Append(done, <<i, r>>)

\* An answer: the result of the example, or the base of a refinement.
Got(i) ==
  /\ work[i].step = "got"
  /\ IF ~settings.refining
     THEN Finish(i, work[i].answer) /\ work' = Over(i) /\ UNCHANGED <<top, recorded>>
     ELSE /\ Record(batch[i], work[i].answer.score)
          /\ IF ~Settled(i) \/ Better(i)
             THEN work' = Again(i, work[i].answer) /\ UNCHANGED done
             ELSE Finish(i, work[i].best) /\ work' = Over(i)
  /\ UNCHANGED <<settings, batch, candidate, handed, caches, capture, batches, kills, answered, strayed>>

\* The model proposes a candidate, writes something unreadable, or fails.
Propose(i, c) ==
  /\ work[i].step = "refine" /\ work[i].tries < MaxRefinements
  /\ work' = [work EXCEPT ![i].step = "lookup", ![i].asks = c, ![i].tries = @ + 1]
  /\ UNCHANGED <<settings, batch, candidate, done, handed, caches, top, capture, batches, kills,
                 answered, recorded, strayed>>

ProposeUnreadable(i) ==
  /\ work[i].step = "refine" /\ work[i].tries < MaxRefinements
  /\ work' = [work EXCEPT ![i].tries = @ + 1]
  /\ UNCHANGED <<settings, batch, candidate, done, handed, caches, top, capture, batches, kills,
                 answered, recorded, strayed>>

Refined(i) ==
  /\ work[i].step = "refine"
  /\ Finish(i, work[i].best) /\ work' = Over(i)
  /\ UNCHANGED <<settings, batch, candidate, handed, caches, top, capture, batches, kills, answered,
                 recorded, strayed>>

Fail(i) ==
  /\ work[i].step = "failed"
  /\ Finish(i, IF Settled(i) THEN work[i].best ELSE Failure) /\ work' = Over(i)
  /\ UNCHANGED <<settings, batch, candidate, handed, caches, top, capture, batches, kills, answered,
                 recorded, strayed>>

(***************************************************************************)
(* The end: the pool is left when its threads have ended, an exception is       *)
(* raised again, and the results go back into the order of the batch.           *)
(***************************************************************************)
Joined == Running = {} /\ (Len(done) = Len(batch) \/ (~Pooled /\ Raised))

InOrder == [n \in DOMAIN done |-> SortSeq(done, LAMBDA x, y : x[1] < y[1])[n][2]]

\* All results are recorded, those of one example one after the other.
RecordAll(r) ==
  LET mine(e) == SelectSeq(r, LAMBDA a : a.example = e)
      of(e) == [n \in DOMAIN mine(e) |-> mine(e)[n].score] IN
  /\ top' = [e \in Examples |-> Kept(top[e] \o of(e))]
  /\ recorded' = [e \in Examples |-> recorded[e] \o of(e)]

Return ==
  /\ ~Idle /\ Joined
  /\ batch' = <<>> /\ work' = <<>> /\ done' = <<>>
  /\ handed' = IF Raised THEN Failure ELSE [batch |-> batch, candidate |-> candidate, results |-> InOrder]
  /\ IF Raised \/ settings.refining THEN UNCHANGED <<top, recorded>> ELSE RecordAll(InOrder)
  /\ UNCHANGED <<settings, candidate, caches, capture, batches, kills, answered, strayed>>

\* The process is killed; a new one starts with what is on disk.
Kill ==
  /\ kills < MaxKills /\ kills' = kills + 1
  /\ batch' = <<>> /\ work' = <<>> /\ done' = <<>> /\ handed' = Nothing
  /\ memory' = disk /\ top' = [e \in Examples |-> <<>>]
  /\ stdout' = 0 /\ users' = 0
  /\ recorded' = [e \in Examples |-> <<>>]
  /\ UNCHANGED <<settings, candidate, disk, installed, batches, answered, strayed>>

Next ==
  \/ \E c \in Candidates, b \in Batches : Evaluate(c, b)
  \/ \E i \in Positions :
       \/ Begin(i) \/ Lookup(i) \/ Capture(i) \/ Write(i) \/ Raises(i) \/ Store(i) \/ Got(i)
       \/ ProposeUnreadable(i) \/ Refined(i) \/ Fail(i)
       \/ \E s \in 0..TopScore : Returns(i, s)
       \/ \E c \in Candidates : Propose(i, c)
  \/ Return \/ Kill

Spec == Init /\ [][Next]_vars

(***************************************************************************)
(* Properties.                                                              *)
(***************************************************************************)
TypeOK ==
  /\ settings \in Settings /\ batch \in Seq(Examples) /\ candidate \in Candidates
  /\ \A i \in DOMAIN work : work[i].step \in Steps /\ work[i].asks \in Candidates
                            /\ {work[i].answer, work[i].original, work[i].best} \subseteq Answers \cup {Nothing}
  /\ \A n \in DOMAIN done : done[n] \in Positions \X (Answers \cup {Failure})
  /\ DOMAIN memory \subseteq Candidates \X Examples /\ DOMAIN disk \subseteq Candidates \X Examples
  /\ top \in [Examples -> Seq(0..TopScore)]
  /\ {stdout, users, installed, batches, kills} \subseteq Nat
  /\ strayed \subseteq Examples

\* Each result belongs to its example: an answer the evaluator gave for it, to this
\* candidate or to a better refinement (evaluation.py _run_parallel, evaluate,
\* _evaluate_single_with_refinement).
ResultsInPlace ==
  /\ \A i \in DOMAIN work :
       work[i].step = "got" => work[i].answer.candidate = work[i].asks /\ work[i].answer.example = batch[i]
  /\ "results" \in DOMAIN handed =>
       /\ Len(handed.results) = Len(handed.batch)
       /\ \A i \in DOMAIN handed.results :
            LET r == handed.results[i] IN
            /\ r.example = handed.batch[i]
            /\ r \in answered \/ (r.failed /\ ~settings.raising)
            /\ ~settings.refining => r.candidate = handed.candidate

\* What the caches hold was answered for this candidate and example; a failure that is
\* raised is not remembered, also not by the next process (evaluation.py _call_evaluator,
\* _save_cache_entry, _load_cache).
CacheGenuine ==
  \A f \in {memory, disk} : \A k \in DOMAIN f :
    /\ f[k].candidate = k[1] /\ f[k].example = k[2]
    /\ f[k] \in answered \/ (f[k].failed /\ ~settings.raising)

\* Of all scores recorded the best are kept, the highest first, whatever order the
\* threads came in: the n-th is one that fewer than n others beat (evaluation.py
\* _update_best_example_evals).
AtLeast(e, s) == Cardinality({k \in DOMAIN recorded[e] : recorded[e][k] >= s})

BestKept ==
  \A e \in Examples :
    /\ Len(top[e]) = TopK \/ Len(top[e]) = Len(recorded[e])
    /\ \A n \in DOMAIN top[e] : AtLeast(e, top[e][n] + 1) < n /\ n <= AtLeast(e, top[e][n])

\* Output of an evaluation is captured with it, and the stream of the program is back
\* when none is under way (stdio_capture.py StreamCaptureManager).
OutputCaptured ==
  /\ strayed = {}
  /\ users = Cardinality({i \in Positions : work[i].holds # 0})
  /\ (stdout = 0) <=> (users = 0)

\* What the cache has is not asked for again, except by two threads that evaluate the
\* same example at the same time (evaluation.py _call_evaluator).
AskedOnce ==
  \A i \in DOMAIN work :
    settings.caching # "off" /\ work[i].step \in {"capture", "evaluate", "store"}
      /\ Key(i) \in DOMAIN memory
      => Pooled /\ \E j \in Positions \ {i} : batch[j] = batch[i]

PoolHonest == ResultsInPlace /\ CacheGenuine /\ BestKept /\ OutputCaptured /\ AskedOnce
=============================================================================
