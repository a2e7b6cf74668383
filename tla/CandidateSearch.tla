---------------------------- MODULE CandidateSearch ----------------------------
(***************************************************************************)
(* The search of the prompt optimiser (plugins/optimization/gepa/engine.py,    *)
(* state.py, reflective_mutation.py, merge.py, gepa_utils.py).                *)
(*                                                                         *)
(* An iteration saves the state, then merges two candidates of the Pareto      *)
(* fronts or rewrites one component of one of them, and keeps the result if it  *)
(* did better on a sample.  An evaluation may raise, and the process may be     *)
(* killed and the run resumed from its directory.                            *)
(*                                                                         *)
(* The evaluator is one of Evaluators, functions from candidate and example.    *)
(***************************************************************************)
EXTENDS Integers, Sequences, FiniteSets, FiniteSetsExt, Functions

CONSTANTS
  Components,       \* a candidate has the components 1..Components
  Texts, Seed,      \* texts of a component, the text of the seed
  Training, Validation,   \* the examples
  TopScore,         \* scores are 0..TopScore; TopScore is perfect
  Batch,            \* size of a minibatch
  Sample,           \* examples drawn to compare a merge with its parents
  Overlap,          \* val_overlap_floor
  MaxMerges,        \* max_merge_invocations
  MaxCalls,         \* max_metric_calls
  MaxCandidates,    \* a stopper on the number of candidates
  MaxUncounted,     \* bound on calls of evaluations that raise
  Evaluators

SearchAssumption ==
  /\ {Components, Batch, Sample} \subseteq Nat \ {0}
  /\ {TopScore, Overlap, MaxMerges, MaxCalls, MaxCandidates, MaxUncounted} \subseteq Nat
  /\ Seed \in Texts
  /\ Evaluators \subseteq [[1..Components -> Texts] -> [Training \cup Validation -> 0..TopScore]]
  /\ Training \cap Validation = {} /\ Training # {} /\ Validation # {}

VARIABLES
  stage,        \* "new", "loop", "merge", "reflect", "mutate", "add", "ended"
  programs,     \* the candidates in order of discovery: their texts, parents (indices),
                \* validation scores and the component to rewrite next
  best, fronts, \* pareto_front_valset, program_at_pareto_front_valset
  total,        \* total_num_evals
  caching, cache,   \* the evaluation cache: from candidate and example to score
  due, tested, found, performed,  \* the merge proposer's counters and MergeHistory
  proposal,     \* what the iteration has in hand
  saved,        \* gepa_state.json, or Nothing
  value,        \* the evaluator of this behaviour
  spent,        \* history: calls of the evaluator that the state in hand has made
  uncounted     \* history: those of them whose evaluation has raised

state == <<programs, best, fronts, total, cache, spent, uncounted>>
merging == <<due, tested, found, performed>>
vars == <<stage, state, caching, merging, proposal, saved, value>>

Nothing    == [none |-> TRUE]
Candidates == [1..Components -> Texts]
Examples   == Training \cup Validation
Indices    == DOMAIN programs
Parents(p) == programs[p].parents
Score(p)   == MapThenSumSet(LAMBDA v : programs[p].scores[v], Validation)

(***************************************************************************)
(* Evaluation: only what the cache lacks is asked of the evaluator.  A sample   *)
(* may hold an example several times, and each of them is counted.             *)
(***************************************************************************)
\* Planted error: examples are told apart by their positions in their lists.
Position(e) == IF e \in Training THEN CHOOSE v \in Validation : TRUE ELSE e

Id(e) == e           \* NamespacedSequenceLoader: training and validation are told apart

Samples(E, n) == {w \in [E -> 0..n] : MapThenSumSet(LAMBDA e : w[e], E) = n}
Drawn(w)      == {e \in DOMAIN w : w[e] > 0}
Sum(w, r)     == MapThenSumSet(LAMBDA e : w[e] * r[e], Drawn(w))
Calls(w, E)   == MapThenSumSet(LAMBDA e : w[e], E)
Once(E)       == [e \in E |-> 1]

Cached(c, E) == {e \in E : <<c, Id(e)>> \in DOMAIN cache}
Answers(c, E) == [e \in E |-> value[c][e]]
Filled(c, f)  ==
  LET new == {<<c, Id(e)>> : e \in DOMAIN f} IN
  [k \in DOMAIN cache \cup new |->
     IF k \in new THEN f[CHOOSE e \in DOMAIN f : Id(e) = k[2]] ELSE cache[k]]

\* Planted error: answers from the cache are counted too.
AskCountsCached(c, w, E, calls) ==
  /\ cache' = IF caching THEN Filled(c, Answers(c, E)) ELSE cache
  /\ total' = total + Calls(w, Drawn(w))
  /\ spent' = spent + Calls(w, E)
  /\ UNCHANGED <<value, uncounted>>

\* The evaluator is called for E, as often as w says; calls is what is counted.
Ask(c, w, E, calls) ==
  /\ cache' = IF caching THEN Filled(c, Answers(c, E)) ELSE cache
  /\ total' = total + calls
  /\ spent' = spent + Calls(w, E)
  /\ UNCHANGED <<value, uncounted>>

\* It raises, in the middle or with what it returns: increment_evals comes after it, so
\* none of the n calls made is counted, and the cache gets nothing.
AskRaises(n) ==
  /\ uncounted + n <= MaxUncounted
  /\ spent' = spent + n /\ uncounted' = uncounted + n
  /\ UNCHANGED <<programs, best, fronts, total, cache, value>>

Results(c, w) ==
  [e \in Drawn(w) |-> IF e \in Cached(c, Drawn(w)) THEN cache[<<c, Id(e)>>] ELSE value[c][e]]

(***************************************************************************)
(* The seed and the candidates found.                                        *)
(***************************************************************************)
SeedTexts == [n \in 1..Components |-> Seed]

\* A run without a checkpoint: the seed is scored on every validation example.
Fresh ==
  LET f == Answers(SeedTexts, Validation) IN
  /\ programs' = <<[texts |-> SeedTexts, parents |-> {}, scores |-> f, next |-> 1]>>
  /\ best' = f /\ fronts' = [v \in Validation |-> {1}]
  /\ cache' = <<>>
  /\ total' = Cardinality(Validation) /\ spent' = Cardinality(Validation) /\ uncounted' = 0

Unmerged == due' = 0 /\ tested' = 0 /\ found' = FALSE /\ performed' = [triples |-> {}, merges |-> {}]

Init ==
  /\ stage = "new" /\ programs = <<>> /\ best = <<>> /\ fronts = <<>> /\ total = 0
  /\ caching = FALSE /\ cache = <<>> /\ due = 0 /\ tested = 0 /\ found = FALSE
  /\ performed = [triples |-> {}, merges |-> {}]
  /\ proposal = Nothing /\ saved = Nothing /\ value \in Evaluators
  /\ spent = 0 /\ uncounted = 0

Snapshot == [programs |-> programs, best |-> best, fronts |-> fronts, total |-> total,
             cached |-> caching, cache |-> cache, spent |-> spent,
             uncounted |-> uncounted]

Load ==
  /\ programs' = saved.programs /\ best' = saved.best /\ fronts' = saved.fronts
  /\ total' = saved.total /\ spent' = saved.spent /\ uncounted' = saved.uncounted
  /\ cache' = IF caching' /\ saved.cached THEN saved.cache ELSE <<>>

\* GEPAEngine.run in a new process: the first one, one after a crash, or one more.
Start(withCache) ==
  /\ caching' = withCache /\ stage' = "loop" /\ proposal' = Nothing /\ Unmerged
  /\ IF saved = Nothing THEN Fresh ELSE Load
  /\ UNCHANGED <<saved, value>>

ShouldStop == total >= MaxCalls \/ Len(programs) >= MaxCandidates

\* A stopper fires, or somebody asked for a stop.
Stop ==
  /\ stage = "loop" /\ stage' = "ended" /\ saved' = Snapshot
  /\ UNCHANGED <<state, caching, merging, proposal, value>>

Iterate ==
  /\ stage = "loop" /\ ~ShouldStop
  /\ saved' = Snapshot
  /\ stage' = IF due > 0 /\ found THEN "merge" ELSE "reflect"
  /\ found' = (due > 0 /\ found)
  /\ UNCHANGED <<state, caching, due, tested, performed, proposal, value>>

\* An evaluation raises, or something before it (n = 0): the exception ends the run, or
\* the next iteration begins (raise_on_exception).
Largest == [merge |-> 0, reflect |-> Batch, mutate |-> Batch, add |-> Cardinality(Validation)]

Raise ==
  /\ stage \in DOMAIN Largest
  /\ \E n \in 0..Largest[stage] : AskRaises(n)
  /\ stage' \in {"loop", "ended"} /\ proposal' = Nothing
  /\ UNCHANGED <<caching, merging, saved>>

(***************************************************************************)
(* Selection from the Pareto fronts.                                         *)
(***************************************************************************)
InFronts == UNION {fronts[v] : v \in Validation}

Dominated(y, P) == \A v \in Validation : y \in fronts[v] => \E p \in P \ {y} : p \in fronts[v]

\* What can be left when dominated candidates are removed, worst scores first.
Remaining ==
  LET left[P \in SUBSET InFronts] ==
        LET R   == {y \in P : Dominated(y, P)}
            Low == {y \in R : \A z \in R : Score(y) <= Score(z)}
        IN IF R = {} THEN {P} ELSE UNION {left[P \ {y}] : y \in Low}
  IN left[InFronts]

Selectable == UNION Remaining \cup {p \in Indices : \A q \in Indices : Score(q) <= Score(p)}

\* The front of an example with candidate n in the archive, whose scores are r.
FrontWith(v, n, r) ==
  IF r[v] > best[v] THEN {n} ELSE IF r[v] = best[v] THEN fronts[v] \cup {n} ELSE fronts[v]

Record(c, parents, r) ==
  LET n == Len(programs) + 1 IN
  /\ programs' = Append(programs, [texts |-> c, parents |-> parents, scores |-> r,
                                   next |-> Max({programs[p].next : p \in parents})])
  /\ best' = [v \in Validation |-> Max({best[v], r[v]})]
  /\ fronts' = [v \in Validation |-> FrontWith(v, n, r)]

\* The candidate in hand is evaluated on all of validation and recorded.
Add ==
  /\ stage = "add" /\ stage' = "loop" /\ proposal' = Nothing
  /\ LET c == proposal.texts
         E == Validation \ Cached(c, Validation) IN
     /\ Ask(c, Once(Validation), E, Cardinality(E))
     /\ Record(c, proposal.parents, Results(c, Once(Validation)))
  /\ IF proposal.kind = "merge"
     THEN due' = due - 1 /\ tested' = tested + 1 /\ UNCHANGED found
     ELSE /\ found' = (MaxMerges > 0)
          /\ due' = IF tested < MaxMerges THEN due + 1 ELSE due
          /\ UNCHANGED tested
  /\ UNCHANGED <<caching, performed, saved>>

(***************************************************************************)
(* Reflection: one candidate, one minibatch, one component.                    *)
(***************************************************************************)
Skip == stage' = "loop" /\ proposal' = Nothing

\* The component to rewrite goes round.
Advance(p) == programs' = [programs EXCEPT ![p].next = (@ % Components) + 1]

\* With traces the candidate is always evaluated, and the cache is refreshed.
Reflect(p, w) ==
  /\ Ask(programs[p].texts, w, Drawn(w), Batch)
  /\ LET f == Answers(programs[p].texts, Drawn(w)) IN
     \/ Skip /\ UNCHANGED programs    \* nothing to reflect on, or all perfect
     \/ /\ \E e \in Drawn(w) : f[e] < TopScore
        /\ stage' = "mutate"
        /\ proposal' = [kind |-> "reflect", parents |-> {p}, sample |-> w, before |-> Sum(w, f),
                        component |-> programs[p].next]
        /\ Advance(p)
  /\ UNCHANGED <<best, fronts, caching, merging, saved>>

Keep(c) == stage' = "add" /\ proposal' = [kind |-> proposal.kind, parents |-> proposal.parents, texts |-> c]

\* The model proposes a text for the component.
Mutate(t) ==
  /\ stage = "mutate"
  /\ LET w == proposal.sample
         p == CHOOSE q \in proposal.parents : TRUE
         c == [programs[p].texts EXCEPT ![proposal.component] = t]
         E == Drawn(w) \ Cached(c, Drawn(w)) IN
     /\ Ask(c, w, E, Calls(w, E))
     /\ IF Sum(w, Results(c, w)) > proposal.before THEN Keep(c) ELSE Skip
  /\ UNCHANGED <<programs, best, fronts, caching, merging, saved>>

\* It proposes nothing, or fails.
MutateNothing ==
  /\ stage = "mutate" /\ Skip
  /\ UNCHANGED <<state, caching, merging, saved, value>>

(***************************************************************************)
(* Merging: two candidates with a common ancestor that changed different      *)
(* components of it.                                                        *)
(***************************************************************************)
Ancestors ==
  LET up[p \in Indices] == Parents(p) \cup UNION {up[q] : q \in Parents(p)}
  IN up

Text(p, n) == programs[p].texts[n]

\* A component one side has changed and the other has not.
Complementary(i, j, a) ==
  \E n \in 1..Components : Text(i, n) # Text(j, n) /\ Text(a, n) \in {Text(i, n), Text(j, n)}

CommonAncestors(i, j) ==
  {a \in Ancestors[i] \cap Ancestors[j] :
     /\ <<i, j, a>> \notin performed.triples
     /\ Score(a) <= Score(i) /\ Score(a) <= Score(j)
     /\ Complementary(i, j, a)}

Pairs == UNION {{ij \in P \X P : ij[1] < ij[2] /\ ij[1] \notin Ancestors[ij[2]]} : P \in Remaining}

Sources(i, j, a, n) ==
  CASE Text(a, n) \notin {Text(i, n), Text(j, n)} ->
         {p \in {i, j} : Score(p) >= Score(i) /\ Score(p) >= Score(j)}
    [] Text(i, n) = Text(j, n) -> {i}
    [] Text(a, n) = Text(i, n) -> {j}
    [] OTHER -> {i}

\* A merge nobody has tried: i, j, their ancestor and the source of each component.
Untried(i, j) ==
  {m \in {<<i, j>>} \X {a \in CommonAncestors(i, j) : Score(a) > 0} \X [1..Components -> {i, j}] :
     /\ \A n \in 1..Components : m[3][n] \in Sources(i, j, m[2], n)
     /\ <<i, j, m[3]>> \notin performed.merges}
Mergeable ==
  IF Cardinality(Validation) >= Overlap THEN UNION {Untried(ij[1], ij[2]) : ij \in Pairs} ELSE {}

Perform(m) ==
  performed' = [triples |-> performed.triples \cup {<<m[1][1], m[1][2], m[2]>>},
                merges |-> performed.merges \cup {<<m[1][1], m[1][2], m[3]>>}]

Merge(m, w) ==
  /\ Perform(m) /\ found' = FALSE
  /\ LET c == [n \in 1..Components |-> Text(m[3][n], n)]
         E == Drawn(w) \ Cached(c, Drawn(w))
         Before(p) == Sum(w, programs[p].scores) IN
     /\ Ask(c, w, E, Calls(w, E))
     /\ IF Sum(w, Results(c, w)) >= Max({Before(m[1][1]), Before(m[1][2])})
        THEN stage' = "add" /\ proposal' = [kind |-> "merge", parents |-> Range(m[1]), texts |-> c]
        ELSE Skip
  /\ UNCHANGED <<programs, best, fronts, caching, due, tested, saved>>

\* The evaluation of a merge raises: it counts as performed, and is still due.
MergeRaises(m) ==
  /\ Perform(m)
  /\ \E n \in 0..Sample : AskRaises(n)
  /\ stage' \in {"loop", "ended"}
  /\ UNCHANGED <<caching, due, tested, found, proposal, saved>>

\* Ten attempts have found none.
MergeNothing ==
  /\ stage = "merge" /\ stage' = "reflect" /\ found' = FALSE
  /\ UNCHANGED <<state, caching, due, tested, performed, proposal, saved, value>>

Next ==
  \/ \E b \in BOOLEAN : Start(b)
  \/ Stop \/ Iterate \/ Raise \/ Add
  \/ stage = "reflect" /\ \E p \in Selectable, w \in Samples(Training, Batch) : Reflect(p, w)
  \/ \E t \in Texts : Mutate(t)
  \/ MutateNothing
  \/ stage = "merge" /\ \E m \in Mergeable :
       MergeRaises(m) \/ \E w \in Samples(Validation, Sample) : Merge(m, w)
  \/ MergeNothing

Spec == Init /\ [][Next]_vars

(***************************************************************************)
(* Properties.                                                              *)
(***************************************************************************)
TypeOK ==
  /\ stage \in {"new", "loop", "merge", "reflect", "mutate", "add", "ended"}
  /\ programs \in Seq([texts : Candidates, parents : SUBSET Nat,
                       scores : [Validation -> 0..TopScore], next : 1..Components])
  /\ DOMAIN cache \subseteq Candidates \X Examples /\ value \in Evaluators
  /\ {total, due, tested, spent, uncounted} \subseteq Nat /\ {caching, found} \subseteq BOOLEAN

\* The front of an example holds exactly the candidates that do best on it (state.py
\* _update_pareto_front_for_val_id), also after a run has been resumed.
FrontsAreBest ==
  stage # "new" => \A v \in Validation :
    /\ \A p \in Indices : programs[p].scores[v] <= best[v]
    /\ fronts[v] = {p \in Indices : programs[p].scores[v] = best[v]}
    /\ fronts[v] # {}

\* What is recorded of a candidate, and what the cache has of it, is what the evaluator
\* says of this candidate on this example (state.py EvaluationCache, optimize_chat_prompt
\* .py NamespacedSequenceLoader).
ScoresReal ==
  /\ \A p \in Indices, v \in Validation : programs[p].scores[v] = value[programs[p].texts][v]
  /\ \A k \in DOMAIN cache : cache[k] = value[k[1]][k[2]]

\* A candidate is a rewrite of one component of an older one, or has each component
\* from one of two older ones that are no ancestors of each other (merge.py
\* _merge_predictors).
LineageSound ==
  \A p \in Indices \ {1} :
    /\ Parents(p) # {} /\ \A q \in Parents(p) : q < p
    /\ IF Cardinality(Parents(p)) = 1
       THEN \A q \in Parents(p) : Cardinality({n \in 1..Components : Text(p, n) # Text(q, n)}) <= 1
       ELSE /\ \A n \in 1..Components : \E q \in Parents(p) : Text(p, n) = Text(q, n)
            /\ \A q, r \in Parents(p) : q \notin Ancestors[r]

\* Every call of an evaluation that ended counts, once, over cached answers, examples drawn
\* twice and resumed runs, and the last iteration is the only one in which what counts may
\* exceed the budget (engine.py _should_stop, state.py increment_evals).  A known limit: the
\* calls of an evaluation that raised are not counted, so that a run that goes on after
\* exceptions may exceed its budget by as many calls as they cost.
BudgetKept ==
  LET Iteration == Max({Sample, 2 * Batch}) + Cardinality(Validation) IN
  /\ spent = total + uncounted
  /\ total <= Max({Cardinality(Validation), MaxCalls - 1 + Iteration})

SearchHonest == FrontsAreBest /\ ScoresReal /\ LineageSound /\ BudgetKept
=============================================================================
