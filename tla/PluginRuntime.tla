---------------------------- MODULE PluginRuntime ----------------------------
(***************************************************************************)
(* raychat/plugins.py, class Runtime: threads run operations pinned to one  *)
(* plugin generation, ask for updates from inside and outside of them, and   *)
(* the last operation to end applies the pending ones, one by one, under     *)
(* the lock; each replaces the whole generation or leaves it alone.          *)
(*                                                                           *)
(* A plugin holds a resource of its own in every generation it is loaded in  *)
(* (a cleanup callback) and, if it is one of Transferring, a resource it      *)
(* hands on to its next generation (on_reload, with a cleanup registered      *)
(* with on_reload=False).  What a package contains is left to an outcome.     *)
(***************************************************************************)
EXTENDS Naturals, Sequences, SequencesExt, FiniteSets

CONSTANTS
  Threads, NoThread, Plugins,
  Transferring,      \* plugins that register on_reload handlers
  Installed,         \* plugins of the first generation
  MaxRequests,       \* bound on request_reload(): requests are 1..MaxRequests
  MaxLoads,          \* bound on the generations staged, the rejected included
  MaxDepth,          \* bound on nested operations
  Faults             \* "notify": a notification callback raises

RuntimeAssumption ==
  /\ NoThread \notin Threads
  /\ Transferring \subseteq Plugins /\ Installed \subseteq Plugins
  /\ MaxRequests \in Nat /\ MaxLoads \in Nat /\ MaxDepth \in Nat \ {0}
  /\ IsFiniteSet(Threads)
  /\ Faults \subseteq {"notify"}

Requests == 1..MaxRequests
NoStage  == MaxLoads + 1

\* add and remove of a request: a new package, an uninstall, a replacement.
NoChange == [add |-> {}, remove |-> {}]
Changes  == {[add |-> {p}, remove |-> {}] : p \in Plugins}
            \cup {[add |-> {}, remove |-> {p}] : p \in Plugins}
            \cup {[add |-> {p}, remove |-> {p}] : p \in Plugins}

\* What a cleanup callback closes; shared is registered with on_reload=False.
Resource(p, n, shared) == [owner |-> p, load |-> n, shared |-> shared]
Resources == [owner : Plugins, load : 0..MaxLoads, shared : BOOLEAN]

VARIABLES
  frames,      \* _local.operations of each thread: the requests of each frame
  stage,       \* _local.stage of each thread: the generation it is pinned to
  leaving,     \* threads between queueing their requests and _release_operation
  busy, pending, closing, closed,
  current,     \* _current: which load it is, its plugins, its cleanup callbacks
  generation,
  holder,      \* the thread that holds _lock while it applies updates
  phase,       \* where in _apply_requests it is: "apply", "announce", "report"
  todo,        \* the requests it has taken and not finished
  change,      \* what each request asks for
  ended,       \* history: what became of each request
  loads,       \* generations staged so far
  open,        \* resources acquired and not released
  released     \* history: how often each resource was released

requestVars == <<pending, change, ended>>
loadVars    == <<current, generation, loads, open, released>>
lockVars    == <<holder, phase, todo>>
opVars      == <<frames, stage, leaving, busy>>
lifeVars    == <<closing, closed>>
vars == <<opVars, lifeVars, requestVars, loadVars, lockVars>>

InOperation(t) == frames[t] # <<>>
Working        == {t \in Threads : InOperation(t) \/ t \in leaving}
Unlocked       == holder = NoThread

\* Which plugins a change leaves: those not removed are captured again, the
\* added ones come after them.
ReplacementPlugins(old, c) == (old.plugins \ c.remove) \cup c.add

\* Every plugin registers a resource, one that was not there before also the
\* one it will hand on.
Registered(old, plugins, n) ==
  {Resource(p, n, FALSE) : p \in plugins}
  \cup {Resource(p, n, TRUE) : p \in (plugins \cap Transferring) \ old.plugins}

\* Exported by the old generation and restored into the new one.
HandedOn(old, plugins) == {x \in old.cleanup : x.shared /\ x.owner \in plugins}

Loaded(old, c, n) ==
  LET plugins == ReplacementPlugins(old, c)
  IN [load |-> n, plugins |-> plugins,
      cleanup |-> Registered(old, plugins, n) \cup HandedOn(old, plugins)]

TypeOK ==
  /\ frames \in [Threads -> Seq(Seq(Requests))]
  /\ stage \in [Threads -> 0..NoStage]
  /\ leaving \subseteq Threads
  /\ busy \in 0..Cardinality(Threads)
  /\ pending \in Seq(Requests)
  /\ {closing, closed} \subseteq BOOLEAN
  /\ current \in [load : 0..MaxLoads, plugins : SUBSET Plugins, cleanup : SUBSET Resources]
  /\ generation \in 0..MaxLoads
  /\ holder \in Threads \cup {NoThread}
  /\ phase \in {"apply", "announce", "report"}
  /\ todo \in Seq(Requests)
  /\ change \in [Requests -> Changes \cup {NoChange}]
  /\ ended \in [Requests -> {"none", "asked", "active", "commit", "rollback", "dropped"}]
  /\ loads \in 0..MaxLoads
  /\ open \subseteq Resources
  /\ released \in [Resources -> 0..2]

Init ==
  /\ frames = [t \in Threads |-> <<>>]
  /\ stage = [t \in Threads |-> NoStage]
  /\ leaving = {} /\ busy = 0
  /\ pending = <<>>
  /\ closing = FALSE /\ closed = FALSE
  /\ current = Loaded([plugins |-> {}, cleanup |-> {}],
                      [add |-> Installed, remove |-> {}], 0)
  /\ generation = 0
  /\ holder = NoThread /\ phase = "apply" /\ todo = <<>>
  /\ change = [r \in Requests |-> NoChange]
  /\ ended = [r \in Requests |-> "none"]
  /\ loads = 0
  /\ open = current.cleanup
  /\ released = [x \in Resources |-> 0]

(***************************************************************************)
(* Replacing the generation.                                                *)
(***************************************************************************)
Releasing(xs) ==
  /\ open' = open \ xs
  /\ released' = [x \in Resources |-> released[x] + IF x \in xs THEN 1 ELSE 0]

\* Nothing is staged: an unknown plugin, a duplicate, a source that cannot be
\* captured, an export that raises.
NotStaged == UNCHANGED loadVars

\* load() fails: it runs every cleanup registered so far and forgets them.
LoadFails(c) ==
  /\ loads < MaxLoads
  /\ loads' = loads + 1
  /\ \E got \in SUBSET Registered(current, ReplacementPlugins(current, c), loads') :
       released' = [x \in Resources |-> released[x] + IF x \in got THEN 1 ELSE 0]
  /\ UNCHANGED <<current, generation, open>>

\* Planted error: what is handed on is closed like the rest.
DiscardedWhole(staged) == staged.cleanup

\* What _discard_generation closes of a staged generation: everything of a new
\* plugin; of a plugin that was there before, not what it hands on.
Discarded(staged) ==
  {x \in staged.cleanup : x.owner \in current.plugins => ~x.shared}

\* Configuring, restoring, validating or checkpointing the staged one fails.
RestoreFails(c) ==
  /\ loads < MaxLoads
  /\ loads' = loads + 1
  /\ LET discarded == Discarded(Loaded(current, c, loads'))
     IN released' = [x \in Resources |-> released[x] + IF x \in discarded THEN 1 ELSE 0]
  /\ UNCHANGED <<current, generation, open>>

\* What the old generation closes: all of the retired plugins, of the others
\* what they do not hand on.
Retired(c) ==
  {x \in current.cleanup : x.owner \in c.remove \ c.add \/ ~x.shared}

KnownRemovals(c) == c.remove \subseteq current.plugins
NoDuplicates(c)  == c.add \cap current.plugins \subseteq c.remove
Applicable(c)    == KnownRemovals(c) /\ NoDuplicates(c)

Switch(c) ==
  /\ Applicable(c)
  /\ loads < MaxLoads
  /\ loads' = loads + 1
  /\ generation' = generation + 1
  /\ current' = Loaded(current, c, loads')
  /\ released' = [x \in Resources |-> released[x] + IF x \in Retired(c) THEN 1 ELSE 0]
  /\ open' = (open \ Retired(c)) \cup {x \in current'.cleanup : x.load = loads'}

Rejected(c) ==
  \/ NotStaged
  \/ Applicable(c) /\ (LoadFails(c) \/ RestoreFails(c))

\* refresh(): sources changed while nobody is in an operation.
Refresh ==
  /\ Unlocked /\ busy = 0 /\ ~closed
  /\ Switch(NoChange) \/ LoadFails(NoChange) \/ RestoreFails(NoChange)
  /\ UNCHANGED <<opVars, lifeVars, requestVars, lockVars>>

(***************************************************************************)
(* Operations.                                                              *)
(***************************************************************************)
\* The outermost operation() of a thread refreshes first, then is pinned.
BeginOuter(t) ==
  /\ Unlocked
  /\ t \notin Working
  /\ ~closed /\ ~closing
  /\ \/ UNCHANGED loadVars
     \/ busy = 0 /\ Switch(NoChange)
  /\ busy' = busy + 1
  /\ stage' = [stage EXCEPT ![t] = current'.load]
  /\ frames' = [frames EXCEPT ![t] = << <<>> >>]
  /\ UNCHANGED <<leaving, lifeVars, requestVars, lockVars>>

\* Planted error: a nested operation counts like an outermost one.
BeginNestedBusy(t) ==
  /\ InOperation(t)
  /\ Len(frames[t]) < MaxDepth
  /\ frames' = [frames EXCEPT ![t] = Append(@, <<>>)]
  /\ busy' = busy + 1
  /\ UNCHANGED <<stage, leaving, lifeVars, requestVars, loadVars, lockVars>>

BeginNested(t) ==
  /\ InOperation(t)
  /\ Len(frames[t]) < MaxDepth
  /\ frames' = [frames EXCEPT ![t] = Append(@, <<>>)]
  /\ UNCHANGED <<stage, leaving, busy, lifeVars, requestVars, loadVars, lockVars>>

Rollback(rs) == ended' = [r \in Requests |-> IF r \in rs THEN "rollback" ELSE ended[r]]

\* Planted error: the requests of a nested operation are forgotten.
FinishNestedAlone(t) ==
  /\ Len(frames[t]) > 1
  /\ frames' = [frames EXCEPT ![t] = Front(@)]
  /\ UNCHANGED <<stage, leaving, busy, lifeVars, requestVars, loadVars, lockVars>>

\* A nested operation succeeds: its requests pass to the one around it.
FinishNested(t) ==
  /\ Len(frames[t]) > 1
  /\ LET outer == Front(frames[t])
     IN frames' = [frames EXCEPT ![t] =
                     [outer EXCEPT ![Len(outer)] = @ \o Last(frames[t])]]
  /\ UNCHANGED <<stage, leaving, busy, lifeVars, requestVars, loadVars, lockVars>>

FinishOuter(t) ==
  /\ Unlocked
  /\ Len(frames[t]) = 1
  /\ pending' = pending \o frames[t][1]
  /\ frames' = [frames EXCEPT ![t] = <<>>]
  /\ leaving' = leaving \cup {t}
  /\ UNCHANGED <<stage, busy, lifeVars, change, ended, loadVars, lockVars>>

\* An operation raises: its own requests are rolled back, nobody else's.
Fail(t) ==
  /\ InOperation(t)
  /\ Rollback(Range(Last(frames[t])))
  /\ frames' = [frames EXCEPT ![t] = Front(@)]
  /\ leaving' = IF Len(frames[t]) = 1 THEN leaving \cup {t} ELSE leaving
  /\ UNCHANGED <<stage, busy, lifeVars, pending, change, loadVars, lockVars>>

\* close() with no operation left: pending requests and resources go.
CloseNow ==
  /\ closed' = TRUE
  /\ Rollback(Range(pending))
  /\ pending' = <<>>
  /\ Releasing(current.cleanup)
  /\ UNCHANGED <<change, current, generation, loads>>

\* Planted error: whoever ends an operation applies what is pending.
ReleaseEager(t) ==
  /\ Unlocked
  /\ t \in leaving
  /\ leaving' = leaving \ {t}
  /\ stage' = [stage EXCEPT ![t] = NoStage]
  /\ busy' = busy - 1
  /\ IF pending = <<>> THEN UNCHANGED <<pending, todo, holder>>
     ELSE todo' = pending /\ pending' = <<>> /\ holder' = t
  /\ UNCHANGED <<frames, lifeVars, change, ended, loadVars, phase>>

\* _release_operation: the last one out closes or applies what is pending.
Release(t) ==
  /\ Unlocked
  /\ t \in leaving
  /\ leaving' = leaving \ {t}
  /\ stage' = [stage EXCEPT ![t] = NoStage]
  /\ busy' = busy - 1
  /\ \/ busy' = 0 /\ closing /\ CloseNow /\ UNCHANGED lockVars
     \/ /\ busy' = 0 /\ ~closing /\ pending # <<>>
        /\ todo' = pending /\ pending' = <<>>
        /\ holder' = t
        /\ UNCHANGED <<closed, change, ended, loadVars, phase>>
     \/ /\ busy' > 0 \/ (~closing /\ pending = <<>>)
        /\ UNCHANGED <<closed, requestVars, loadVars, lockVars>>
  /\ UNCHANGED <<frames, closing>>

Close(t) ==
  /\ Unlocked /\ ~closed
  /\ IF busy > 0 THEN closing' = TRUE /\ UNCHANGED <<closed, requestVars, loadVars>>
                 ELSE CloseNow /\ UNCHANGED closing
  /\ UNCHANGED <<opVars, lockVars>>

(***************************************************************************)
(* Requests.                                                                *)
(***************************************************************************)
\* The innermost operation of a thread owns the request.
AskedInside(operations, r) == [operations EXCEPT ![Len(operations)] = Append(@, r)]

\* request_reload(): owned by the innermost operation of this thread, queued
\* behind the operations of other threads, or applied at once.
Request(t, r, c) ==
  /\ Unlocked
  /\ ended[r] = "none"
  /\ \A q \in Requests : q < r => ended[q] # "none"
  /\ ended' = [ended EXCEPT ![r] = "asked"]
  /\ change' = [change EXCEPT ![r] = c]
  /\ \/ /\ InOperation(t)
        /\ frames' = [frames EXCEPT ![t] = AskedInside(@, r)]
        /\ UNCHANGED <<pending, lockVars>>
     \/ /\ ~InOperation(t) /\ t \notin leaving /\ busy > 0
        /\ pending' = Append(pending, r)
        /\ UNCHANGED <<frames, lockVars>>
     \/ /\ ~InOperation(t) /\ t \notin leaving /\ busy = 0
        /\ todo' = <<r>> /\ holder' = t
        /\ UNCHANGED <<frames, pending, phase>>
  /\ UNCHANGED <<stage, leaving, busy, lifeVars, loadVars>>

\* The lock is free again when the last request taken is done with.
Continue(rest, p) ==
  /\ todo' = rest
  /\ phase' = p
  /\ holder' = IF rest = <<>> THEN NoThread ELSE holder

Applying(p) == holder # NoThread /\ phase = p

\* prepare, load or restore raises, or the runtime is closed.
ApplyRejected ==
  /\ Applying("apply")
  /\ IF closed THEN NotStaged ELSE Rejected(change[Head(todo)])
  /\ Rollback({Head(todo)})
  /\ phase' = "report"
  /\ UNCHANGED <<opVars, lifeVars, pending, change, holder, todo>>

ApplyActivated ==
  /\ Applying("apply") /\ ~closed
  /\ Switch(change[Head(todo)])
  /\ ended' = [ended EXCEPT ![Head(todo)] = "active"]
  /\ phase' = "announce"
  /\ UNCHANGED <<opVars, lifeVars, pending, change, holder, todo>>

\* The commit hook runs once the generation is announced; it may raise.
Commit ==
  /\ Applying("announce")
  /\ ended' = [ended EXCEPT ![Head(todo)] = "commit"]
  /\ (phase' = "report" /\ UNCHANGED <<todo, holder>>) \/ Continue(Tail(todo), "apply")
  /\ UNCHANGED <<opVars, lifeVars, pending, change, loadVars>>

\* A notification callback raises while the new generation is announced: the
\* generation stands, so nothing is rolled back, and nothing is committed.
AnnounceRaises ==
  /\ Applying("announce") /\ "notify" \in Faults
  /\ ended' = [ended EXCEPT ![Head(todo)] = "dropped"]
  /\ phase' = "report"
  /\ UNCHANGED <<opVars, lifeVars, pending, change, loadVars, holder, todo>>

\* "Plugin update rejected" is reported and the next request applied.
Report ==
  /\ Applying("report")
  /\ Continue(Tail(todo), "apply")
  /\ UNCHANGED <<opVars, lifeVars, requestVars, loadVars>>

\* The report raises too: the requests behind it are never looked at again.
ReportRaises ==
  /\ Applying("report") /\ "notify" \in Faults
  /\ ended' = [r \in Requests |-> IF r \in Range(Tail(todo)) THEN "dropped" ELSE ended[r]]
  /\ Continue(<<>>, "apply")
  /\ UNCHANGED <<opVars, lifeVars, pending, change, loadVars>>

Next ==
  \/ Refresh
  \/ \E t \in Threads :
       \/ BeginOuter(t) \/ BeginNested(t) \/ FinishNested(t) \/ FinishOuter(t)
       \/ Fail(t) \/ Release(t) \/ Close(t)
       \/ \E r \in Requests, c \in Changes : Request(t, r, c)
  \/ ApplyRejected \/ ApplyActivated \/ Commit \/ AnnounceRaises
  \/ Report \/ ReportRaises

Spec == Init /\ [][Next]_vars

(***************************************************************************)
(* Properties.                                                              *)
(***************************************************************************)
\* Every request asked for and not ended is in exactly one place that will end
\* it: a frame of an open operation, the pending list while an operation runs
\* that will apply it, or the hands of the thread that holds the lock.
Places(r) ==
  {at \in Threads \X (1..MaxDepth) :
      at[2] <= Len(frames[at[1]]) /\ r \in Range(frames[at[1]][at[2]])}
  \cup {<<"pending", i>> : i \in {j \in DOMAIN pending : pending[j] = r}}
  \cup {<<"todo", i>> : i \in {j \in DOMAIN todo : todo[j] = r}}

RequestsOwned ==
  /\ \A r \in Requests : ended[r] \in {"asked", "active"} => Cardinality(Places(r)) = 1
  /\ pending # <<>> => Working # {}
  /\ todo # <<>> => holder # NoThread

\* A resource is released at most once, never while the active generation, to
\* which it may have been handed, still uses it, and nothing else stays open;
\* an operation works in the active generation from its beginning to its end.
ResourcesLive ==
  /\ \A x \in Resources : released[x] <= 1
  /\ open = IF closed THEN {} ELSE current.cleanup
  /\ \A x \in open : released[x] = 0
  /\ \A t \in Working : stage[t] = current.load /\ ~closed

Promise == INSTANCE ReloadService WITH
  running <- Working, gen <- generation, ended <- ended, shut <- closed

\* Each step of the runtime is one that ReloadService promises, or none.
KeepsPromise == UNCHANGED <<Working, generation, ended, closed>> \/ Promise!PromiseNext
==============================================================================
