---------------------------- MODULE RuntimeProofs ----------------------------
(***************************************************************************)
(* What is proved of the plugin runtime (raychat/plugins.py, class Runtime), for *)
(* every number of threads, plugins, requests, generations and nested            *)
(* operations: nothing that was asked for is lost or done twice, no resource is   *)
(* released twice or in use, and the runtime implements ReloadService.          *)
(***************************************************************************)
EXTENDS MCServices, FiniteSetTheorems, SequenceTheorems, TLAPS

(***************************************************************************)
(* PluginRuntime: the requests.  A stack of operations owns the requests of its *)
(* frames, each in one frame and once.                                       *)
(***************************************************************************)
Distinct(s) == \A i, j \in 1..Len(s) : s[i] = s[j] => i = j
Elements(s) == {s[i] : i \in 1..Len(s)}

LEMMA DistinctConcat ==
  ASSUME NEW S, NEW s \in Seq(S), NEW t \in Seq(S), Distinct(s), Distinct(t),
         Elements(s) \cap Elements(t) = {}
  PROVE  /\ s \o t \in Seq(S) /\ Distinct(s \o t)
         /\ Elements(s \o t) = Elements(s) \cup Elements(t)
<1>1. /\ s \o t \in Seq(S) /\ Len(s \o t) = Len(s) + Len(t)
      /\ Len(s) \in Nat /\ Len(t) \in Nat
      /\ \A i \in 1..(Len(s) + Len(t)) :
           (s \o t)[i] = IF i <= Len(s) THEN s[i] ELSE t[i - Len(s)]
  OBVIOUS
<1>2. ASSUME NEW i \in 1..Len(s \o t), NEW j \in 1..Len(s \o t), (s \o t)[i] = (s \o t)[j]
      PROVE  i = j
  <2>1. CASE i <= Len(s) /\ j <= Len(s)
    BY <1>1, <1>2, <2>1 DEF Distinct
  <2>2. CASE i > Len(s) /\ j > Len(s)
    <3>1. i - Len(s) \in 1..Len(t) /\ j - Len(s) \in 1..Len(t)
      BY <1>1, <2>2
    <3>2. t[i - Len(s)] = t[j - Len(s)]
      BY <1>1, <1>2, <2>2
    <3>3. i - Len(s) = j - Len(s)
      BY <3>1, <3>2 DEF Distinct
    <3>4. QED
      BY <1>1, <3>3
  <2>3. CASE i <= Len(s) /\ j > Len(s)
    <3>1. s[i] \in Elements(s) /\ t[j - Len(s)] \in Elements(t)
      BY <1>1, <2>3 DEF Elements
    <3>2. QED
      BY <1>1, <1>2, <2>3, <3>1
  <2>4. CASE i > Len(s) /\ j <= Len(s)
    <3>1. t[i - Len(s)] \in Elements(t) /\ s[j] \in Elements(s)
      BY <1>1, <2>4 DEF Elements
    <3>2. QED
      BY <1>1, <1>2, <2>4, <3>1
  <2>5. QED
    BY <1>1, <2>1, <2>2, <2>3, <2>4
<1>3. Elements(s \o t) \subseteq Elements(s) \cup Elements(t)
  BY <1>1 DEF Elements
<1>4. Elements(s) \subseteq Elements(s \o t)
  BY <1>1 DEF Elements
<1>5. ASSUME NEW j \in 1..Len(t) PROVE t[j] \in Elements(s \o t)
  <2>1. Len(s) + j \in 1..Len(s \o t) /\ (s \o t)[Len(s) + j] = t[j]
    BY <1>1
  <2>2. QED
    BY <2>1 DEF Elements
<1>6. QED
  BY <1>1, <1>2, <1>3, <1>4, <1>5 DEF Distinct, Elements

LEMMA DistinctOne ==
  ASSUME NEW S, NEW r \in S
  PROVE  /\ <<r>> \in Seq(S) /\ Distinct(<<r>>) /\ Elements(<<r>>) = {r}
         /\ <<>> \in Seq(S) /\ Distinct(<<>>) /\ Elements(<<>>) = {}
  BY DEF Distinct, Elements

LEMMA DistinctTail ==
  ASSUME NEW S, NEW s \in Seq(S), s # <<>>, Distinct(s)
  PROVE  /\ Tail(s) \in Seq(S) /\ Distinct(Tail(s)) /\ Head(s) \in S
         /\ Elements(Tail(s)) = Elements(s) \ {Head(s)} /\ Head(s) \in Elements(s)
<1>1. /\ Len(s) \in Nat /\ Len(s) >= 1 /\ Tail(s) \in Seq(S) /\ Len(Tail(s)) = Len(s) - 1
      /\ \A i \in 1..(Len(s) - 1) : Tail(s)[i] = s[i + 1]
      /\ Head(s) = s[1]
  OBVIOUS
<1>2. Distinct(Tail(s))
  BY <1>1 DEF Distinct
<1>3. Elements(Tail(s)) \subseteq Elements(s) \ {Head(s)}
  BY <1>1 DEF Distinct, Elements
<1>4. ASSUME NEW i \in 1..Len(s), s[i] # Head(s) PROVE s[i] \in Elements(Tail(s))
  <2>1. i - 1 \in 1..Len(Tail(s)) /\ Tail(s)[i - 1] = s[i]
    BY <1>1, <1>4
  <2>2. QED
    BY <2>1 DEF Elements
<1>5. QED
  BY <1>1, <1>2, <1>3, <1>4 DEF Elements

Stacked(fs) ==
  /\ \A i \in 1..Len(fs) : Distinct(fs[i])
  /\ \A i, j \in 1..Len(fs) : i # j => Elements(fs[i]) \cap Elements(fs[j]) = {}

Owned(fs) == UNION {Elements(fs[i]) : i \in 1..Len(fs)}

LEMMA StackNew ==
  ASSUME NEW S
  PROVE  /\ << <<>> >> \in Seq(Seq(S)) /\ Stacked(<< <<>> >>) /\ Owned(<< <<>> >>) = {}
         /\ <<>> \in Seq(Seq(S)) /\ Stacked(<<>>) /\ Owned(<<>>) = {}
  BY DEF Stacked, Owned, Distinct, Elements

LEMMA StackPush ==
  ASSUME NEW S, NEW fs \in Seq(Seq(S)), Stacked(fs)
  PROVE  /\ Append(fs, <<>>) \in Seq(Seq(S)) /\ Stacked(Append(fs, <<>>))
         /\ Owned(Append(fs, <<>>)) = Owned(fs) /\ Len(Append(fs, <<>>)) = Len(fs) + 1
<1> DEFINE gs == Append(fs, <<>>)
<1>1. /\ gs \in Seq(Seq(S)) /\ Len(gs) = Len(fs) + 1 /\ Len(fs) \in Nat
      /\ \A i \in 1..Len(fs) : gs[i] = fs[i]
      /\ gs[Len(fs) + 1] = <<>>
  OBVIOUS
<1>2. Elements(<<>>) = {} /\ Distinct(<<>>)
  BY DEF Elements, Distinct
<1> HIDE DEF gs
<1>3. /\ \A i \in 1..Len(gs) : gs[i] = <<>> \/ (i \in 1..Len(fs) /\ gs[i] = fs[i])
      /\ \A i \in 1..Len(fs) : i \in 1..Len(gs) /\ gs[i] = fs[i]
  <2>1. \A i \in 1..Len(gs) : i \in 1..Len(fs) \/ i = Len(fs) + 1
    BY <1>1
  <2>2. \A i \in 1..Len(fs) : i \in 1..Len(gs)
    BY <1>1
  <2>3. QED
    BY <1>1, <2>1, <2>2
<1>4. Stacked(gs)
  <2>1. \A i \in 1..Len(gs) : Distinct(gs[i])
    BY <1>2, <1>3 DEF Stacked
  <2>2. \A i, j \in 1..Len(gs) : i # j => Elements(gs[i]) \cap Elements(gs[j]) = {}
    BY <1>2, <1>3 DEF Stacked
  <2>3. QED
    BY <2>1, <2>2 DEF Stacked
<1>5. Owned(gs) = Owned(fs)
  BY <1>2, <1>3 DEF Owned
<1>6. QED
  BY <1>1, <1>4, <1>5 DEF gs

LEMMA FrontFacts ==
  ASSUME NEW S, NEW s \in Seq(S), s # <<>>
  PROVE  /\ Len(s) \in Nat \ {0}
         /\ Runtime!Front(s) \in Seq(S) /\ Len(Runtime!Front(s)) = Len(s) - 1
         /\ \A i \in 1..(Len(s) - 1) : Runtime!Front(s)[i] = s[i]
         /\ Runtime!Last(s) = s[Len(s)] /\ s[Len(s)] \in S
<1>1. /\ Len(s) \in Nat /\ Len(s) >= 1
      /\ \A i \in 1..Len(s) : s[i] \in S
  OBVIOUS
<1>2. Runtime!Front(s) = SubSeq(s, 1, Len(s) - 1) /\ Runtime!Last(s) = s[Len(s)]
  BY DEF Runtime!Front, Runtime!Last
<1> DEFINE t == SubSeq(s, 1, Len(s) - 1)
           n == Len(s)
<1>3. /\ t \in Seq(S)
      /\ Len(t) = IF 1 <= n - 1 THEN (n - 1) - 1 + 1 ELSE 0
      /\ \A i \in 1..((n - 1) - 1 + 1) : t[i] = s[1 + i - 1]
  <2>1. 1 \in Int /\ n - 1 \in Int /\ \A i \in 1..(n - 1) : s[i] \in S
    BY <1>1
  <2>2. QED
    BY <2>1, SubSeqProperties
<1>4. n \in Nat /\ n >= 1 /\ n \in 1..n
  BY <1>1
<1> HIDE DEF t, n
<1>5. Len(t) = n - 1 /\ (n - 1) - 1 + 1 = n - 1
  BY <1>3, <1>4
<1>6. \A i \in 1..(n - 1) : t[i] = s[i]
  BY <1>3, <1>4, <1>5
<1>7. QED
  BY <1>1, <1>2, <1>3, <1>4, <1>5, <1>6 DEF t, n

\* The stack without its last frame.
LEMMA StackPop ==
  ASSUME NEW S, NEW fs \in Seq(Seq(S)), fs # <<>>, Stacked(fs)
  PROVE  /\ Runtime!Front(fs) \in Seq(Seq(S)) /\ Stacked(Runtime!Front(fs))
         /\ Runtime!Last(fs) \in Seq(S) /\ Distinct(Runtime!Last(fs))
         /\ Runtime!Last(fs) = fs[Len(fs)]
         /\ Elements(Runtime!Last(fs)) \subseteq Owned(fs)
         /\ Owned(Runtime!Front(fs)) = Owned(fs) \ Elements(Runtime!Last(fs))
         /\ Len(Runtime!Front(fs)) = Len(fs) - 1 /\ Len(fs) \in Nat \ {0}
<1> DEFINE gs == Runtime!Front(fs)
           n  == Len(fs)
<1>1. /\ n \in Nat \ {0} /\ gs \in Seq(Seq(S)) /\ Len(gs) = n - 1
      /\ \A i \in 1..(n - 1) : gs[i] = fs[i]
      /\ Runtime!Last(fs) = fs[n] /\ fs[n] \in Seq(S)
  BY FrontFacts
<1> HIDE DEF gs, n
<1>2. /\ n \in 1..n
      /\ \A i \in 1..Len(gs) : i \in 1..n /\ i # n /\ gs[i] = fs[i]
      /\ \A i \in 1..n : i # n => i \in 1..Len(gs) /\ gs[i] = fs[i]
  BY <1>1
<1>3. /\ \A i \in 1..n : Distinct(fs[i])
      /\ \A i, j \in 1..n : i # j => Elements(fs[i]) \cap Elements(fs[j]) = {}
  BY DEF Stacked, n
<1>4. Stacked(gs)
  BY <1>2, <1>3 DEF Stacked
<1>5. Owned(gs) = Owned(fs) \ Elements(fs[n])
  <2>1. Owned(gs) = UNION {Elements(fs[i]) : i \in 1..n \ {n}}
    BY <1>2 DEF Owned
  <2>2. Owned(fs) = UNION {Elements(fs[i]) : i \in 1..n}
    BY DEF Owned, n
  <2>3. QED
    BY <1>2, <1>3, <2>1, <2>2
<1>6. Elements(fs[n]) \subseteq Owned(fs)
  BY <1>2 DEF Owned, n
<1>7. QED
  BY <1>1, <1>2, <1>3, <1>4, <1>5, <1>6 DEF gs, n

\* The stack with another last frame, of elements it did not have elsewhere.
LEMMA StackReplace ==
  ASSUME NEW S, NEW fs \in Seq(Seq(S)), fs # <<>>, Stacked(fs), NEW last \in Seq(S), Distinct(last),
         Elements(last) \cap Owned(Runtime!Front(fs)) = {}
  PROVE  LET gs == [fs EXCEPT ![Len(fs)] = last] IN
         /\ gs \in Seq(Seq(S)) /\ Stacked(gs) /\ Len(gs) = Len(fs)
         /\ Owned(gs) = Owned(Runtime!Front(fs)) \cup Elements(last)
<1> DEFINE gs == [fs EXCEPT ![Len(fs)] = last]
           hs == Runtime!Front(fs)
           n  == Len(fs)
<1>1. /\ n \in Nat \ {0} /\ gs \in Seq(Seq(S)) /\ Len(gs) = n
      /\ \A i \in 1..n : gs[i] = IF i = n THEN last ELSE fs[i]
      /\ Len(hs) = n - 1 /\ \A i \in 1..(n - 1) : hs[i] = fs[i]
  <2>1. n \in Nat \ {0} /\ Len(hs) = n - 1 /\ \A i \in 1..(n - 1) : hs[i] = fs[i]
    BY FrontFacts
  <2>2. gs \in Seq(Seq(S)) /\ Len(gs) = n /\ \A i \in 1..n : gs[i] = IF i = n THEN last ELSE fs[i]
    BY <2>1
  <2>3. QED
    BY <2>1, <2>2
<1>2. Stacked(hs)
  BY StackPop
<1> HIDE DEF gs, hs, n
<1>3. /\ n \in 1..n /\ gs[n] = last
      /\ \A i \in 1..Len(hs) : i \in 1..n /\ i # n /\ gs[i] = hs[i]
      /\ \A i \in 1..n : i # n => i \in 1..Len(hs) /\ gs[i] = hs[i]
  <2>1. n \in 1..n /\ 1..Len(hs) = 1..(n - 1) /\ n - 1 \in Int
    BY <1>1
  <2>2. gs[n] = last
    BY <1>1, <2>1
  <2>3. ASSUME NEW i \in 1..Len(hs)
        PROVE  i \in 1..n /\ i # n /\ i \in 1..(n - 1)
    BY <1>1, <2>1, <2>3
  <2>4. ASSUME NEW i \in 1..n, i # n
        PROVE  i \in 1..Len(hs) /\ i \in 1..(n - 1)
    BY <1>1, <2>1, <2>4
  <2>5. QED
    BY <1>1, <2>1, <2>2, <2>3, <2>4
<1>4. \A i \in 1..Len(hs) : Elements(hs[i]) \cap Elements(last) = {}
  BY DEF Owned, hs
<1>5. \A i \in 1..n : Distinct(gs[i])
  BY <1>2, <1>3 DEF Stacked
<1>6. ASSUME NEW i \in 1..n, NEW j \in 1..n, i # j PROVE Elements(gs[i]) \cap Elements(gs[j]) = {}
  BY <1>2, <1>3, <1>4, <1>6 DEF Stacked
<1>7. Stacked(gs)
  BY <1>1, <1>5, <1>6 DEF Stacked
<1>8. Owned(gs) = Owned(hs) \cup Elements(last)
  <2>1. Owned(gs) = UNION {Elements(gs[i]) : i \in 1..n}
    BY <1>1 DEF Owned
  <2>2. ASSUME NEW r \in Owned(hs) PROVE r \in Owned(gs)
    <3>1. PICK i \in 1..Len(hs) : r \in Elements(hs[i])
      BY DEF Owned
    <3>2. QED
      BY <1>3, <2>1, <3>1
  <2>3. Elements(last) \subseteq Owned(gs)
    BY <1>3, <2>1
  <2>4. ASSUME NEW r \in Owned(gs) PROVE r \in Owned(hs) \cup Elements(last)
    <3>1. PICK i \in 1..n : r \in Elements(gs[i])
      BY <2>1
    <3>2. CASE i = n
      BY <1>3, <3>1, <3>2
    <3>3. CASE i # n
      BY <1>3, <3>1, <3>3 DEF Owned
    <3>4. QED
      BY <3>2, <3>3
  <2>5. QED
    BY <2>2, <2>3, <2>4
<1>9. QED
  BY <1>1, <1>7, <1>8 DEF gs, hs, n

-----------------------------------------------------------------------------
(***************************************************************************)
(* The resources.  A resource of a load not staged yet was never released; one   *)
(* that is open belongs to the generation in place, and to a plugin of it.      *)
(***************************************************************************)
Generations == [load : 0..MaxLoads, plugins : SUBSET Plugins, cleanup : SUBSET Runtime!Resources]

Resourced ==
  /\ loads \in 0..MaxLoads /\ generation \in 0..loads
  /\ runtimeCurrent \in Generations
  /\ closed \in BOOLEAN
  /\ released \in [Runtime!Resources -> 0..1]
  /\ runtimeCurrent.load <= loads
  /\ \A q \in runtimeCurrent.cleanup : q.owner \in runtimeCurrent.plugins /\ q.load <= loads
  /\ open = IF closed THEN {} ELSE runtimeCurrent.cleanup
  /\ \A q \in open : released[q] = 0
  /\ \A q \in Runtime!Resources : q.load > loads => released[q] = 0

AnyChange == Runtime!Changes \cup {Runtime!NoChange}

LEMMA RuntimeConstants ==
  /\ MaxRequests \in Nat /\ MaxLoads \in Nat /\ MaxDepth \in Nat \ {0} /\ IsFiniteSet(Threads)
  /\ NoThread \notin Threads /\ Transferring \subseteq Plugins /\ Installed \subseteq Plugins
  BY RuntimeAssumed DEF Runtime!RuntimeAssumption, Runtime!IsFiniteSet, IsFiniteSet

LEMMA RegisteredFacts ==
  ASSUME NEW old, NEW plugins \in SUBSET Plugins, NEW n \in 0..MaxLoads,
         NEW q \in Runtime!Registered(old, plugins, n)
  PROVE  q \in Runtime!Resources /\ q.load = n /\ q.owner \in plugins
<1>1. PICK p \in plugins, shared \in BOOLEAN : q = [owner |-> p, load |-> n, shared |-> shared]
  BY DEF Runtime!Registered, Runtime!Resource
<1>2. QED
  BY <1>1 DEF Runtime!Resources

LEMMA RuntimeInitial == Runtime!Init => Resourced
<1> SUFFICES ASSUME Runtime!Init PROVE Resourced
  OBVIOUS
<1> USE RuntimeConstants
<1> DEFINE none == [plugins |-> {}, cleanup |-> {}]
           given == [add |-> Installed, remove |-> {}]
<1>1. Runtime!ReplacementPlugins(none, given) = Installed
  BY DEF Runtime!ReplacementPlugins
<1>2. Runtime!HandedOn(none, Installed) = {}
  BY DEF Runtime!HandedOn
<1> DEFINE fresh == Runtime!Registered(none, Installed, 0)
<1>3. /\ fresh \subseteq Runtime!Resources
      /\ \A q \in fresh : q.owner \in Installed /\ q.load = 0
  BY RegisteredFacts
<1>4. runtimeCurrent = [load |-> 0, plugins |-> Installed, cleanup |-> fresh \cup {}]
  BY <1>1, <1>2 DEF Runtime!Init, Runtime!Loaded
<1> HIDE DEF fresh, none, given
<1>5. /\ loads = 0 /\ generation = 0 /\ closed = FALSE /\ open = runtimeCurrent.cleanup
      /\ released = [q \in Runtime!Resources |-> 0]
  BY DEF Runtime!Init
<1>6. runtimeCurrent \in Generations /\ 0 \in 0..MaxLoads
  BY <1>3, <1>4 DEF Generations
<1>7. runtimeCurrent.load = 0 /\ runtimeCurrent.cleanup = fresh /\ runtimeCurrent.plugins = Installed
  BY <1>4
<1>8. released \in [Runtime!Resources -> 0..1] /\ \A q \in Runtime!Resources : released[q] = 0
  BY <1>5
<1>9. \A q \in open : released[q] = 0
  BY <1>3, <1>5, <1>7
<1>10. /\ loads \in 0..MaxLoads /\ generation \in 0..loads /\ runtimeCurrent.load <= loads
       /\ closed \in BOOLEAN /\ open = IF closed THEN {} ELSE runtimeCurrent.cleanup
  <2>1. loads \in 0..MaxLoads /\ generation \in 0..loads /\ runtimeCurrent.load <= loads
    BY <1>5, <1>6, <1>7
  <2>2. closed \in BOOLEAN /\ open = IF closed THEN {} ELSE runtimeCurrent.cleanup
    BY <1>5
  <2>3. QED
    BY <2>1, <2>2
<1>11. \A q \in runtimeCurrent.cleanup : q.owner \in runtimeCurrent.plugins /\ q.load <= loads
  BY <1>3, <1>5, <1>7
<1>12. QED
  BY <1>6, <1>8, <1>9, <1>10, <1>11 DEF Resourced

\* What a load of one more generation registers, and what it is handed.
LEMMA LoadedFacts ==
  ASSUME Resourced, loads < MaxLoads, NEW c \in AnyChange
  PROVE  LET plugins == Runtime!ReplacementPlugins(runtimeCurrent, c)
             fresh == Runtime!Registered(runtimeCurrent, plugins, loads + 1)
             kept == Runtime!HandedOn(runtimeCurrent, plugins)
         IN /\ loads \in Nat /\ loads + 1 \in 1..MaxLoads
            /\ Runtime!Loaded(runtimeCurrent, c, loads + 1) =
                 [load |-> loads + 1, plugins |-> plugins, cleanup |-> fresh \cup kept]
            /\ plugins \subseteq Plugins
            /\ fresh \subseteq Runtime!Resources /\ kept \subseteq runtimeCurrent.cleanup
            /\ \A q \in fresh : q.load = loads + 1 /\ q.owner \in plugins /\ released[q] = 0
            /\ \A q \in kept : q.shared /\ q.owner \in plugins /\ q.load <= loads
<1> USE RuntimeConstants
<1> DEFINE plugins == Runtime!ReplacementPlugins(runtimeCurrent, c)
           fresh == Runtime!Registered(runtimeCurrent, plugins, loads + 1)
           kept == Runtime!HandedOn(runtimeCurrent, plugins)
<1>1. loads \in Nat /\ loads + 1 \in 1..MaxLoads /\ loads + 1 \in 0..MaxLoads
  BY DEF Resourced
<1>2. c.add \subseteq Plugins
  BY DEF AnyChange, Runtime!Changes, Runtime!NoChange
<1>3. plugins \subseteq Plugins
  BY <1>2 DEF Resourced, Generations, Runtime!ReplacementPlugins
<1>4. Runtime!Loaded(runtimeCurrent, c, loads + 1) =
        [load |-> loads + 1, plugins |-> plugins, cleanup |-> fresh \cup kept]
  BY DEF Runtime!Loaded
<1> HIDE DEF plugins
<1>5. /\ fresh \subseteq Runtime!Resources
      /\ \A q \in fresh : q.load = loads + 1 /\ q.owner \in plugins
  BY <1>1, <1>3, RegisteredFacts
<1>6. /\ kept \subseteq runtimeCurrent.cleanup
      /\ \A q \in kept : q.shared /\ q.owner \in plugins /\ q.load <= loads
  BY DEF Runtime!HandedOn, Resourced
<1> HIDE DEF fresh, kept
<1>7. \A q \in fresh : released[q] = 0
  BY <1>1, <1>5 DEF Resourced
<1>8. QED
  BY <1>1, <1>3, <1>4, <1>5, <1>6, <1>7 DEF plugins, fresh, kept

\* What is released while a generation is discarded was registered for it.
LEMMA DiscardKeeps ==
  ASSUME Resourced, loads < MaxLoads, loads' = loads + 1, NEW gone,
         gone \subseteq Runtime!Resources, \A q \in gone : q.load = loads + 1 /\ released[q] = 0,
         released' = [q \in Runtime!Resources |-> released[q] + IF q \in gone THEN 1 ELSE 0],
         UNCHANGED <<runtimeCurrent, generation, open, closed>>
  PROVE  Resourced'
<1>1. loads \in Nat /\ loads' \in 0..MaxLoads /\ generation' \in 0..loads' /\ loads' > loads
  BY RuntimeConstants DEF Resourced
<1>2. released' \in [Runtime!Resources -> 0..1]
  BY DEF Resourced
<1>3. runtimeCurrent.load \in Nat /\ \A q \in Runtime!Resources : q.load \in Nat
  BY RuntimeConstants DEF Resourced, Generations, Runtime!Resources
<1>4. /\ runtimeCurrent'.load <= loads'
      /\ \A q \in runtimeCurrent'.cleanup :
           q \in Runtime!Resources /\ q.owner \in runtimeCurrent'.plugins /\ q.load <= loads'
  BY <1>1, <1>3, RuntimeConstants DEF Resourced, Generations
<1>5. open' \subseteq Runtime!Resources /\ \A q \in open' : q.load <= loads /\ q.load # loads + 1
  BY <1>1, <1>3, RuntimeConstants DEF Resourced, Generations
<1>6. \A q \in open' : released'[q] = 0
  BY <1>5 DEF Resourced
<1>7. \A q \in Runtime!Resources : q.load > loads' => released'[q] = 0
  BY <1>1, <1>3 DEF Resourced
<1>8. QED
  BY <1>1, <1>2, <1>4, <1>6, <1>7 DEF Resourced

LEMMA RejectedKeeps ==
  ASSUME Resourced, NEW c \in AnyChange, UNCHANGED closed,
         Runtime!LoadFails(c) \/ Runtime!RestoreFails(c)
  PROVE  Resourced'
<1> DEFINE plugins == Runtime!ReplacementPlugins(runtimeCurrent, c)
           fresh == Runtime!Registered(runtimeCurrent, plugins, loads + 1)
           kept == Runtime!HandedOn(runtimeCurrent, plugins)
           staged == Runtime!Loaded(runtimeCurrent, c, loads + 1)
<1>1. loads < MaxLoads /\ loads' = loads + 1 /\ UNCHANGED <<runtimeCurrent, generation, open>>
  BY DEF Runtime!LoadFails, Runtime!RestoreFails
<1>2. /\ staged = [load |-> loads + 1, plugins |-> plugins, cleanup |-> fresh \cup kept]
      /\ fresh \subseteq Runtime!Resources /\ kept \subseteq runtimeCurrent.cleanup
      /\ \A q \in fresh : q.load = loads + 1 /\ q.owner \in plugins /\ released[q] = 0
      /\ \A q \in kept : q.shared
  BY <1>1, LoadedFacts
<1>3. CASE Runtime!LoadFails(c)
  <2>1. PICK gone \in SUBSET fresh :
          released' = [q \in Runtime!Resources |-> released[q] + IF q \in gone THEN 1 ELSE 0]
    BY <1>1, <1>3 DEF Runtime!LoadFails
  <2>2. gone \subseteq Runtime!Resources /\ \A q \in gone : q.load = loads + 1 /\ released[q] = 0
    BY <1>2, <2>1
  <2>3. QED
    BY <1>1, <2>1, <2>2, DiscardKeeps
<1>4. CASE Runtime!RestoreFails(c)
  <2> DEFINE gone == Runtime!Discarded(staged)
  <2>1. gone \subseteq fresh
    <3>1. staged.cleanup = fresh \cup kept
      BY <1>2
    <3>2. QED
      BY <1>2, <3>1 DEF Runtime!Discarded, Resourced
  <2>2. released' = [q \in Runtime!Resources |-> released[q] + IF q \in gone THEN 1 ELSE 0]
    BY <1>1, <1>4 DEF Runtime!RestoreFails
  <2> HIDE DEF gone
  <2>3. gone \subseteq Runtime!Resources /\ \A q \in gone : q.load = loads + 1 /\ released[q] = 0
    BY <1>2, <2>1
  <2>4. QED
    BY <1>1, <2>2, <2>3, DiscardKeeps
<1>5. QED
  BY <1>3, <1>4

\* The new generation holds exactly what is open: its own resources, and of the
\* old one's what the plugins that stay hand on.
LEMMA SwitchKeeps ==
  ASSUME Resourced, ~closed, NEW c \in AnyChange, UNCHANGED closed, Runtime!Switch(c)
  PROVE  Resourced'
<1> DEFINE plugins == Runtime!ReplacementPlugins(runtimeCurrent, c)
           fresh == Runtime!Registered(runtimeCurrent, plugins, loads + 1)
           kept == Runtime!HandedOn(runtimeCurrent, plugins)
           retired == Runtime!Retired(c)
<1>1. /\ loads < MaxLoads /\ loads' = loads + 1 /\ generation' = generation + 1
      /\ runtimeCurrent' = Runtime!Loaded(runtimeCurrent, c, loads + 1)
      /\ released' = [q \in Runtime!Resources |-> released[q] + IF q \in retired THEN 1 ELSE 0]
      /\ open' = (open \ retired) \cup {q \in runtimeCurrent'.cleanup : q.load = loads'}
  BY DEF Runtime!Switch
<1>2. /\ loads \in Nat /\ loads + 1 \in 1..MaxLoads
      /\ runtimeCurrent' = [load |-> loads + 1, plugins |-> plugins, cleanup |-> fresh \cup kept]
      /\ plugins \subseteq Plugins
      /\ fresh \subseteq Runtime!Resources /\ kept \subseteq runtimeCurrent.cleanup
      /\ \A q \in fresh : q.load = loads + 1 /\ q.owner \in plugins /\ released[q] = 0
      /\ \A q \in kept : q.shared /\ q.owner \in plugins /\ q.load <= loads
  BY <1>1, LoadedFacts
<1>3. /\ open = runtimeCurrent.cleanup /\ open \subseteq Runtime!Resources
      /\ \A q \in open : q.load <= loads /\ released[q] = 0
      /\ \A q \in Runtime!Resources : q.load \in Nat
  BY RuntimeConstants DEF Resourced, Generations, Runtime!Resources
<1>4. retired \subseteq open /\ open \ retired = kept
  BY <1>3 DEF Runtime!Retired, Runtime!HandedOn, Runtime!ReplacementPlugins, Resourced
<1> HIDE DEF plugins, fresh, kept, retired
<1>5. {q \in runtimeCurrent'.cleanup : q.load = loads'} = fresh
  BY <1>1, <1>2, <1>3
<1>6. open' = runtimeCurrent'.cleanup
  BY <1>1, <1>2, <1>4, <1>5
<1>7. released' \in [Runtime!Resources -> 0..1]
  BY <1>1, <1>3, <1>4 DEF Resourced
<1>8. \A q \in open' : released'[q] = 0
  <2>1. \A q \in open' : q \in Runtime!Resources /\ q \notin retired /\ released[q] = 0
    BY <1>1, <1>2, <1>3, <1>4, <1>5
  <2>2. QED
    BY <1>1, <2>1
<1>9. \A q \in Runtime!Resources : q.load > loads' => released'[q] = 0
  BY <1>1, <1>2, <1>3, <1>4 DEF Resourced
<1>10. loads' \in 0..MaxLoads /\ generation' \in 0..loads' /\ runtimeCurrent'.load <= loads'
  BY <1>1, <1>2, RuntimeConstants DEF Resourced
<1>11. runtimeCurrent' \in Generations
  <2>1. fresh \cup kept \subseteq Runtime!Resources /\ loads + 1 \in 0..MaxLoads
    BY <1>2, <1>3, RuntimeConstants
  <2>2. QED
    BY <1>2, <2>1 DEF Generations
<1>12. \A q \in runtimeCurrent'.cleanup : q.owner \in runtimeCurrent'.plugins /\ q.load <= loads'
  BY <1>1, <1>2, <1>3
<1>13. QED
  BY <1>6, <1>7, <1>8, <1>9, <1>10, <1>11, <1>12 DEF Resourced

LEMMA CloseKeeps ==
  ASSUME Resourced, ~closed, Runtime!CloseNow
  PROVE  Resourced'
<1>1. /\ closed' = TRUE /\ UNCHANGED <<runtimeCurrent, generation, loads>>
      /\ open' = open \ runtimeCurrent.cleanup
      /\ released' = [q \in Runtime!Resources |->
                        released[q] + IF q \in runtimeCurrent.cleanup THEN 1 ELSE 0]
  BY DEF Runtime!CloseNow, Runtime!Releasing
<1>2. /\ open = runtimeCurrent.cleanup
      /\ \A q \in open : released[q] = 0 /\ q.load <= loads
      /\ loads \in Nat /\ \A q \in Runtime!Resources : q.load \in Nat
  BY RuntimeConstants DEF Resourced, Runtime!Resources
<1>3. released' \in [Runtime!Resources -> 0..1]
  BY <1>1, <1>2 DEF Resourced
<1>4. \A q \in Runtime!Resources : q.load > loads' => released'[q] = 0
  BY <1>1, <1>2 DEF Resourced
<1>5. open' = {}
  BY <1>1, <1>2
<1>6. QED
  BY <1>1, <1>3, <1>4, <1>5 DEF Resourced

LEMMA RestKeeps ==
  ASSUME Resourced, UNCHANGED <<runtimeCurrent, generation, loads, open, released, closed>>
  PROVE  Resourced'
  BY DEF Resourced

-----------------------------------------------------------------------------
(***************************************************************************)
(* The invariant of the runtime.  Threads at work are counted, and keep the      *)
(* lock from being held; a request is in one frame, in the queue, or in the       *)
(* hands of the holder, once; what is there is still asked for, and what is       *)
(* asked for is there.                                                        *)
(***************************************************************************)
RequestEnds == {"none", "asked", "active", "commit", "rollback", "dropped"}

RuntimeTyped ==
  /\ frames \in [Threads -> Seq(Seq(Runtime!Requests))]
  /\ \A t \in Threads : Len(frames[t]) <= MaxDepth
  /\ stage \in [Threads -> 0..Runtime!NoStage]
  /\ leaving \subseteq Threads
  /\ pending \in Seq(Runtime!Requests) /\ todo \in Seq(Runtime!Requests)
  /\ holder \in Threads \cup {NoThread}
  /\ runtimePhase \in {"apply", "announce", "report"}
  /\ change \in [Runtime!Requests -> AnyChange]
  /\ ended \in [Runtime!Requests -> RequestEnds]

Occupied ==
  /\ busy = Cardinality(Runtime!Working)
  /\ \A t \in leaving : frames[t] = <<>>
  /\ \A t \in Runtime!Working : stage[t] = runtimeCurrent.load
  /\ holder # NoThread \/ closed => Runtime!Working = {}
  /\ pending # <<>> => Runtime!Working # {}
  /\ todo = <<>> <=> holder = NoThread
  /\ todo = <<>> => runtimePhase = "apply"

Framed(t) == Owned(frames[t])
Queued    == Elements(pending)
Taken     == Elements(todo)

Apart ==
  /\ \A t \in Threads : Stacked(frames[t])
  /\ Distinct(pending) /\ Distinct(todo)
  /\ \A t, u \in Threads : t # u => Framed(t) \cap Framed(u) = {}
  /\ \A t \in Threads : Framed(t) \cap Queued = {} /\ Framed(t) \cap Taken = {}
  /\ Queued \cap Taken = {}

HeadEnds ==
  CASE runtimePhase = "apply"    -> {"asked"}
    [] runtimePhase = "announce" -> {"active"}
    [] runtimePhase = "report"   -> {"commit", "rollback", "dropped"}

Followed ==
  /\ \A t \in Threads : \A r \in Framed(t) : ended[r] = "asked"
  /\ \A r \in Queued : ended[r] = "asked"
  /\ \A r \in Taken : ended[r] \in IF r = Head(todo) THEN HeadEnds ELSE {"asked"}
  /\ \A r \in Runtime!Requests : ended[r] \in {"asked", "active"} =>
       r \in Queued \/ r \in Taken \/ \E t \in Threads : r \in Framed(t)

RuntimeInv == RuntimeTyped /\ Occupied /\ Apart /\ Followed /\ Resourced

LEMMA RangeElements ==
  ASSUME NEW S, NEW s \in Seq(S)
  PROVE  Runtime!Range(s) = Elements(s) /\ Elements(s) \subseteq S
<1>1. DOMAIN s = 1..Len(s) /\ \A i \in 1..Len(s) : s[i] \in S
  OBVIOUS
<1>2. QED
  BY <1>1 DEF Runtime!Range, Elements

LEMMA OwnedTyped ==
  ASSUME NEW S, NEW fs \in Seq(Seq(S))
  PROVE  Owned(fs) \subseteq S
<1>1. ASSUME NEW i \in 1..Len(fs) PROVE Elements(fs[i]) \subseteq S
  <2>1. fs[i] \in Seq(S)
    OBVIOUS
  <2>2. QED
    BY <2>1, RangeElements
<1>2. QED
  BY <1>1 DEF Owned

\* What an inner operation asked for passes to the one around it.
LEMMA StackMerge ==
  ASSUME NEW S, NEW fs \in Seq(Seq(S)), Len(fs) > 1, Stacked(fs)
  PROVE  LET outer == Runtime!Front(fs)
             gs == [outer EXCEPT ![Len(outer)] = @ \o Runtime!Last(fs)]
         IN /\ gs \in Seq(Seq(S)) /\ Stacked(gs) /\ Len(gs) = Len(fs) - 1
            /\ Owned(gs) = Owned(fs)
<1> DEFINE outer == Runtime!Front(fs)
           inner == Runtime!Last(fs)
           around == Runtime!Last(outer)
<1>1. fs # <<>> /\ Len(fs) \in Nat
  OBVIOUS
<1>2. /\ outer \in Seq(Seq(S)) /\ Stacked(outer) /\ inner \in Seq(S) /\ Distinct(inner)
      /\ Elements(inner) \subseteq Owned(fs) /\ Owned(outer) = Owned(fs) \ Elements(inner)
      /\ Len(outer) = Len(fs) - 1
  BY <1>1, StackPop
<1> HIDE DEF outer, inner
<1>3. outer # <<>>
  BY <1>1, <1>2
<1>4. /\ around \in Seq(S) /\ Distinct(around) /\ around = outer[Len(outer)]
      /\ Elements(around) \subseteq Owned(outer)
      /\ Owned(Runtime!Front(outer)) = Owned(outer) \ Elements(around)
  BY <1>2, <1>3, StackPop
<1> HIDE DEF around
<1>5. /\ around \o inner \in Seq(S) /\ Distinct(around \o inner)
      /\ Elements(around \o inner) = Elements(around) \cup Elements(inner)
  <2>1. Elements(around) \cap Elements(inner) = {}
    BY <1>2, <1>4
  <2>2. QED
    BY <1>2, <1>4, <2>1, DistinctConcat
<1> DEFINE last == around \o inner
           gs == [outer EXCEPT ![Len(outer)] = last]
<1> HIDE DEF last
<1>6. last \in Seq(S) /\ Distinct(last) /\ Elements(last) = Elements(around) \cup Elements(inner)
  BY <1>5 DEF last
<1>7. Elements(last) \cap Owned(Runtime!Front(outer)) = {}
  BY <1>2, <1>4, <1>6
<1>8. /\ gs \in Seq(Seq(S)) /\ Stacked(gs) /\ Len(gs) = Len(outer)
      /\ Owned(gs) = Owned(Runtime!Front(outer)) \cup Elements(last)
  BY <1>2, <1>3, <1>6, <1>7, StackReplace
<1>9. gs = [outer EXCEPT ![Len(outer)] = @ \o inner]
  BY <1>4 DEF last
<1>10. Owned(gs) = Owned(fs)
  BY <1>2, <1>4, <1>6, <1>8
<1>11. QED
  BY <1>2, <1>8, <1>9, <1>10 DEF outer, inner

\* The innermost operation asks for one thing more.
LEMMA StackAsk ==
  ASSUME NEW S, NEW fs \in Seq(Seq(S)), fs # <<>>, Stacked(fs), NEW r \in S, r \notin Owned(fs)
  PROVE  LET gs == [fs EXCEPT ![Len(fs)] = Append(@, r)]
         IN /\ gs \in Seq(Seq(S)) /\ Stacked(gs) /\ Len(gs) = Len(fs)
            /\ Owned(gs) = Owned(fs) \cup {r}
<1> DEFINE inner == Runtime!Last(fs)
           one   == <<r>>
           last  == inner \o one
           gs    == [fs EXCEPT ![Len(fs)] = last]
<1>1. /\ inner \in Seq(S) /\ Distinct(inner) /\ inner = fs[Len(fs)]
      /\ Elements(inner) \subseteq Owned(fs)
      /\ Owned(Runtime!Front(fs)) = Owned(fs) \ Elements(inner)
  BY StackPop
<1>2. one \in Seq(S) /\ Distinct(one) /\ Elements(one) = {r}
  BY DistinctOne
<1> HIDE DEF inner, one
<1>3. /\ last \in Seq(S) /\ Distinct(last) /\ Elements(last) = Elements(inner) \cup {r}
  <2>1. Elements(inner) \cap Elements(one) = {}
    BY <1>1, <1>2
  <2>2. QED
    BY <1>1, <1>2, <2>1, DistinctConcat
<1>4. last = Append(fs[Len(fs)], r)
  BY <1>1 DEF one
<1> HIDE DEF last
<1>5. /\ gs \in Seq(Seq(S)) /\ Stacked(gs) /\ Len(gs) = Len(fs)
      /\ Owned(gs) = Owned(Runtime!Front(fs)) \cup Elements(last)
  <2>1. Elements(last) \cap Owned(Runtime!Front(fs)) = {}
    BY <1>1, <1>3
  <2>2. QED
    BY <1>3, <2>1, StackReplace
<1>6. gs = [fs EXCEPT ![Len(fs)] = Append(@, r)]
  BY <1>4
<1>7. Owned(gs) = Owned(fs) \cup {r}
  BY <1>1, <1>3, <1>5
<1>8. QED
  BY <1>5, <1>6, <1>7

LEMMA BusyFacts ==
  ASSUME RuntimeTyped, Occupied
  PROVE  /\ busy \in Nat /\ (busy = 0 <=> Runtime!Working = {})
         /\ \A t \in Threads : Cardinality(Runtime!Working \cup {t}) =
              IF t \in Runtime!Working THEN busy ELSE busy + 1
         /\ \A t \in Runtime!Working : Cardinality(Runtime!Working \ {t}) = busy - 1
<1>1. Runtime!Working \subseteq Threads
  BY DEF Runtime!Working
<1>2. IsFiniteSet(Runtime!Working)
  BY <1>1, RuntimeConstants, FS_Subset
<1>3. QED
  BY <1>2, FS_CardinalityType, FS_EmptySet, FS_AddElement, FS_RemoveElement DEF Occupied

LEMMA SetsTyped ==
  ASSUME RuntimeTyped
  PROVE  /\ \A t \in Threads : Framed(t) \subseteq Runtime!Requests
         /\ Queued \subseteq Runtime!Requests /\ Taken \subseteq Runtime!Requests
  BY OwnedTyped, RangeElements DEF RuntimeTyped, Framed, Queued, Taken

\* Steps that move no request from where it is.
LEMMA RequestsStay ==
  ASSUME Apart, Followed, UNCHANGED <<pending, todo, ended, runtimePhase>>,
         \A t \in Threads : Stacked(frames'[t]) /\ Owned(frames'[t]) = Owned(frames[t])
  PROVE  Apart' /\ Followed'
<1>1. /\ Queued' = Queued /\ Taken' = Taken /\ HeadEnds' = HeadEnds
      /\ \A t \in Threads : Framed(t)' = Framed(t)
  BY DEF Queued, Taken, Framed, HeadEnds
<1>2. Apart'
  BY <1>1 DEF Apart
<1>3. Followed'
  BY <1>1 DEF Followed
<1>4. QED
  BY <1>2, <1>3

LEMMA RuntimeStarts == Runtime!Init => RuntimeInv
<1> SUFFICES ASSUME Runtime!Init PROVE RuntimeInv
  OBVIOUS
<1> DEFINE R == Runtime!Requests
<1>1. /\ frames = [t \in Threads |-> <<>>] /\ stage = [t \in Threads |-> Runtime!NoStage]
      /\ leaving = {} /\ busy = 0 /\ pending = <<>> /\ holder = NoThread
      /\ runtimePhase = "apply" /\ todo = <<>>
      /\ change = [r \in R |-> Runtime!NoChange] /\ ended = [r \in R |-> "none"]
  BY DEF Runtime!Init
<1>2. Runtime!Working = {}
  BY <1>1 DEF Runtime!Working, Runtime!InOperation
<1>3. RuntimeTyped
  <2>1. Runtime!NoStage \in 0..Runtime!NoStage
    BY RuntimeConstants DEF Runtime!NoStage
  <2>2. <<>> \in Seq(Seq(R)) /\ <<>> \in Seq(R) /\ Len(<<>>) = 0 /\ 0 <= MaxDepth
    BY RuntimeConstants
  <2>3. \A t \in Threads : frames[t] = <<>>
    BY <1>1
  <2>4. frames \in [Threads -> Seq(Seq(R))] /\ \A t \in Threads : Len(frames[t]) <= MaxDepth
    BY <1>1, <2>2, <2>3
  <2>5. QED
    BY <1>1, <2>1, <2>2, <2>4 DEF RuntimeTyped, AnyChange, RequestEnds
<1>4. Occupied
  BY <1>1, <1>2, FS_EmptySet DEF Occupied
<1>5. Elements(<<>>) = {} /\ Distinct(<<>>) /\ Stacked(<<>>) /\ Owned(<<>>) = {}
  BY DistinctOne, StackNew DEF Elements, Distinct
<1>6. Queued = {} /\ Taken = {} /\ \A t \in Threads : Framed(t) = {} /\ Stacked(frames[t])
  BY <1>1, <1>5 DEF Queued, Taken, Framed
<1>7. Apart
  BY <1>1, <1>5, <1>6 DEF Apart
<1>8. Followed
  BY <1>1, <1>6 DEF Followed
<1>9. QED
  BY <1>3, <1>4, <1>7, <1>8, RuntimeInitial DEF RuntimeInv

(***************************************************************************)
(* One lemma per action.                                                     *)
(***************************************************************************)
LEMMA RefreshKeeps == RuntimeInv /\ Runtime!Refresh => RuntimeInv'
<1> SUFFICES ASSUME RuntimeInv, Runtime!Refresh PROVE RuntimeInv'
  OBVIOUS
<1> USE DEF RuntimeInv
<1>1. /\ holder = NoThread /\ busy = 0 /\ ~closed
      /\ UNCHANGED <<frames, stage, leaving, busy, runtimeClosing, closed, pending, change, ended,
                     holder, runtimePhase, todo>>
      /\ \/ Runtime!Switch(Runtime!NoChange)
         \/ Runtime!LoadFails(Runtime!NoChange) \/ Runtime!RestoreFails(Runtime!NoChange)
  BY DEF Runtime!Refresh, Runtime!Unlocked, Runtime!opVars, Runtime!lifeVars, Runtime!requestVars,
    Runtime!lockVars
<1>2. Resourced'
  BY <1>1, SwitchKeeps, RejectedKeeps DEF AnyChange
<1>3. RuntimeTyped'
  BY <1>1 DEF RuntimeTyped
<1>4. Runtime!Working' = Runtime!Working /\ Runtime!Working = {}
  BY <1>1, BusyFacts DEF Runtime!Working, Runtime!InOperation
<1>5. Occupied'
  BY <1>1, <1>4 DEF Occupied
<1>6. Apart' /\ Followed'
  BY <1>1, RequestsStay DEF Apart
<1>7. QED
  BY <1>2, <1>3, <1>5, <1>6

LEMMA BeginOuterKeeps ==
  ASSUME NEW t \in Threads, RuntimeInv, Runtime!BeginOuter(t)
  PROVE  RuntimeInv'
<1> USE DEF RuntimeInv
<1> DEFINE R == Runtime!Requests
<1>1. /\ holder = NoThread /\ t \notin Runtime!Working /\ ~closed
      /\ UNCHANGED <<leaving, runtimeClosing, closed, pending, change, ended,
                     holder, runtimePhase, todo>>
      /\ busy' = busy + 1
      /\ stage' = [stage EXCEPT ![t] = runtimeCurrent'.load]
      /\ frames' = [frames EXCEPT ![t] = << <<>> >>]
      /\ \/ UNCHANGED <<runtimeCurrent, generation, loads, open, released>>
         \/ busy = 0 /\ Runtime!Switch(Runtime!NoChange)
  BY DEF Runtime!BeginOuter, Runtime!Unlocked, Runtime!loadVars, Runtime!lifeVars,
    Runtime!requestVars, Runtime!lockVars
<1>2. Resourced'
  BY <1>1, SwitchKeeps, RestKeeps DEF AnyChange
<1>3. /\ << <<>> >> \in Seq(Seq(R)) /\ Len(<< <<>> >>) = 1
      /\ Stacked(<< <<>> >>) /\ Owned(<< <<>> >>) = {} /\ << <<>> >> # <<>>
      /\ Stacked(<<>>) /\ Owned(<<>>) = {}
  BY StackNew
<1>4. /\ frames \in [Threads -> Seq(Seq(R))] /\ frames[t] = <<>> /\ t \notin leaving
      /\ leaving \subseteq Threads
  BY <1>1 DEF RuntimeTyped, Runtime!Working, Runtime!InOperation
<1>5. RuntimeTyped'
  <2>1. runtimeCurrent'.load \in 0..Runtime!NoStage
    BY <1>2, RuntimeConstants DEF Resourced, Generations, Runtime!NoStage
  <2>2. 1 <= MaxDepth
    BY RuntimeConstants
  <2>3. frames' \in [Threads -> Seq(Seq(R))] /\ \A u \in Threads : Len(frames'[u]) <= MaxDepth
    BY <1>1, <1>3, <2>2 DEF RuntimeTyped
  <2>4. QED
    BY <1>1, <2>1, <2>3 DEF RuntimeTyped
<1>6. Runtime!Working' = Runtime!Working \cup {t}
  BY <1>1, <1>3, <1>4 DEF Runtime!Working, Runtime!InOperation
<1>7. \A u \in Runtime!Working' : stage'[u] = runtimeCurrent'.load
  <2>1. ASSUME NEW u \in Runtime!Working, u # t
        PROVE  stage'[u] = stage[u] /\ runtimeCurrent'.load = runtimeCurrent.load
    <3>1. busy # 0
      BY BusyFacts
    <3>2. QED
      BY <1>1, <2>1, <3>1 DEF RuntimeTyped, Runtime!Working
  <2>2. stage'[t] = runtimeCurrent'.load
    BY <1>1 DEF RuntimeTyped
  <2>3. QED
    BY <1>6, <2>1, <2>2 DEF Occupied
<1>8. Occupied'
  <2>1. busy' = Cardinality(Runtime!Working')
    BY <1>1, <1>6, BusyFacts
  <2>2. \A u \in leaving' : frames'[u] = <<>>
    BY <1>1, <1>4 DEF Occupied
  <2>3. QED
    BY <1>1, <1>6, <1>7, <2>1, <2>2 DEF Occupied
<1>9. Apart' /\ Followed'
  <2>1. \A u \in Threads : frames'[u] = IF u = t THEN << <<>> >> ELSE frames[u]
    BY <1>1, <1>4
  <2>2. \A u \in Threads : Stacked(frames'[u]) /\ Owned(frames'[u]) = Owned(frames[u])
    BY <1>3, <1>4, <2>1 DEF Apart
  <2>3. QED
    BY <1>1, <2>2, RequestsStay
<1>10. QED
  BY <1>2, <1>5, <1>8, <1>9

\* A nested operation begins, or succeeds: its thread owns what it owned.
LEMMA NestedKeeps ==
  ASSUME NEW t \in Threads, RuntimeInv, NEW fs \in Seq(Seq(Runtime!Requests)),
         frames[t] # <<>>, fs # <<>>, Len(fs) <= MaxDepth,
         Stacked(fs), Owned(fs) = Owned(frames[t]), frames' = [frames EXCEPT ![t] = fs],
         UNCHANGED <<stage, leaving, busy, runtimeClosing, closed, pending, change, ended,
                     holder, runtimePhase, todo, runtimeCurrent, generation, loads, open, released>>
  PROVE  RuntimeInv'
<1> USE DEF RuntimeInv
<1>1. \A u \in Threads : frames'[u] = IF u = t THEN fs ELSE frames[u]
  BY DEF RuntimeTyped
<1>2. RuntimeTyped'
  BY <1>1 DEF RuntimeTyped
<1>3. Runtime!Working' = Runtime!Working
  BY <1>1 DEF Runtime!Working, Runtime!InOperation
<1>4. Occupied'
  <2>1. t \notin leaving
    BY DEF Occupied
  <2>2. \A u \in leaving' : frames'[u] = <<>>
    BY <1>1, <2>1 DEF Occupied, RuntimeTyped
  <2>3. QED
    BY <1>3, <2>2 DEF Occupied
<1>5. Apart' /\ Followed'
  <2>1. \A u \in Threads : Stacked(frames'[u]) /\ Owned(frames'[u]) = Owned(frames[u])
    BY <1>1 DEF Apart
  <2>2. QED
    BY <2>1, RequestsStay
<1>6. QED
  BY <1>2, <1>4, <1>5, RestKeeps

LEMMA BeginNestedKeeps ==
  ASSUME NEW t \in Threads, RuntimeInv, Runtime!BeginNested(t)
  PROVE  RuntimeInv'
<1>1. /\ frames[t] # <<>> /\ Len(frames[t]) < MaxDepth
      /\ frames' = [frames EXCEPT ![t] = Append(frames[t], <<>>)]
      /\ UNCHANGED <<stage, leaving, busy, runtimeClosing, closed, pending, change, ended,
                     holder, runtimePhase, todo, runtimeCurrent, generation, loads, open, released>>
  BY DEF Runtime!BeginNested, Runtime!InOperation, Runtime!loadVars, Runtime!lifeVars,
    Runtime!requestVars, Runtime!lockVars
<1>2. frames[t] \in Seq(Seq(Runtime!Requests)) /\ Stacked(frames[t])
  BY DEF RuntimeInv, RuntimeTyped, Apart
<1> DEFINE fs == Append(frames[t], <<>>)
<1>3. /\ fs \in Seq(Seq(Runtime!Requests)) /\ Stacked(fs) /\ Owned(fs) = Owned(frames[t])
      /\ Len(fs) = Len(frames[t]) + 1
  BY <1>2, StackPush
<1>4. Len(fs) <= MaxDepth /\ fs # <<>>
  BY <1>1, <1>2, <1>3, RuntimeConstants
<1> HIDE DEF fs
<1>5. frames' = [frames EXCEPT ![t] = fs]
  BY <1>1 DEF fs
<1>6. QED
  BY <1>1, <1>3, <1>4, <1>5, NestedKeeps

LEMMA FinishNestedKeeps ==
  ASSUME NEW t \in Threads, RuntimeInv, Runtime!FinishNested(t)
  PROVE  RuntimeInv'
<1> DEFINE outer == Runtime!Front(frames[t])
           fs == [outer EXCEPT ![Len(outer)] = @ \o Runtime!Last(frames[t])]
<1>1. /\ Len(frames[t]) > 1
      /\ frames' = [frames EXCEPT ![t] = fs]
      /\ UNCHANGED <<stage, leaving, busy, runtimeClosing, closed, pending, change, ended,
                     holder, runtimePhase, todo, runtimeCurrent, generation, loads, open, released>>
  BY DEF Runtime!FinishNested, Runtime!loadVars, Runtime!lifeVars,
    Runtime!requestVars, Runtime!lockVars
<1>2. /\ frames[t] \in Seq(Seq(Runtime!Requests)) /\ Stacked(frames[t])
      /\ Len(frames[t]) <= MaxDepth
  BY DEF RuntimeInv, RuntimeTyped, Apart
<1>3. /\ fs \in Seq(Seq(Runtime!Requests)) /\ Stacked(fs) /\ Owned(fs) = Owned(frames[t])
      /\ Len(fs) = Len(frames[t]) - 1
  BY <1>1, <1>2, StackMerge
<1> HIDE DEF fs
<1>4. Len(fs) <= MaxDepth /\ fs # <<>> /\ frames[t] # <<>>
  BY <1>1, <1>2, <1>3, RuntimeConstants
<1>5. QED
  BY <1>1, <1>3, <1>4, NestedKeeps

LEMMA FinishOuterKeeps ==
  ASSUME NEW t \in Threads, RuntimeInv, Runtime!FinishOuter(t)
  PROVE  RuntimeInv'
<1> USE DEF RuntimeInv
<1> DEFINE R == Runtime!Requests
           all == frames[t][1]
<1>1. /\ holder = NoThread /\ Len(frames[t]) = 1
      /\ pending' = pending \o all
      /\ frames' = [frames EXCEPT ![t] = <<>>]
      /\ leaving' = leaving \cup {t}
      /\ UNCHANGED <<stage, busy, runtimeClosing, closed, change, ended, runtimeCurrent, generation,
                     loads, open, released, holder, runtimePhase, todo>>
  BY DEF Runtime!FinishOuter, Runtime!Unlocked, Runtime!lifeVars, Runtime!loadVars, Runtime!lockVars
<1>2. /\ frames[t] \in Seq(Seq(R)) /\ Stacked(frames[t]) /\ 1 \in 1..Len(frames[t])
      /\ frames[t] # <<>> /\ pending \in Seq(R) /\ Distinct(pending)
      /\ \A u \in Threads : frames'[u] = IF u = t THEN <<>> ELSE frames[u]
  <2>1. frames[t] \in Seq(Seq(R)) /\ pending \in Seq(R)
    BY DEF RuntimeTyped
  <2>2. 1 \in 1..Len(frames[t]) /\ frames[t] # <<>>
    BY <1>1, <2>1
  <2>3. \A u \in Threads : frames'[u] = IF u = t THEN <<>> ELSE frames[u]
    BY <1>1 DEF RuntimeTyped
  <2>4. Stacked(frames[t]) /\ Distinct(pending)
    BY DEF Apart
  <2>5. QED
    BY <2>1, <2>2, <2>3, <2>4
<1>3. all \in Seq(R) /\ Distinct(all)
  BY <1>2 DEF Stacked
<1>4. Framed(t) = Elements(all)
  BY <1>1, <1>2 DEF Framed, Owned
<1> HIDE DEF all
<1>5. /\ pending' \in Seq(R) /\ Distinct(pending') /\ Queued' = Queued \cup Framed(t)
  <2>1. Elements(pending) \cap Elements(all) = {}
    BY <1>4 DEF Apart, Queued
  <2>2. QED
    BY <1>1, <1>2, <1>3, <1>4, <2>1, DistinctConcat DEF Queued
<1>6. /\ Taken' = Taken /\ HeadEnds' = HeadEnds
      /\ \A u \in Threads : Framed(u)' = IF u = t THEN {} ELSE Framed(u)
      /\ \A u \in Threads : Stacked(frames'[u])
  <2>1. Taken' = Taken /\ HeadEnds' = HeadEnds
    BY <1>1 DEF Taken, HeadEnds
  <2>2. Owned(<<>>) = {} /\ Stacked(<<>>)
    BY StackNew
  <2>3. \A u \in Threads : Framed(u)' = IF u = t THEN {} ELSE Framed(u)
    BY <1>2, <2>2 DEF Framed
  <2>4. \A u \in Threads : Stacked(frames'[u])
    BY <1>2, <2>2 DEF Apart
  <2>5. QED
    BY <2>1, <2>3, <2>4
<1>7. RuntimeTyped'
  <2>1. <<>> \in Seq(Seq(R)) /\ Len(<<>>) <= MaxDepth
    BY RuntimeConstants
  <2>2. frames' \in [Threads -> Seq(Seq(R))] /\ \A u \in Threads : Len(frames'[u]) <= MaxDepth
    BY <1>1, <1>2, <2>1 DEF RuntimeTyped
  <2>3. QED
    BY <1>1, <1>5, <2>2 DEF RuntimeTyped
<1>8. Runtime!Working' = Runtime!Working /\ t \in Runtime!Working
  BY <1>1, <1>2 DEF Runtime!Working, Runtime!InOperation
<1>9. Occupied'
  <2>1. \A u \in leaving' : frames'[u] = <<>>
    BY <1>1, <1>2 DEF Occupied, RuntimeTyped
  <2>2. QED
    BY <1>1, <1>8, <2>1 DEF Occupied
<1>10. Apart'
  BY <1>1, <1>5, <1>6 DEF Apart
<1>11. Followed'
  BY <1>1, <1>5, <1>6 DEF Followed
<1>12. QED
  BY <1>1, <1>7, <1>9, <1>10, <1>11, RestKeeps

LEMMA FailKeeps ==
  ASSUME NEW t \in Threads, RuntimeInv, Runtime!Fail(t)
  PROVE  RuntimeInv'
<1> USE DEF RuntimeInv
<1> DEFINE R == Runtime!Requests
           rs == Elements(Runtime!Last(frames[t]))
           outer == Runtime!Front(frames[t])
<1>1. /\ frames[t] # <<>>
      /\ ended' = [r \in R |-> IF r \in Runtime!Range(Runtime!Last(frames[t])) THEN "rollback" ELSE ended[r]]
      /\ frames' = [frames EXCEPT ![t] = outer]
      /\ leaving' = IF Len(frames[t]) = 1 THEN leaving \cup {t} ELSE leaving
      /\ UNCHANGED <<stage, busy, runtimeClosing, closed, pending, change, runtimeCurrent, generation,
                     loads, open, released, holder, runtimePhase, todo>>
  BY DEF Runtime!Fail, Runtime!InOperation, Runtime!Rollback, Runtime!lifeVars, Runtime!loadVars,
    Runtime!lockVars
<1>2. /\ frames[t] \in Seq(Seq(R)) /\ Stacked(frames[t]) /\ Len(frames[t]) <= MaxDepth
  BY DEF RuntimeTyped, Apart
<1>3. /\ outer \in Seq(Seq(R)) /\ Stacked(outer) /\ Runtime!Last(frames[t]) \in Seq(R)
      /\ rs \subseteq Framed(t) /\ Owned(outer) = Framed(t) \ rs
      /\ Len(outer) = Len(frames[t]) - 1 /\ Len(frames[t]) \in Nat \ {0}
  BY <1>1, <1>2, StackPop DEF Framed
<1>4. ended' = [r \in R |-> IF r \in rs THEN "rollback" ELSE ended[r]]
  BY <1>1, <1>3, RangeElements
<1> HIDE DEF rs, outer
<1>5. /\ \A u \in Threads : frames'[u] = IF u = t THEN outer ELSE frames[u]
      /\ outer = <<>> <=> Len(frames[t]) = 1
      /\ Len(outer) <= MaxDepth
  <2>1. \A u \in Threads : frames'[u] = IF u = t THEN outer ELSE frames[u]
    BY <1>1 DEF RuntimeTyped
  <2>2. outer = <<>> <=> Len(outer) = 0
    BY <1>3, EmptySeq
  <2>3. QED
    BY <1>2, <1>3, <2>1, <2>2, RuntimeConstants
<1>6. RuntimeTyped'
  <2>1. frames' \in [Threads -> Seq(Seq(R))] /\ \A u \in Threads : Len(frames'[u]) <= MaxDepth
    BY <1>1, <1>3, <1>5 DEF RuntimeTyped
  <2>2. ended' \in [R -> RequestEnds]
    BY <1>4 DEF RuntimeTyped, RequestEnds
  <2>3. QED
    BY <1>1, <2>1, <2>2 DEF RuntimeTyped
<1>7. Runtime!Working' = Runtime!Working
  BY <1>1, <1>5 DEF Runtime!Working, Runtime!InOperation
<1>8. Occupied'
  <2>1. \A u \in leaving' : frames'[u] = <<>>
    BY <1>1, <1>5 DEF Occupied, RuntimeTyped
  <2>2. QED
    BY <1>1, <1>7, <2>1 DEF Occupied
<1>9. /\ Queued' = Queued /\ Taken' = Taken /\ HeadEnds' = HeadEnds
      /\ \A u \in Threads : Framed(u)' = IF u = t THEN Framed(t) \ rs ELSE Framed(u)
      /\ \A u \in Threads : Stacked(frames'[u])
  <2>1. Queued' = Queued /\ Taken' = Taken /\ HeadEnds' = HeadEnds
    BY <1>1 DEF Queued, Taken, HeadEnds
  <2>2. \A u \in Threads : Framed(u)' = IF u = t THEN Framed(t) \ rs ELSE Framed(u)
    BY <1>3, <1>5 DEF Framed
  <2>3. \A u \in Threads : Stacked(frames'[u])
    BY <1>3, <1>5 DEF Apart
  <2>4. QED
    BY <2>1, <2>2, <2>3
<1>10. Apart'
  BY <1>1, <1>9 DEF Apart
<1>11. Followed'
  <2>1. /\ \A u \in Threads \ {t} : Framed(u) \cap rs = {}
        /\ Queued \cap rs = {} /\ Taken \cap rs = {}
    BY <1>3 DEF Apart
  <2>2. \A r \in R : ended'[r] = IF r \in rs THEN "rollback" ELSE ended[r]
    BY <1>4
  <2>3. /\ \A u \in Threads : Framed(u) \subseteq R
        /\ Queued \subseteq R /\ Taken \subseteq R
    BY SetsTyped
  <2>4. \A u \in Threads : \A r \in Framed(u)' : ended'[r] = "asked"
    BY <1>9, <2>1, <2>2, <2>3 DEF Followed
  <2>5. \A r \in Queued' : ended'[r] = "asked"
    BY <1>9, <2>1, <2>2, <2>3 DEF Followed
  <2>6. \A r \in Taken' : ended'[r] \in IF r = Head(todo)' THEN HeadEnds' ELSE {"asked"}
    BY <1>1, <1>9, <2>1, <2>2, <2>3 DEF Followed
  <2>7. \A r \in R : ended'[r] \in {"asked", "active"} =>
          r \in Queued' \/ r \in Taken' \/ \E u \in Threads : r \in Framed(u)'
    BY <1>9, <2>2 DEF Followed
  <2>8. QED
    BY <2>4, <2>5, <2>6, <2>7 DEF Followed
<1>12. QED
  BY <1>1, <1>6, <1>8, <1>10, <1>11, RestKeeps

\* The runtime closes: what waits in the queue is rolled back.
LEMMA CloseRolls ==
  ASSUME RuntimeTyped, Apart, Followed, Runtime!CloseNow, UNCHANGED <<frames, todo, runtimePhase>>
  PROVE  Apart' /\ Followed' /\ pending' = <<>> /\ ended' \in [Runtime!Requests -> RequestEnds]
<1> DEFINE R == Runtime!Requests
<1>1. /\ pending' = <<>> /\ ended' = [r \in R |-> IF r \in Queued THEN "rollback" ELSE ended[r]]
  <2>1. pending \in Seq(R)
    BY DEF RuntimeTyped
  <2>2. Runtime!Range(pending) = Queued
    BY <2>1, RangeElements DEF Queued
  <2>3. QED
    BY <2>2 DEF Runtime!CloseNow, Runtime!Rollback
<1>2. /\ Distinct(pending') /\ Queued' = {} /\ Taken' = Taken /\ HeadEnds' = HeadEnds
      /\ \A u \in Threads : Framed(u)' = Framed(u)
  BY <1>1, DistinctOne DEF Queued, Taken, Framed, HeadEnds, Elements, Distinct
<1>3. Apart'
  BY <1>2 DEF Apart
<1>4. Followed'
  BY <1>1, <1>2, SetsTyped DEF Followed, Apart
<1>5. QED
  BY <1>1, <1>3, <1>4 DEF RuntimeTyped, RequestEnds

\* The last one out closes, or takes what is pending; another one just leaves.
LEMMA ReleaseKeeps ==
  ASSUME NEW t \in Threads, RuntimeInv, Runtime!Release(t)
  PROVE  RuntimeInv'
<1> USE DEF RuntimeInv
<1> DEFINE R == Runtime!Requests
<1>1. /\ holder = NoThread /\ t \in leaving
      /\ leaving' = leaving \ {t} /\ busy' = busy - 1
      /\ stage' = [stage EXCEPT ![t] = Runtime!NoStage]
      /\ UNCHANGED <<frames, runtimeClosing>>
      /\ \/ Runtime!CloseNow /\ UNCHANGED <<holder, runtimePhase, todo>> /\ busy' = 0
         \/ /\ busy' = 0 /\ pending # <<>> /\ todo' = pending /\ pending' = <<>> /\ holder' = t
            /\ UNCHANGED <<closed, change, ended, runtimeCurrent, generation, loads, open, released,
                           runtimePhase>>
         \/ /\ busy' > 0 \/ pending = <<>>
            /\ UNCHANGED <<closed, pending, change, ended, runtimeCurrent, generation, loads, open,
                           released, holder, runtimePhase, todo>>
  BY DEF Runtime!Release, Runtime!Unlocked, Runtime!loadVars, Runtime!lockVars, Runtime!requestVars
<1>2. /\ frames[t] = <<>> /\ t \in Runtime!Working /\ ~closed /\ todo = <<>>
      /\ runtimePhase = "apply"
  BY <1>1 DEF Occupied, Runtime!Working
<1>3. Runtime!Working' = Runtime!Working \ {t} /\ Runtime!Working \subseteq Threads
  BY <1>1, <1>2 DEF Runtime!Working, Runtime!InOperation
<1>4. busy' = Cardinality(Runtime!Working') /\ (busy' = 0 <=> Runtime!Working' = {})
  <2>1. busy' = Cardinality(Runtime!Working')
    BY <1>1, <1>2, <1>3, BusyFacts
  <2>2. IsFiniteSet(Runtime!Working')
    BY <1>3, RuntimeConstants, FS_Subset
  <2>3. QED
    BY <2>1, <2>2, FS_EmptySet
<1>5. \A u \in leaving' : frames'[u] = <<>>
  BY <1>1 DEF Occupied
<1>6. \A u \in Runtime!Working' : u \in Runtime!Working /\ stage'[u] = stage[u]
  BY <1>1, <1>3 DEF RuntimeTyped
<1>7. /\ frames' \in [Threads -> Seq(Seq(R))]
      /\ \A u \in Threads : Len(frames'[u]) <= MaxDepth
      /\ stage' \in [Threads -> 0..Runtime!NoStage] /\ leaving' \subseteq Threads
  <2>1. Runtime!NoStage \in 0..Runtime!NoStage
    BY RuntimeConstants DEF Runtime!NoStage
  <2>2. QED
    BY <1>1, <2>1 DEF RuntimeTyped
<1>8. CASE Runtime!CloseNow /\ UNCHANGED <<holder, runtimePhase, todo>> /\ busy' = 0
  <2>1. Apart' /\ Followed' /\ pending' = <<>> /\ ended' \in [R -> RequestEnds]
    BY <1>1, <1>8, CloseRolls
  <2>2. Resourced'
    BY <1>2, <1>8, CloseKeeps
  <2>3. change' = change /\ runtimeCurrent' = runtimeCurrent /\ closed'
    BY <1>8 DEF Runtime!CloseNow
  <2>4. pending' \in Seq(R)
    BY <2>1
  <2>5. RuntimeTyped'
    BY <1>7, <1>8, <2>1, <2>3, <2>4 DEF RuntimeTyped
  <2>6. Occupied'
    BY <1>1, <1>2, <1>4, <1>5, <1>8, <2>1 DEF Occupied
  <2>7. QED
    BY <2>1, <2>2, <2>5, <2>6
<1>9. CASE /\ busy' = 0 /\ pending # <<>> /\ todo' = pending /\ pending' = <<>> /\ holder' = t
           /\ UNCHANGED <<closed, change, ended, runtimeCurrent, generation, loads, open, released,
                          runtimePhase>>
  <2>1. pending \in Seq(R) /\ pending' \in Seq(R)
    BY <1>9 DEF RuntimeTyped
  <2>2. RuntimeTyped'
    BY <1>7, <1>9, <2>1 DEF RuntimeTyped
  <2>3. holder' # NoThread /\ todo' # <<>>
    BY <1>9, RuntimeConstants
  <2>4. Occupied'
    BY <1>2, <1>4, <1>5, <1>9, <2>3 DEF Occupied
  <2>5. Queued' = {} /\ Distinct(pending') /\ Taken' = Queued /\ Taken = {} /\ Distinct(todo')
    BY <1>2, <1>9, DistinctOne DEF Queued, Taken, Apart, Elements, Distinct
  <2>6. \A u \in Threads : Framed(u)' = Framed(u)
    BY <1>1 DEF Framed
  <2>7. Apart'
    BY <1>1, <2>5, <2>6 DEF Apart
  <2>8. HeadEnds' = {"asked"}
    BY <1>2, <1>9 DEF HeadEnds
  <2>9. Followed'
    BY <1>9, <2>5, <2>6, <2>8 DEF Followed
  <2>10. QED
    BY <1>9, <2>2, <2>4, <2>7, <2>9, RestKeeps
<1>10. CASE /\ busy' > 0 \/ pending = <<>>
            /\ UNCHANGED <<closed, pending, change, ended, runtimeCurrent, generation, loads, open,
                           released, holder, runtimePhase, todo>>
  <2>1. RuntimeTyped'
    BY <1>7, <1>10 DEF RuntimeTyped
  <2>2. pending' # <<>> => Runtime!Working' # {}
    BY <1>4, <1>10
  <2>3. Occupied'
    BY <1>1, <1>2, <1>4, <1>5, <1>6, <1>10, <2>2 DEF Occupied
  <2>4. Apart' /\ Followed'
    BY <1>1, <1>10, RequestsStay DEF Apart
  <2>5. QED
    BY <1>10, <2>1, <2>3, <2>4, RestKeeps
<1>11. QED
  BY <1>1, <1>8, <1>9, <1>10

LEMMA CloseActionKeeps ==
  ASSUME NEW t \in Threads, RuntimeInv, Runtime!Close(t)
  PROVE  RuntimeInv'
<1> USE DEF RuntimeInv
<1>1. /\ ~closed /\ holder = NoThread
      /\ UNCHANGED <<frames, stage, leaving, busy, holder, runtimePhase, todo>>
      /\ IF busy > 0
           THEN UNCHANGED <<closed, pending, change, ended, runtimeCurrent, generation, loads, open, released>>
           ELSE Runtime!CloseNow
  BY DEF Runtime!Close, Runtime!Unlocked, Runtime!opVars, Runtime!lockVars, Runtime!requestVars,
    Runtime!loadVars
<1>2. Runtime!Working' = Runtime!Working
  BY <1>1 DEF Runtime!Working, Runtime!InOperation
<1>3. CASE busy > 0
  <2>1. RuntimeTyped'
    BY <1>1, <1>3 DEF RuntimeTyped
  <2>2. Occupied'
    BY <1>1, <1>2, <1>3 DEF Occupied
  <2>3. Apart' /\ Followed'
    BY <1>1, <1>3, RequestsStay DEF Apart
  <2>4. QED
    BY <1>1, <1>3, <2>1, <2>2, <2>3, RestKeeps
<1>4. CASE ~(busy > 0)
  <2>1. Runtime!CloseNow /\ Runtime!Working = {}
    BY <1>1, <1>4, BusyFacts
  <2>2. /\ Apart' /\ Followed' /\ pending' = <<>> /\ ended' \in [Runtime!Requests -> RequestEnds]
        /\ Resourced'
    BY <1>1, <2>1, CloseRolls, CloseKeeps
  <2>3. change' = change /\ runtimeCurrent' = runtimeCurrent /\ pending' \in Seq(Runtime!Requests)
    BY <2>1, <2>2 DEF Runtime!CloseNow
  <2>4. RuntimeTyped'
    BY <1>1, <2>2, <2>3 DEF RuntimeTyped
  <2>5. Occupied'
    BY <1>1, <1>2, <2>1, <2>2, <2>3 DEF Occupied
  <2>6. QED
    BY <2>2, <2>4, <2>5
<1>5. QED
  BY <1>3, <1>4

LEMMA RequestKeeps ==
  ASSUME NEW t \in Threads, NEW r \in Runtime!Requests, NEW c \in Runtime!Changes,
         RuntimeInv, Runtime!Request(t, r, c)
  PROVE  RuntimeInv'
<1> USE DEF RuntimeInv
<1> DEFINE R == Runtime!Requests
           fs == [frames[t] EXCEPT ![Len(frames[t])] = Append(@, r)]
           one == <<r>>
<1>1. /\ holder = NoThread /\ ended[r] = "none"
      /\ ended' = [ended EXCEPT ![r] = "asked"] /\ change' = [change EXCEPT ![r] = c]
      /\ UNCHANGED <<stage, leaving, busy, runtimeClosing, closed, runtimeCurrent, generation, loads,
                     open, released>>
      /\ \/ /\ frames[t] # <<>> /\ frames' = [frames EXCEPT ![t] = fs]
            /\ UNCHANGED <<pending, holder, runtimePhase, todo>>
         \/ /\ busy > 0 /\ pending' = Append(pending, r)
            /\ UNCHANGED <<frames, holder, runtimePhase, todo>>
         \/ /\ busy = 0 /\ todo' = one /\ holder' = t
            /\ UNCHANGED <<frames, pending, runtimePhase>>
  BY DEF Runtime!Request, Runtime!Unlocked, Runtime!InOperation, Runtime!lifeVars, Runtime!loadVars,
    Runtime!lockVars, Runtime!AskedInside
<1>2. ended' \in [R -> RequestEnds] /\ change' \in [R -> AnyChange]
  BY <1>1 DEF RuntimeTyped, RequestEnds, AnyChange
<1>3. \A q \in R : ended'[q] = IF q = r THEN "asked" ELSE ended[q]
  BY <1>1 DEF RuntimeTyped
<1>4. todo = <<>> /\ runtimePhase = "apply" /\ Taken = {}
  BY <1>1, DistinctOne DEF Occupied, Taken, Elements
<1>5. (\A u \in Threads : r \notin Framed(u)) /\ r \notin Queued
  BY <1>1 DEF Followed
<1>6. /\ frames \in [Threads -> Seq(Seq(R))] /\ pending \in Seq(R) /\ todo \in Seq(R)
      /\ \A u \in Threads : Framed(u) \subseteq R
      /\ Queued \subseteq R
  BY SetsTyped DEF RuntimeTyped
<1>7. /\ one \in Seq(R) /\ Distinct(one) /\ Elements(one) = {r} /\ one # <<>> /\ Head(one) = r
  BY DistinctOne
<1>8. pending \o one = Append(pending, r)
  BY <1>6
<1> HIDE DEF one, fs
<1>9. CASE /\ frames[t] # <<>> /\ frames' = [frames EXCEPT ![t] = fs]
           /\ UNCHANGED <<pending, holder, runtimePhase, todo>>
  <2>1. frames[t] \in Seq(Seq(R)) /\ Stacked(frames[t]) /\ r \notin Owned(frames[t])
    BY <1>5, <1>6 DEF Apart, Framed
  <2>2. /\ fs \in Seq(Seq(R)) /\ Stacked(fs) /\ Len(fs) = Len(frames[t])
        /\ Owned(fs) = Framed(t) \cup {r}
    BY <1>9, <2>1, StackAsk DEF Framed, fs
  <2>3. \A u \in Threads : frames'[u] = IF u = t THEN fs ELSE frames[u]
    BY <1>9, <1>6
  <2>4. fs # <<>>
    BY <1>9, <2>1, <2>2
  <2>5. RuntimeTyped'
    <3>1. frames' \in [Threads -> Seq(Seq(R))] /\ \A u \in Threads : Len(frames'[u]) <= MaxDepth
      BY <1>6, <1>9, <2>2, <2>3 DEF RuntimeTyped
    <3>2. QED
      BY <1>1, <1>2, <1>9, <3>1 DEF RuntimeTyped
  <2>6. Runtime!Working' = Runtime!Working
    BY <1>1, <1>9, <2>3, <2>4 DEF Runtime!Working, Runtime!InOperation
  <2>7. Occupied'
    <3>1. \A u \in leaving' : frames'[u] = <<>>
      BY <1>1, <1>9, <2>3 DEF Occupied, RuntimeTyped
    <3>2. QED
      BY <1>1, <1>9, <2>6, <3>1 DEF Occupied
  <2>8. /\ Queued' = Queued /\ Taken' = {} /\ Distinct(pending') /\ Distinct(todo')
    BY <1>4, <1>9 DEF Queued, Taken, Apart
  <2>9. \A u \in Threads : Framed(u)' = IF u = t THEN Framed(t) \cup {r} ELSE Framed(u)
    BY <2>2, <2>3 DEF Framed
  <2>10. \A u \in Threads : Stacked(frames'[u])
    BY <2>2, <2>3 DEF Apart
  <2>11. Apart'
    BY <1>5, <2>8, <2>9, <2>10 DEF Apart
  <2>12. Followed'
    <3>1. \A u \in Threads : \A q \in Framed(u)' : ended'[q] = "asked"
      BY <1>3, <1>6, <2>9 DEF Followed
    <3>2. \A q \in Queued' : ended'[q] = "asked"
      BY <1>3, <1>6, <2>8 DEF Followed
    <3>3. \A q \in R : ended'[q] \in {"asked", "active"} =>
            q \in Queued' \/ \E u \in Threads : q \in Framed(u)'
      BY <1>3, <1>4, <2>8, <2>9 DEF Followed
    <3>4. QED
      BY <2>8, <3>1, <3>2, <3>3 DEF Followed
  <2>13. QED
    BY <1>1, <2>5, <2>7, <2>11, <2>12, RestKeeps
<1>10. CASE /\ busy > 0 /\ pending' = Append(pending, r)
            /\ UNCHANGED <<frames, holder, runtimePhase, todo>>
  <2>1. Queued \cap Elements(one) = {} /\ Distinct(pending)
    BY <1>5, <1>7 DEF Apart
  <2>2. pending' \in Seq(R) /\ Distinct(pending') /\ Queued' = Queued \cup {r}
    <3>1. Elements(pending) \cap Elements(one) = {}
      BY <2>1 DEF Queued
    <3>2. /\ pending \o one \in Seq(R) /\ Distinct(pending \o one)
          /\ Elements(pending \o one) = Elements(pending) \cup Elements(one)
      BY <1>6, <1>7, <2>1, <3>1, DistinctConcat
    <3>3. pending' = pending \o one
      BY <1>8, <1>10
    <3>4. QED
      BY <1>7, <3>2, <3>3 DEF Queued
  <2>3. RuntimeTyped'
    BY <1>1, <1>2, <1>10, <2>2 DEF RuntimeTyped
  <2>4. Runtime!Working' = Runtime!Working /\ Runtime!Working # {}
    BY <1>1, <1>10, BusyFacts DEF Runtime!Working, Runtime!InOperation
  <2>5. Occupied'
    BY <1>1, <1>10, <2>4 DEF Occupied
  <2>6. Taken' = {} /\ Distinct(todo') /\ \A u \in Threads : Framed(u)' = Framed(u)
    BY <1>4, <1>10 DEF Taken, Framed, Apart
  <2>7. Apart'
    BY <1>5, <1>10, <2>2, <2>6 DEF Apart
  <2>8. Followed'
    <3>1. \A u \in Threads : \A q \in Framed(u)' : ended'[q] = "asked"
      BY <1>3, <1>6, <2>6 DEF Followed
    <3>2. \A q \in Queued' : ended'[q] = "asked"
      BY <1>3, <1>6, <2>2 DEF Followed
    <3>3. \A q \in R : ended'[q] \in {"asked", "active"} =>
            q \in Queued' \/ \E u \in Threads : q \in Framed(u)'
      BY <1>3, <1>4, <2>2, <2>6 DEF Followed
    <3>4. QED
      BY <2>6, <3>1, <3>2, <3>3 DEF Followed
  <2>9. QED
    BY <1>1, <2>3, <2>5, <2>7, <2>8, RestKeeps
<1>11. CASE /\ busy = 0 /\ todo' = one /\ holder' = t
            /\ UNCHANGED <<frames, pending, runtimePhase>>
  <2>1. RuntimeTyped'
    BY <1>1, <1>2, <1>7, <1>11 DEF RuntimeTyped
  <2>2. Runtime!Working' = Runtime!Working /\ Runtime!Working = {}
    BY <1>1, <1>11, BusyFacts DEF Runtime!Working, Runtime!InOperation
  <2>3. holder' # NoThread
    BY <1>11, RuntimeConstants
  <2>4. Occupied'
    BY <1>1, <1>7, <1>11, <2>2, <2>3 DEF Occupied
  <2>5. /\ Taken' = {r} /\ Distinct(todo') /\ Head(todo') = r /\ HeadEnds' = {"asked"}
        /\ Queued' = Queued /\ \A u \in Threads : Framed(u)' = Framed(u)
    BY <1>4, <1>7, <1>11 DEF Taken, Queued, Framed, HeadEnds
  <2>6. Apart'
    BY <1>5, <1>11, <2>5 DEF Apart
  <2>7. Followed'
    <3>1. \A u \in Threads : \A q \in Framed(u)' : ended'[q] = "asked"
      BY <1>3, <1>6, <2>5 DEF Followed
    <3>2. \A q \in Queued' : ended'[q] = "asked"
      BY <1>3, <1>6, <2>5 DEF Followed
    <3>3. \A q \in R : ended'[q] \in {"asked", "active"} =>
            q \in Queued' \/ q \in Taken' \/ \E u \in Threads : q \in Framed(u)'
      BY <1>3, <1>4, <2>5 DEF Followed
    <3>4. \A q \in Taken' : ended'[q] \in IF q = Head(todo)' THEN HeadEnds' ELSE {"asked"}
      BY <1>3, <2>5
    <3>5. QED
      BY <3>1, <3>2, <3>3, <3>4 DEF Followed
  <2>8. QED
    BY <1>1, <2>1, <2>4, <2>6, <2>7, RestKeeps
<1>12. QED
  BY <1>1, <1>9, <1>10, <1>11

\* Who holds the lock is alone: nobody is at work and nothing waits in the queue.
LEMMA HolderAlone ==
  ASSUME RuntimeInv, holder # NoThread
  PROVE  /\ Runtime!Working = {} /\ pending = <<>> /\ Queued = {}
         /\ \A t \in Threads : frames[t] = <<>> /\ Framed(t) = {}
         /\ leaving = {} /\ todo # <<>> /\ todo \in Seq(Runtime!Requests) /\ Distinct(todo)
         /\ Head(todo) \in Runtime!Requests /\ Head(todo) \in Taken
         /\ ended[Head(todo)] \in HeadEnds
         /\ \A r \in Taken : r # Head(todo) => ended[r] = "asked"
         /\ \A r \in Runtime!Requests : ended[r] \in {"asked", "active"} => r \in Taken
<1> USE DEF RuntimeInv
<1>1. Runtime!Working = {} /\ pending = <<>> /\ todo # <<>>
  BY DEF Occupied
<1>2. leaving = {} /\ \A t \in Threads : frames[t] = <<>>
  BY <1>1 DEF Runtime!Working, Runtime!InOperation, RuntimeTyped
<1>3. Queued = {} /\ \A t \in Threads : Framed(t) = {}
  BY <1>1, <1>2, DistinctOne, StackNew DEF Queued, Framed
<1>4. todo \in Seq(Runtime!Requests) /\ Distinct(todo)
  BY DEF RuntimeTyped, Apart
<1>5. Head(todo) \in Runtime!Requests /\ Head(todo) \in Taken
  BY <1>1, <1>4, DistinctTail DEF Taken
<1>6. ended[Head(todo)] \in HeadEnds /\ \A r \in Taken : r # Head(todo) => ended[r] = "asked"
  BY <1>5 DEF Followed
<1>7. \A r \in Runtime!Requests : ended[r] \in {"asked", "active"} => r \in Taken
  BY <1>3 DEF Followed
<1>8. QED
  BY <1>1, <1>2, <1>3, <1>4, <1>5, <1>6, <1>7

\* Working on the first request taken.
LEMMA HeadMoves ==
  ASSUME RuntimeInv, holder # NoThread,
         UNCHANGED <<frames, stage, leaving, busy, closed, pending, change, holder, todo>>,
         runtimePhase' \in {"apply", "announce", "report"}, Resourced', NEW e \in RequestEnds,
         ended' = [r \in Runtime!Requests |-> IF r = Head(todo) THEN e ELSE ended[r]],
         e \in HeadEnds'
  PROVE  RuntimeInv'
<1> USE DEF RuntimeInv
<1> DEFINE R == Runtime!Requests
<1>1. /\ Runtime!Working = {} /\ pending = <<>> /\ Queued = {} /\ todo # <<>>
      /\ \A t \in Threads : frames[t] = <<>> /\ Framed(t) = {}
      /\ Head(todo) \in R /\ Head(todo) \in Taken
      /\ \A r \in Taken : r # Head(todo) => ended[r] = "asked"
      /\ \A r \in R : ended[r] \in {"asked", "active"} => r \in Taken
  BY HolderAlone
<1>2. Taken' = Taken /\ Queued' = {} /\ \A t \in Threads : Framed(t)' = {}
  BY <1>1 DEF Taken, Queued, Framed
<1>3. RuntimeTyped'
  BY DEF RuntimeTyped
<1>4. Runtime!Working' = {}
  BY <1>1 DEF Runtime!Working, Runtime!InOperation
<1>5. Occupied'
  BY <1>1, <1>4 DEF Occupied
<1>6. Apart'
  BY <1>2 DEF Apart
<1>7. Followed'
  <2>1. Taken \subseteq R
    BY SetsTyped
  <2>2. \A r \in Taken' : ended'[r] \in IF r = Head(todo)' THEN HeadEnds' ELSE {"asked"}
    BY <1>1, <1>2, <2>1
  <2>3. \A r \in R : ended'[r] \in {"asked", "active"} => r \in Taken'
    BY <1>1, <1>2
  <2>4. QED
    BY <1>2, <2>2, <2>3 DEF Followed
<1>8. QED
  BY <1>3, <1>5, <1>6, <1>7

\* The first request taken is done with.
LEMMA TailMoves ==
  ASSUME RuntimeInv, holder # NoThread,
         UNCHANGED <<frames, stage, leaving, busy, closed, pending, change,
                     runtimeCurrent, generation, loads, open, released>>,
         Runtime!Continue(Tail(todo), "apply"), ended' \in [Runtime!Requests -> RequestEnds],
         \A r \in Runtime!Requests : r # Head(todo) => ended'[r] = ended[r],
         ended'[Head(todo)] \in {"commit", "rollback", "dropped"}
  PROVE  RuntimeInv'
<1> USE DEF RuntimeInv
<1> DEFINE R == Runtime!Requests
<1>1. /\ Runtime!Working = {} /\ pending = <<>> /\ Queued = {} /\ todo # <<>>
      /\ todo \in Seq(R) /\ Distinct(todo)
      /\ \A t \in Threads : frames[t] = <<>> /\ Framed(t) = {}
      /\ Head(todo) \in R /\ Head(todo) \in Taken
      /\ \A r \in Taken : r # Head(todo) => ended[r] = "asked"
      /\ \A r \in R : ended[r] \in {"asked", "active"} => r \in Taken
  BY HolderAlone
<1>2. /\ todo' = Tail(todo) /\ runtimePhase' = "apply"
      /\ holder' = IF Tail(todo) = <<>> THEN NoThread ELSE holder
  BY DEF Runtime!Continue
<1>3. /\ todo' \in Seq(R) /\ Distinct(todo') /\ Taken' = Taken \ {Head(todo)}
  BY <1>1, <1>2, DistinctTail DEF Taken
<1>4. Queued' = {} /\ \A t \in Threads : Framed(t)' = {}
  BY <1>1 DEF Queued, Framed
<1>5. RuntimeTyped'
  BY <1>2, <1>3 DEF RuntimeTyped
<1>6. Runtime!Working' = {}
  BY <1>1 DEF Runtime!Working, Runtime!InOperation
<1>7. Occupied'
  BY <1>1, <1>2, <1>6 DEF Occupied
<1>8. Apart'
  BY <1>3, <1>4 DEF Apart
<1>9. Followed'
  <2>1. HeadEnds' = {"asked"}
    BY <1>2 DEF HeadEnds
  <2>2. Taken \subseteq R
    BY SetsTyped
  <2>3. \A r \in Taken' : ended'[r] = "asked"
    BY <1>1, <1>3, <2>2
  <2>4. \A r \in R : ended'[r] \in {"asked", "active"} => r \in Taken'
    BY <1>1, <1>3
  <2>5. QED
    BY <1>4, <2>1, <2>3, <2>4 DEF Followed
<1>10. QED
  BY <1>5, <1>7, <1>8, <1>9, RestKeeps

LEMMA ApplyKeeps ==
  ASSUME RuntimeInv, Runtime!ApplyRejected \/ Runtime!ApplyActivated
  PROVE  RuntimeInv'
<1> DEFINE R == Runtime!Requests
           c == change[Head(todo)]
<1>1. /\ holder # NoThread /\ runtimePhase = "apply"
      /\ UNCHANGED <<frames, stage, leaving, busy, runtimeClosing, closed, pending, change, holder, todo>>
  BY DEF Runtime!ApplyRejected, Runtime!ApplyActivated, Runtime!Applying, Runtime!opVars, Runtime!lifeVars
<1>2. Head(todo) \in R /\ ended \in [R -> RequestEnds] /\ c \in AnyChange /\ Resourced
  BY <1>1, HolderAlone DEF RuntimeInv, RuntimeTyped
<1>3. CASE Runtime!ApplyRejected
  <2>1. Resourced'
    <3>1. \/ UNCHANGED <<runtimeCurrent, generation, loads, open, released>>
          \/ Runtime!LoadFails(c) \/ Runtime!RestoreFails(c)
      BY <1>3 DEF Runtime!ApplyRejected, Runtime!Rejected, Runtime!NotStaged, Runtime!loadVars
    <3>2. QED
      BY <1>1, <1>2, <3>1, RejectedKeeps, RestKeeps
  <2>2. /\ runtimePhase' = "report"
        /\ ended' = [r \in R |-> IF r = Head(todo) THEN "rollback" ELSE ended[r]]
    BY <1>3 DEF Runtime!ApplyRejected, Runtime!Rollback
  <2>3. "rollback" \in HeadEnds' /\ "rollback" \in RequestEnds
    BY <2>2 DEF HeadEnds, RequestEnds
  <2>4. QED
    BY <1>1, <2>1, <2>2, <2>3, HeadMoves
<1>4. CASE Runtime!ApplyActivated
  <2>1. ~closed /\ Runtime!Switch(c)
    BY <1>4 DEF Runtime!ApplyActivated
  <2>2. Resourced'
    BY <1>1, <1>2, <2>1, SwitchKeeps
  <2>3. runtimePhase' = "announce" /\ ended' = [ended EXCEPT ![Head(todo)] = "active"]
    BY <1>4 DEF Runtime!ApplyActivated
  <2>4. ended' = [r \in R |-> IF r = Head(todo) THEN "active" ELSE ended[r]]
    BY <1>2, <2>3
  <2>5. "active" \in HeadEnds' /\ "active" \in RequestEnds
    BY <2>3 DEF HeadEnds, RequestEnds
  <2>6. QED
    BY <1>1, <2>2, <2>3, <2>4, <2>5, HeadMoves
<1>5. QED
  BY <1>3, <1>4

LEMMA AnnounceKeeps ==
  ASSUME RuntimeInv, Runtime!Commit \/ Runtime!AnnounceRaises
  PROVE  RuntimeInv'
<1> DEFINE R == Runtime!Requests
<1>1. /\ holder # NoThread /\ runtimePhase = "announce"
      /\ UNCHANGED <<frames, stage, leaving, busy, runtimeClosing, closed, pending, change,
                     runtimeCurrent, generation, loads, open, released>>
      /\ \/ ended' = [ended EXCEPT ![Head(todo)] = "commit"]
         \/ /\ ended' = [ended EXCEPT ![Head(todo)] = "dropped"]
            /\ runtimePhase' = "report" /\ UNCHANGED <<holder, todo>>
      /\ \/ runtimePhase' = "report" /\ UNCHANGED <<holder, todo>>
         \/ Runtime!Continue(Tail(todo), "apply")
  BY DEF Runtime!Commit, Runtime!AnnounceRaises, Runtime!Applying, Runtime!opVars, Runtime!lifeVars,
    Runtime!loadVars
<1>2. Head(todo) \in R /\ ended \in [R -> RequestEnds] /\ Resourced
  BY <1>1, HolderAlone DEF RuntimeInv, RuntimeTyped
<1>3. PICK e \in {"commit", "dropped"} :
        ended' = [r \in R |-> IF r = Head(todo) THEN e ELSE ended[r]]
  BY <1>1, <1>2
<1>4. e \in RequestEnds
  BY DEF RequestEnds
<1>5. Resourced'
  BY <1>1, <1>2, RestKeeps
<1>6. CASE runtimePhase' = "report" /\ UNCHANGED <<holder, todo>>
  <2>1. e \in HeadEnds'
    BY <1>6 DEF HeadEnds
  <2>2. QED
    BY <1>1, <1>3, <1>4, <1>5, <1>6, <2>1, HeadMoves
<1>7. CASE Runtime!Continue(Tail(todo), "apply")
  <2>1. /\ ended' \in [R -> RequestEnds] /\ ended'[Head(todo)] \in {"commit", "rollback", "dropped"}
        /\ \A r \in R : r # Head(todo) => ended'[r] = ended[r]
    BY <1>2, <1>3, <1>4
  <2>2. QED
    BY <1>1, <1>7, <2>1, TailMoves
<1>8. QED
  BY <1>1, <1>6, <1>7

LEMMA ReportKeeps ==
  ASSUME RuntimeInv, Runtime!Report
  PROVE  RuntimeInv'
<1>1. /\ holder # NoThread /\ runtimePhase = "report" /\ Runtime!Continue(Tail(todo), "apply")
      /\ UNCHANGED <<frames, stage, leaving, busy, runtimeClosing, closed, pending, change, ended,
                     runtimeCurrent, generation, loads, open, released>>
  BY DEF Runtime!Report, Runtime!Applying, Runtime!opVars, Runtime!lifeVars, Runtime!loadVars,
    Runtime!requestVars
<1>2. ended \in [Runtime!Requests -> RequestEnds]
  BY DEF RuntimeInv, RuntimeTyped
<1>3. ended[Head(todo)] \in {"commit", "rollback", "dropped"}
  BY <1>1, HolderAlone DEF HeadEnds
<1>4. QED
  BY <1>1, <1>2, <1>3, TailMoves

\* What is behind the request that could not be reported is dropped, none is left.
LEMMA ReportRaisesKeeps ==
  ASSUME RuntimeInv, Runtime!ReportRaises
  PROVE  RuntimeInv'
<1> USE DEF RuntimeInv
<1> DEFINE R == Runtime!Requests
<1>1. /\ holder # NoThread /\ runtimePhase = "report"
      /\ ended' = [r \in R |-> IF r \in Runtime!Range(Tail(todo)) THEN "dropped" ELSE ended[r]]
      /\ todo' = <<>> /\ runtimePhase' = "apply" /\ holder' = NoThread
      /\ UNCHANGED <<frames, stage, leaving, busy, runtimeClosing, closed, pending, change,
                     runtimeCurrent, generation, loads, open, released>>
  BY DEF Runtime!ReportRaises, Runtime!Applying, Runtime!Continue, Runtime!opVars, Runtime!lifeVars,
    Runtime!loadVars
<1>2. /\ Runtime!Working = {} /\ pending = <<>> /\ Queued = {} /\ todo # <<>>
      /\ todo \in Seq(R) /\ Distinct(todo)
      /\ \A t \in Threads : frames[t] = <<>> /\ Framed(t) = {}
      /\ Head(todo) \in R /\ ended[Head(todo)] \in HeadEnds
      /\ \A r \in R : ended[r] \in {"asked", "active"} => r \in Taken
  BY <1>1, HolderAlone
<1>3. Runtime!Range(Tail(todo)) = Taken \ {Head(todo)}
  <2>1. Tail(todo) \in Seq(R) /\ Elements(Tail(todo)) = Taken \ {Head(todo)}
    BY <1>2, DistinctTail DEF Taken
  <2>2. QED
    BY <2>1, RangeElements
<1>4. ended[Head(todo)] \notin {"asked", "active"}
  BY <1>1, <1>2 DEF HeadEnds
<1>5. \A r \in R : ended'[r] \notin {"asked", "active"}
  BY <1>1, <1>2, <1>3, <1>4
<1>6. todo' \in Seq(R) /\ Distinct(todo') /\ Taken' = {}
  BY <1>1, DistinctOne DEF Taken, Elements, Distinct
<1>7. Queued' = {} /\ \A t \in Threads : Framed(t)' = {}
  BY <1>1, <1>2 DEF Queued, Framed
<1>8. RuntimeTyped'
  <2>1. ended' \in [R -> RequestEnds]
    BY <1>1 DEF RuntimeTyped, RequestEnds
  <2>2. QED
    BY <1>1, <1>6, <2>1 DEF RuntimeTyped
<1>9. Runtime!Working' = {}
  BY <1>1, <1>2 DEF Runtime!Working, Runtime!InOperation
<1>10. Occupied'
  BY <1>1, <1>2, <1>9 DEF Occupied
<1>11. Apart'
  BY <1>1, <1>6, <1>7 DEF Apart
<1>12. Followed'
  BY <1>5, <1>6, <1>7 DEF Followed
<1>13. QED
  BY <1>1, <1>8, <1>10, <1>11, <1>12, RestKeeps

LEMMA RuntimeSteps == RuntimeInv /\ Runtime!Next => RuntimeInv'
<1> SUFFICES ASSUME RuntimeInv, Runtime!Next PROVE RuntimeInv'
  OBVIOUS
<1>1. ASSUME NEW t \in Threads,
             \/ Runtime!BeginOuter(t) \/ Runtime!BeginNested(t) \/ Runtime!FinishNested(t)
             \/ Runtime!FinishOuter(t) \/ Runtime!Fail(t) \/ Runtime!Release(t) \/ Runtime!Close(t)
             \/ \E r \in Runtime!Requests, c \in Runtime!Changes : Runtime!Request(t, r, c)
      PROVE  RuntimeInv'
  BY <1>1, BeginOuterKeeps, BeginNestedKeeps, FinishNestedKeeps, FinishOuterKeeps, FailKeeps,
     ReleaseKeeps, CloseActionKeeps, RequestKeeps
<1>2. QED
  BY <1>1, RefreshKeeps, ApplyKeeps, AnnounceKeeps, ReportKeeps, ReportRaisesKeeps DEF Runtime!Next

LEMMA RuntimeInvariant == Spec => [](service = "runtime" => RuntimeInv)
<1>1. Init => (service = "runtime" => RuntimeInv)
  BY RuntimeStarts DEF Init
<1>2. (service = "runtime" => RuntimeInv) /\ [Next]_vars => (service = "runtime" => RuntimeInv)'
  <2> SUFFICES ASSUME service = "runtime" => RuntimeInv, [Next]_vars, service' = "runtime"
               PROVE  RuntimeInv'
    OBVIOUS
  <2>1. CASE UNCHANGED runtimeVars /\ service' = service
    <3>1. RuntimeInv
      BY <2>1
    <3>2. UNCHANGED <<frames, stage, leaving, busy, closed, pending, change, ended, holder, todo,
                      runtimePhase, runtimeCurrent, generation, loads, open, released>>
      BY <2>1 DEF runtimeVars
    <3>3. Runtime!Working' = Runtime!Working
      BY <3>2 DEF Runtime!Working, Runtime!InOperation
    <3>4. RuntimeTyped'
      BY <3>1, <3>2 DEF RuntimeInv, RuntimeTyped
    <3>5. Occupied'
      BY <3>1, <3>2, <3>3 DEF RuntimeInv, Occupied
    <3>6. Apart' /\ Followed'
      BY <3>1, <3>2, RequestsStay DEF RuntimeInv, Apart
    <3>7. QED
      BY <3>1, <3>2, <3>4, <3>5, <3>6, RestKeeps DEF RuntimeInv
  <2>2. CASE Only("runtime") /\ Runtime!Next
    BY <2>2, RuntimeSteps DEF Only
  <2>3. QED
    BY <2>1, <2>2 DEF Next, Only, vars
<1>3. QED
  BY <1>1, <1>2, PTL DEF Spec

-----------------------------------------------------------------------------
(***************************************************************************)
(* What follows from the invariant.                                          *)
(***************************************************************************)
LEMMA OnePlace ==
  ASSUME RuntimeInv, NEW r \in Runtime!Requests, ended[r] \in {"asked", "active"}
  PROVE  \E place : Runtime!Places(r) = {place}
<1> USE DEF RuntimeInv
<1> DEFINE R == Runtime!Requests
           inFrames == {at \in Threads \X (1..MaxDepth) :
                          at[2] <= Len(frames[at[1]]) /\ r \in Runtime!Range(frames[at[1]][at[2]])}
           inQueue == {<<"pending", i>> : i \in {j \in DOMAIN pending : pending[j] = r}}
           inHands == {<<"todo", i>> : i \in {j \in DOMAIN todo : todo[j] = r}}
<1>1. Runtime!Places(r) = inFrames \cup inQueue \cup inHands
  BY DEF Runtime!Places
<1>2. /\ frames \in [Threads -> Seq(Seq(R))] /\ pending \in Seq(R) /\ todo \in Seq(R)
      /\ DOMAIN pending = 1..Len(pending) /\ DOMAIN todo = 1..Len(todo)
      /\ Distinct(pending) /\ Distinct(todo)
      /\ \A t \in Threads : Stacked(frames[t]) /\ Len(frames[t]) <= MaxDepth
  BY DEF RuntimeTyped, Apart
<1>3. inQueue = {} <=> r \notin Queued
  BY <1>2 DEF Queued, Elements
<1>4. inHands = {} <=> r \notin Taken
  BY <1>2 DEF Taken, Elements
<1>5. ASSUME NEW t \in Threads, NEW i \in 1..MaxDepth, i <= Len(frames[t])
      PROVE  i \in 1..Len(frames[t]) /\ Runtime!Range(frames[t][i]) = Elements(frames[t][i])
  <2>1. Len(frames[t]) \in Nat /\ MaxDepth \in Nat
    BY <1>2, RuntimeConstants
  <2>2. i \in 1..Len(frames[t])
    BY <1>5, <2>1
  <2>3. frames[t][i] \in Seq(R)
    BY <1>2, <2>2
  <2>4. QED
    BY <2>2, <2>3, RangeElements
<1>6. ASSUME NEW at \in inFrames
      PROVE  /\ at = <<at[1], at[2]>> /\ at[1] \in Threads /\ at[2] \in 1..Len(frames[at[1]])
             /\ r \in Elements(frames[at[1]][at[2]]) /\ r \in Framed(at[1])
  <2>1. at = <<at[1], at[2]>> /\ at[1] \in Threads /\ at[2] \in 1..MaxDepth /\ at[2] <= Len(frames[at[1]])
    OBVIOUS
  <2>2. at[2] \in 1..Len(frames[at[1]]) /\ r \in Elements(frames[at[1]][at[2]])
    BY <1>5, <2>1
  <2>3. QED
    BY <2>1, <2>2 DEF Framed, Owned
<1>7. ASSUME NEW t \in Threads, r \in Framed(t) PROVE \E at \in inFrames : at[1] = t
  <2>1. PICK i \in 1..Len(frames[t]) : r \in Elements(frames[t][i])
    BY <1>7 DEF Framed, Owned
  <2>2. i \in 1..MaxDepth /\ i <= Len(frames[t])
    BY <1>2, <2>1, RuntimeConstants
  <2>3. <<t, i>> \in inFrames
    BY <1>5, <2>1, <2>2
  <2>4. QED
    BY <2>3
<1>8. ASSUME NEW at \in inFrames, NEW other \in inFrames PROVE at = other
  <2>1. at[1] = other[1]
    BY <1>6, <1>8 DEF Apart
  <2>2. at[2] = other[2]
    BY <1>2, <1>6, <1>8, <2>1 DEF Stacked
  <2>3. QED
    BY <1>6, <2>1, <2>2
<1>9. \A p, q \in inQueue : p = q
  BY <1>2 DEF Distinct
<1>10. \A p, q \in inHands : p = q
  BY <1>2 DEF Distinct
<1> HIDE DEF inFrames, inQueue, inHands
<1>11. CASE r \in Queued
  <2>1. inHands = {} /\ inFrames = {}
    BY <1>4, <1>6, <1>11 DEF Apart
  <2>2. QED
    BY <1>1, <1>3, <1>9, <1>11, <2>1
<1>12. CASE r \in Taken
  <2>1. inQueue = {} /\ inFrames = {}
    BY <1>3, <1>6, <1>12 DEF Apart
  <2>2. QED
    BY <1>1, <1>4, <1>10, <1>12, <2>1
<1>13. CASE \E t \in Threads : r \in Framed(t)
  <2>1. inQueue = {} /\ inHands = {}
    BY <1>3, <1>4, <1>13 DEF Apart
  <2>2. inFrames # {}
    BY <1>7, <1>13
  <2>3. QED
    BY <1>1, <1>8, <2>1, <2>2
<1>14. QED
  BY <1>11, <1>12, <1>13 DEF Followed

(* Every request_reload() has exactly one owner until it is applied, rejected or    *)
(* rolled back, and a resource of a generation is released once and only when it    *)
(* is no longer in use (raychat/plugins.py _finish_operation, _apply_pending,       *)
(* _discard_generation, _activate_generation).                                     *)
THEOREM ReloadsCorrect == Spec => []ReloadsSound
<1>1. RuntimeInv => Runtime!RequestsOwned
  <2> SUFFICES ASSUME RuntimeInv PROVE Runtime!RequestsOwned
    OBVIOUS
  <2>1. ASSUME NEW r \in Runtime!Requests, ended[r] \in {"asked", "active"}
        PROVE  Runtime!Cardinality(Runtime!Places(r)) = 1
    <3>1. PICK place : Runtime!Places(r) = {place}
      BY <2>1, OnePlace
    <3>2. Cardinality({place}) = 1
      BY FS_Singleton
    <3>3. QED
      BY <3>1, <3>2 DEF Runtime!Cardinality, Cardinality
  <2>2. (pending # <<>> => Runtime!Working # {}) /\ (todo # <<>> => holder # NoThread)
    BY DEF RuntimeInv, Occupied
  <2>3. QED
    BY <2>1, <2>2 DEF Runtime!RequestsOwned
<1>2. RuntimeInv => Runtime!ResourcesLive
  <2> SUFFICES ASSUME RuntimeInv PROVE Runtime!ResourcesLive
    OBVIOUS
  <2>1. \A q \in Runtime!Resources : released[q] <= 1
    BY DEF RuntimeInv, Resourced
  <2>2. \A t \in Runtime!Working : stage[t] = runtimeCurrent.load /\ ~closed
    BY DEF RuntimeInv, Occupied
  <2>3. QED
    BY <2>1, <2>2 DEF RuntimeInv, Resourced, Runtime!ResourcesLive
<1>3. (service = "runtime" => RuntimeInv) => ReloadsSound
  BY <1>1, <1>2 DEF ReloadsSound
<1>4. QED
  BY <1>3, RuntimeInvariant, PTL

-----------------------------------------------------------------------------
(***************************************************************************)
(* The runtime implements ReloadService.                                     *)
(***************************************************************************)
Visible == <<Runtime!Working, generation, ended, closed>>

LEMMA OperationsKeepPromise ==
  ASSUME RuntimeInv, NEW t \in Threads,
         \/ Runtime!BeginOuter(t) \/ Runtime!BeginNested(t) \/ Runtime!FinishNested(t)
         \/ Runtime!FinishOuter(t) \/ Runtime!Fail(t)
  PROVE  Runtime!KeepsPromise
<1> USE DEF RuntimeInv
<1> DEFINE R == Runtime!Requests
<1>1. CASE Runtime!BeginOuter(t)
  <2>1. /\ t \notin Runtime!Working /\ ~closed /\ UNCHANGED <<leaving, ended, closed>>
        /\ frames' = [frames EXCEPT ![t] = << <<>> >>]
        /\ generation' = generation \/ (busy = 0 /\ generation' = generation + 1)
    BY <1>1 DEF Runtime!BeginOuter, Runtime!loadVars, Runtime!lifeVars, Runtime!requestVars,
      Runtime!Switch
  <2>2. Runtime!Working' = Runtime!Working \cup {t}
    <3>1. \A u \in Threads : frames'[u] = IF u = t THEN << <<>> >> ELSE frames[u]
      BY <2>1 DEF RuntimeTyped
    <3>2. << <<>> >> # <<>>
      OBVIOUS
    <3>3. QED
      BY <2>1, <3>1, <3>2 DEF Runtime!Working, Runtime!InOperation
  <2>3. Runtime!Promise!Start(t)
    BY <2>1, <2>2, BusyFacts DEF Runtime!Promise!Start
  <2>4. QED
    BY <2>3 DEF Runtime!KeepsPromise, Runtime!Promise!PromiseNext
<1>2. CASE Runtime!BeginNested(t) \/ Runtime!FinishNested(t) \/ Runtime!FinishOuter(t)
  <2>1. UNCHANGED <<generation, ended, closed>>
    BY <1>2 DEF Runtime!BeginNested, Runtime!FinishNested, Runtime!FinishOuter, Runtime!loadVars,
      Runtime!lifeVars, Runtime!requestVars
  <2>2. /\ frames[t] # <<>> /\ frames[t] \in Seq(Seq(R))
        /\ \A u \in Threads : u # t => frames'[u] = frames[u]
    <3>1. frames[t] \in Seq(Seq(R))
      BY DEF RuntimeTyped
    <3>2. frames[t] # <<>>
      <4>1. frames[t] # <<>> \/ Len(frames[t]) > 1 \/ Len(frames[t]) = 1
        BY <1>2 DEF Runtime!BeginNested, Runtime!FinishNested, Runtime!FinishOuter, Runtime!InOperation
      <4>2. Len(<<>>) = 0
        OBVIOUS
      <4>3. QED
        BY <4>1, <4>2
    <3>3. \A u \in Threads : u # t => frames'[u] = frames[u]
      BY <1>2 DEF Runtime!BeginNested, Runtime!FinishNested, Runtime!FinishOuter, RuntimeTyped
    <3>4. QED
      BY <3>1, <3>2, <3>3
  <2>3. \/ frames'[t] # <<>> /\ leaving' = leaving
        \/ frames'[t] = <<>> /\ leaving' = leaving \cup {t}
    <3>1. CASE Runtime!BeginNested(t)
      <4>1. frames'[t] = Append(frames[t], <<>>) /\ leaving' = leaving
        BY <3>1 DEF Runtime!BeginNested, RuntimeTyped
      <4>2. Len(Append(frames[t], <<>>)) = Len(frames[t]) + 1 /\ Len(frames[t]) \in Nat
        BY <2>2
      <4>3. Append(frames[t], <<>>) # <<>>
        BY <4>2, EmptySeq
      <4>4. QED
        BY <4>1, <4>3
    <3>2. CASE Runtime!FinishNested(t)
      <4> DEFINE outer == Runtime!Front(frames[t])
                 fs == [outer EXCEPT ![Len(outer)] = @ \o Runtime!Last(frames[t])]
      <4>1. frames'[t] = fs /\ leaving' = leaving /\ Len(frames[t]) > 1
        BY <3>2 DEF Runtime!FinishNested, RuntimeTyped
      <4>2. fs \in Seq(Seq(R)) /\ Len(fs) = Len(frames[t]) - 1
        BY <2>2, <4>1, StackMerge DEF Apart
      <4> HIDE DEF fs
      <4>3. fs # <<>>
        <5> DEFINE n == Len(frames[t])
                   m == Len(fs)
        <5>1. n \in Nat /\ n > 1 /\ m = n - 1
          BY <2>2, <4>1, <4>2
        <5> HIDE DEF n, m
        <5>2. m # 0
          BY <5>1
        <5>3. QED
          BY <4>2, <5>2, EmptySeq DEF m
      <4>4. QED
        BY <4>1, <4>3
    <3>3. CASE Runtime!FinishOuter(t)
      BY <3>3 DEF Runtime!FinishOuter, RuntimeTyped
    <3>4. QED
      BY <1>2, <3>1, <3>2, <3>3
  <2>4. Runtime!Working' = Runtime!Working
    BY <2>2, <2>3 DEF Runtime!Working, Runtime!InOperation
  <2>5. QED
    BY <2>1, <2>4 DEF Runtime!KeepsPromise
<1>3. CASE Runtime!Fail(t)
  <2> DEFINE rs == Elements(Runtime!Last(frames[t]))
             outer == Runtime!Front(frames[t])
  <2>1. /\ frames[t] # <<>>
        /\ ended' = [r \in R |-> IF r \in Runtime!Range(Runtime!Last(frames[t])) THEN "rollback" ELSE ended[r]]
        /\ frames' = [frames EXCEPT ![t] = outer]
        /\ leaving' = IF Len(frames[t]) = 1 THEN leaving \cup {t} ELSE leaving
        /\ UNCHANGED <<closed, generation>>
    BY <1>3 DEF Runtime!Fail, Runtime!InOperation, Runtime!Rollback, Runtime!lifeVars, Runtime!loadVars
  <2>2. frames[t] \in Seq(Seq(R)) /\ Stacked(frames[t])
    BY DEF RuntimeTyped, Apart
  <2>3. /\ outer \in Seq(Seq(R)) /\ Runtime!Last(frames[t]) \in Seq(R)
        /\ rs \subseteq Framed(t) /\ Len(outer) = Len(frames[t]) - 1
    BY <2>1, <2>2, StackPop DEF Framed
  <2>4. rs \subseteq R /\ ended' = [r \in R |-> IF r \in rs THEN "rollback" ELSE ended[r]]
    BY <2>1, <2>3, RangeElements
  <2> HIDE DEF rs, outer
  <2>5. /\ \A u \in Threads : frames'[u] = IF u = t THEN outer ELSE frames[u]
        /\ outer = <<>> <=> Len(frames[t]) = 1
    <3>1. \A u \in Threads : frames'[u] = IF u = t THEN outer ELSE frames[u]
      BY <2>1 DEF RuntimeTyped
    <3>2. outer = <<>> <=> Len(outer) = 0
      BY <2>3, EmptySeq
    <3>3. QED
      BY <2>2, <2>3, <3>1, <3>2
  <2>6. Runtime!Working' = Runtime!Working
    BY <2>1, <2>5 DEF Runtime!Working, Runtime!InOperation
  <2>7. CASE rs = {}
    <3>1. ended' = ended
      BY <2>4, <2>7 DEF RuntimeTyped
    <3>2. QED
      BY <2>1, <2>6, <3>1 DEF Runtime!KeepsPromise
  <2>8. CASE rs # {}
    <3>1. \A r \in rs : ended[r] = "asked"
      BY <2>3 DEF Followed
    <3>2. Runtime!Promise!Reject(rs)
      BY <2>1, <2>4, <2>6, <2>8, <3>1 DEF Runtime!Promise!Reject, Runtime!Promise!Asked
    <3>3. rs \in SUBSET R
      BY <2>4
    <3>4. QED
      BY <3>2, <3>3 DEF Runtime!KeepsPromise, Runtime!Promise!PromiseNext
  <2>9. QED
    BY <2>7, <2>8
<1>4. QED
  BY <1>1, <1>2, <1>3

\* Nobody is at work but, perhaps, the one who closes: all that is asked for waits in
\* the queue.
LEMMA ShutsDown ==
  ASSUME RuntimeInv, holder = NoThread, ~closed, Runtime!CloseNow, Runtime!Working' = {},
         \A t \in Threads : frames[t] = <<>>, NEW t \in Threads, Runtime!Working \subseteq {t}
  PROVE  Runtime!Promise!Shutdown
<1> USE DEF RuntimeInv
<1> DEFINE R == Runtime!Requests
<1>1. /\ closed' = TRUE /\ generation' = generation
      /\ ended' = [r \in R |-> IF r \in Runtime!Range(pending) THEN "rollback" ELSE ended[r]]
  BY DEF Runtime!CloseNow, Runtime!Rollback
<1>2. Runtime!Range(pending) = Queued
  <2>1. pending \in Seq(R)
    BY DEF RuntimeTyped
  <2>2. QED
    BY <2>1, RangeElements DEF Queued
<1>3. Taken = {} /\ \A u \in Threads : Framed(u) = {}
  BY DistinctOne, StackNew DEF Occupied, Taken, Framed
<1>4. \A r \in R : r \in Queued <=> ended[r] = "asked"
  BY <1>3 DEF Followed
<1>5. ended' = [r \in R |-> IF ended[r] = "asked" THEN "rollback" ELSE ended[r]]
  BY <1>1, <1>2, <1>4
<1>6. QED
  BY <1>1, <1>5 DEF Runtime!Promise!Shutdown

LEMMA LeavingKeepsPromise ==
  ASSUME RuntimeInv, NEW t \in Threads, Runtime!Release(t) \/ Runtime!Close(t)
  PROVE  Runtime!KeepsPromise
<1> USE DEF RuntimeInv
<1>1. CASE Runtime!Release(t)
  <2>1. /\ holder = NoThread /\ t \in leaving
        /\ leaving' = leaving \ {t} /\ busy' = busy - 1 /\ frames' = frames
        /\ (Runtime!CloseNow /\ busy' = 0) \/ UNCHANGED <<closed, generation, ended>>
    BY <1>1 DEF Runtime!Release, Runtime!Unlocked, Runtime!loadVars, Runtime!requestVars
  <2>2. frames[t] = <<>> /\ t \in Runtime!Working /\ ~closed
    BY <2>1 DEF Occupied, Runtime!Working
  <2>3. Runtime!Working' = Runtime!Working \ {t}
    BY <2>1, <2>2 DEF Runtime!Working, Runtime!InOperation
  <2>4. CASE UNCHANGED <<closed, generation, ended>>
    <3>1. Runtime!Promise!Leave(t)
      BY <2>2, <2>3, <2>4 DEF Runtime!Promise!Leave
    <3>2. QED
      BY <3>1 DEF Runtime!KeepsPromise, Runtime!Promise!PromiseNext
  <2>5. CASE Runtime!CloseNow /\ busy' = 0
    <3>1. Runtime!Working' = {}
      <4>1. Runtime!Working \subseteq Threads
        BY DEF Runtime!Working
      <4>2. IsFiniteSet(Runtime!Working \ {t})
        BY <4>1, RuntimeConstants, FS_Subset
      <4>3. Cardinality(Runtime!Working \ {t}) = 0
        BY <2>1, <2>2, <2>5, BusyFacts
      <4>4. QED
        BY <2>3, <4>2, <4>3, FS_EmptySet
    <3>2. Runtime!Working \subseteq {t}
      BY <2>3, <3>1
    <3>3. \A u \in Threads : frames[u] = <<>>
      BY <2>2, <3>2 DEF Runtime!Working, Runtime!InOperation
    <3>4. Runtime!Promise!Shutdown
      BY <2>1, <2>2, <2>5, <3>1, <3>2, <3>3, ShutsDown
    <3>5. QED
      BY <3>4 DEF Runtime!KeepsPromise, Runtime!Promise!PromiseNext
  <2>6. QED
    BY <2>1, <2>4, <2>5
<1>2. CASE Runtime!Close(t)
  <2>1. /\ ~closed /\ holder = NoThread /\ UNCHANGED <<frames, leaving>>
        /\ IF busy > 0 THEN UNCHANGED <<closed, generation, ended>> ELSE Runtime!CloseNow
    BY <1>2 DEF Runtime!Close, Runtime!Unlocked, Runtime!opVars, Runtime!requestVars, Runtime!loadVars
  <2>2. Runtime!Working' = Runtime!Working
    BY <2>1 DEF Runtime!Working, Runtime!InOperation
  <2>3. CASE busy > 0
    BY <2>1, <2>2, <2>3 DEF Runtime!KeepsPromise
  <2>4. CASE ~(busy > 0)
    <3>1. Runtime!Working = {}
      BY <2>4, BusyFacts
    <3>2. \A u \in Threads : frames[u] = <<>>
      BY <3>1 DEF Runtime!Working, Runtime!InOperation
    <3>3. Runtime!CloseNow
      BY <2>1, <2>4
    <3>4. Runtime!Promise!Shutdown
      BY <2>1, <2>2, <3>1, <3>2, <3>3, ShutsDown
    <3>5. QED
      BY <3>4 DEF Runtime!KeepsPromise, Runtime!Promise!PromiseNext
  <2>5. QED
    BY <2>3, <2>4
<1>3. QED
  BY <1>1, <1>2

LEMMA RequestKeepsPromise ==
  ASSUME RuntimeInv, NEW t \in Threads, NEW r \in Runtime!Requests, NEW c \in Runtime!Changes,
         Runtime!Request(t, r, c)
  PROVE  Runtime!KeepsPromise
<1>1. /\ ended[r] = "none" /\ ended' = [ended EXCEPT ![r] = "asked"]
      /\ UNCHANGED <<leaving, closed, generation>>
      /\ frames' = frames \/ (frames[t] # <<>> /\ frames' = [frames EXCEPT ![t] = Runtime!AskedInside(frames[t], r)])
  BY DEF Runtime!Request, Runtime!InOperation, Runtime!lifeVars, Runtime!loadVars
<1>2. Runtime!Working' = Runtime!Working
  <2>1. CASE frames' = frames
    BY <1>1, <2>1 DEF Runtime!Working, Runtime!InOperation
  <2>2. CASE frames[t] # <<>> /\ frames' = [frames EXCEPT ![t] = Runtime!AskedInside(frames[t], r)]
    <3>1. frames \in [Threads -> Seq(Seq(Runtime!Requests))]
      BY DEF RuntimeInv, RuntimeTyped
    <3> DEFINE fs == Runtime!AskedInside(frames[t], r)
    <3>2. frames[t] \in Seq(Seq(Runtime!Requests)) /\ Len(frames[t]) \in Nat \ {0}
      BY <2>2, <3>1, EmptySeq
    <3>3. DOMAIN fs = 1..Len(frames[t])
      BY <3>2 DEF Runtime!AskedInside
    <3>4. fs # <<>>
      BY <3>2, <3>3
    <3> HIDE DEF fs
    <3>5. \A u \in Threads : frames'[u] = IF u = t THEN fs ELSE frames[u]
      BY <2>2, <3>1 DEF fs
    <3>6. QED
      BY <1>1, <2>2, <3>4, <3>5 DEF Runtime!Working, Runtime!InOperation
  <2>3. QED
    BY <1>1, <2>1, <2>2
<1>3. Runtime!Promise!Ask(r)
  BY <1>1, <1>2 DEF Runtime!Promise!Ask
<1>4. QED
  BY <1>3 DEF Runtime!KeepsPromise, Runtime!Promise!PromiseNext

LEMMA HolderKeepsPromise ==
  ASSUME RuntimeInv,
         \/ Runtime!ApplyRejected \/ Runtime!ApplyActivated \/ Runtime!Commit
         \/ Runtime!AnnounceRaises \/ Runtime!Report \/ Runtime!ReportRaises
  PROVE  Runtime!KeepsPromise
<1> DEFINE R == Runtime!Requests
           h == Head(todo)
<1>1. holder # NoThread /\ UNCHANGED <<frames, leaving, closed>>
  BY DEF Runtime!ApplyRejected, Runtime!ApplyActivated, Runtime!Commit, Runtime!AnnounceRaises,
    Runtime!Report, Runtime!ReportRaises, Runtime!Applying, Runtime!opVars, Runtime!lifeVars
<1>2. /\ Runtime!Working = {} /\ h \in R /\ ended[h] \in HeadEnds
      /\ todo \in Seq(R) /\ todo # <<>> /\ Distinct(todo)
      /\ \A r \in Taken : r # h => ended[r] = "asked"
  BY <1>1, HolderAlone
<1>3. Runtime!Working' = Runtime!Working
  BY <1>1 DEF Runtime!Working, Runtime!InOperation
<1>4. ended \in [R -> RequestEnds] /\ Taken \subseteq R
  BY SetsTyped DEF RuntimeInv, RuntimeTyped
<1>5. /\ runtimePhase = "apply" => ended[h] = "asked"
      /\ runtimePhase = "announce" => ended[h] = "active"
  BY <1>2 DEF HeadEnds
<1> HIDE DEF h
<1>6. CASE Runtime!ApplyRejected
  <2>1. /\ runtimePhase = "apply" /\ generation' = generation
        /\ ended' = [r \in R |-> IF r \in {h} THEN "rollback" ELSE ended[r]]
    BY <1>6 DEF Runtime!ApplyRejected, Runtime!Applying, Runtime!Rejected, Runtime!NotStaged,
      Runtime!LoadFails, Runtime!RestoreFails, Runtime!loadVars, Runtime!Rollback, h
  <2>2. Runtime!Promise!Reject({h})
    BY <1>1, <1>3, <1>5, <2>1 DEF Runtime!Promise!Reject, Runtime!Promise!Asked
  <2>3. {h} \in SUBSET R
    BY <1>2
  <2>4. QED
    BY <2>2, <2>3 DEF Runtime!KeepsPromise, Runtime!Promise!PromiseNext
<1>7. CASE Runtime!ApplyActivated
  <2>1. /\ runtimePhase = "apply" /\ ~closed /\ generation' = generation + 1
        /\ ended' = [ended EXCEPT ![h] = "active"]
    BY <1>7 DEF Runtime!ApplyActivated, Runtime!Applying, Runtime!Switch, h
  <2>2. Runtime!Promise!Activate(h)
    BY <1>1, <1>2, <1>3, <1>5, <2>1 DEF Runtime!Promise!Activate
  <2>3. QED
    BY <1>2, <2>2 DEF Runtime!KeepsPromise, Runtime!Promise!PromiseNext
<1>8. CASE Runtime!Commit
  <2>1. runtimePhase = "announce" /\ generation' = generation /\ ended' = [ended EXCEPT ![h] = "commit"]
    BY <1>8 DEF Runtime!Commit, Runtime!Applying, Runtime!loadVars, h
  <2>2. Runtime!Promise!Commit(h)
    BY <1>1, <1>3, <1>5, <2>1 DEF Runtime!Promise!Commit
  <2>3. QED
    BY <1>2, <2>2 DEF Runtime!KeepsPromise, Runtime!Promise!PromiseNext
<1>9. CASE Runtime!AnnounceRaises
  <2>1. runtimePhase = "announce" /\ generation' = generation /\ ended' = [ended EXCEPT ![h] = "dropped"]
    BY <1>9 DEF Runtime!AnnounceRaises, Runtime!Applying, Runtime!loadVars, h
  <2>2. ended' = [r \in R |-> IF r \in {h} THEN "dropped" ELSE ended[r]]
    BY <1>4, <2>1
  <2>3. Runtime!Promise!Drop({h})
    BY <1>1, <1>2, <1>3, <1>5, <2>1, <2>2 DEF Runtime!Promise!Drop
  <2>4. {h} \in SUBSET R
    BY <1>2
  <2>5. QED
    BY <2>3, <2>4 DEF Runtime!KeepsPromise, Runtime!Promise!PromiseNext
<1>10. CASE Runtime!Report
  BY <1>1, <1>3, <1>10 DEF Runtime!Report, Runtime!requestVars, Runtime!loadVars, Runtime!KeepsPromise
<1>11. CASE Runtime!ReportRaises
  <2> DEFINE rs == Taken \ {h}
  <2>1. Runtime!Range(Tail(todo)) = rs
    <3>1. Tail(todo) \in Seq(R) /\ Elements(Tail(todo)) = rs
      BY <1>2, DistinctTail DEF Taken, h
    <3>2. QED
      BY <3>1, RangeElements
  <2>2. /\ generation' = generation
        /\ ended' = [r \in R |-> IF r \in rs THEN "dropped" ELSE ended[r]]
    BY <1>11, <2>1 DEF Runtime!ReportRaises, Runtime!loadVars
  <2>3. rs \in SUBSET R /\ \A r \in rs : ended[r] = "asked"
    BY <1>2, <1>4
  <2> HIDE DEF rs
  <2>4. CASE rs = {}
    <3>1. ended' = ended
      BY <1>4, <2>2, <2>4
    <3>2. QED
      BY <1>1, <1>3, <2>2, <3>1 DEF Runtime!KeepsPromise
  <2>5. CASE rs # {}
    <3>1. Runtime!Promise!Drop(rs)
      BY <1>1, <1>2, <1>3, <2>2, <2>3, <2>5 DEF Runtime!Promise!Drop
    <3>2. QED
      BY <2>3, <3>1 DEF Runtime!KeepsPromise, Runtime!Promise!PromiseNext
  <2>6. QED
    BY <2>4, <2>5
<1>12. QED
  BY <1>6, <1>7, <1>8, <1>9, <1>10, <1>11

LEMMA RuntimeKeepsPromise == RuntimeInv /\ Runtime!Next => Runtime!KeepsPromise
<1> SUFFICES ASSUME RuntimeInv, Runtime!Next PROVE Runtime!KeepsPromise
  OBVIOUS
<1>1. CASE Runtime!Refresh
  <2>1. /\ busy = 0 /\ ~closed /\ UNCHANGED <<frames, leaving, ended, closed>>
        /\ generation' = generation \/ generation' = generation + 1
    BY <1>1 DEF Runtime!Refresh, Runtime!Switch, Runtime!LoadFails, Runtime!RestoreFails,
      Runtime!opVars, Runtime!lifeVars, Runtime!requestVars
  <2>2. Runtime!Working' = Runtime!Working /\ Runtime!Working = {}
    BY <2>1, BusyFacts DEF RuntimeInv, Runtime!Working, Runtime!InOperation
  <2>3. generation' = generation \/ Runtime!Promise!Refresh
    BY <2>1, <2>2 DEF Runtime!Promise!Refresh
  <2>4. QED
    BY <2>1, <2>2, <2>3 DEF Runtime!KeepsPromise, Runtime!Promise!PromiseNext
<1>2. QED
  BY <1>1, OperationsKeepPromise, LeavingKeepsPromise, RequestKeepsPromise, HolderKeepsPromise
  DEF Runtime!Next

(* The runtime implements ReloadService: an operation runs in one generation, an    *)
(* update is activated while none runs and ends once, by its commit or rollback,     *)
(* and nothing is activated after close() (raychat/plugins.py class Runtime).       *)
THEOREM RuntimeRefines == Spec => ImplementsReloadService
<1>1. Init => (service = "runtime" => Runtime!Promise!PromiseInit)
  <2>1. Runtime!Init => Runtime!Working = {}
    BY DEF Runtime!Init, Runtime!Working, Runtime!InOperation
  <2>2. Runtime!Init => Runtime!Promise!PromiseInit
    BY <2>1 DEF Runtime!Init, Runtime!Promise!PromiseInit
  <2>3. QED
    BY <2>2 DEF Init
<1>2. (service = "runtime" => RuntimeInv) /\ [Next]_vars
        => [service = "runtime" => Runtime!KeepsPromise]_runtimeVars
  BY RuntimeKeepsPromise DEF Next, Only, vars
<1>3. QED
  BY <1>1, <1>2, RuntimeInvariant, PTL DEF Spec, ImplementsReloadService
=============================================================================
