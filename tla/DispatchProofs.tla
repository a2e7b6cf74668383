--------------------------- MODULE DispatchProofs ---------------------------
(***************************************************************************)
(* What the proof system shows of the dispatch protocol, for any number of *)
(* prompts, results, cores, updates, resumes, claims and failing writes:   *)
(* interrupted work is not replayed, and an update loses no prompt.        *)
(***************************************************************************)
EXTENDS MCInterface, Integers, Sequences, FiniteSets, FiniteSetTheorems, SequenceTheorems, TLAPS

StateKinds == {"checkpoint", "handoff", "dispatch"}
Opening    == {"activate", "continue"}

Letters == Dispatch!Mail(Dispatch!ToSupKinds)          \* what the core sends
Orders  == Dispatch!Mail(Dispatch!ToCoreKinds)         \* what the supervisor sends

\* Letters and orders whose place in a stream matters.
Intents   == {m \in Letters : m.kind = "dispatch"}
Claims(t) == {m \in Letters : m.kind = "claim" /\ m.token = t}
Handoffs  == {m \in Letters : m.kind = "handoff"}
Receipts  == {m \in Orders : m.kind = "dispatch_ack"}

Asks == [kind : {"free", "prompt", "review"}, item : Nat, queued : Seq(Dispatch!Prompts),
         acked : BOOLEAN]
Jobs == [kind : {"none", "prompt", "review"}, item : Nat,
         stage : {"none", "started", "claiming", "calling"}, token : 0..MaxClaims]
Manifests == [queue : Seq(Dispatch!Prompts), results : SUBSET Dispatch!Results, claimed : SUBSET Dispatch!Results]

SupTyped ==
    /\ last \in Seq(Dispatch!Prompts) /\ results \subseteq Dispatch!Results
       /\ claimed \subseteq Dispatch!Results
    /\ transition \in Dispatch!Transitions /\ captured \in BOOLEAN /\ manifest \in Manifests
CoreTyped ==
    /\ core \in Nat /\ queue \in Seq(Dispatch!Prompts) /\ inbox \subseteq Dispatch!Results
    /\ alive \in BOOLEAN /\ active \in BOOLEAN /\ draining \in BOOLEAN
    /\ frozen \in BOOLEAN /\ handoffSaved \in BOOLEAN
    /\ ui \in Asks /\ job \in Jobs
MailTyped == toCore \in Seq(Orders) /\ toSup \in Seq(Letters)
CountTyped ==
    /\ typed \in 0..MaxPrompts /\ made \in 0..MaxResults /\ claims \in 0..MaxClaims
    /\ ran \in [Dispatch!Prompts -> Nat] /\ callers \in [Dispatch!Results -> SUBSET Nat]
    /\ granted \in BOOLEAN /\ lost \in BOOLEAN
Typed == SupTyped /\ CoreTyped /\ MailTyped /\ CountTyped

(* What a stream has in it, and in which order.                            *)

Has(s, K) == \E m \in Dispatch!Elements(s) : m.kind \in K

\* No message of a kind in K comes behind one of X.
NoneAfter(s, X, K) ==
    \A i, j \in 1..Len(s) : i < j /\ s[i] \in X => s[j].kind \notin K

\* After the last order to drain nothing lets the core go on, now that it is
\* draining or not (d).
DrainLast(s, d) ==
    \/ d /\ ~Has(s, Opening)
    \/ \E k \in 1..Len(s) : /\ s[k].kind = "drain"
                            /\ \A j \in 1..Len(s) : j > k => s[j].kind \notin Opening

\* An acknowledgement does not come before that order.
DrainFirst(s) ==
    \E k \in 1..Len(s) :
        /\ s[k].kind = "drain"
        /\ \A j \in 1..Len(s) : /\ j > k => s[j].kind \notin Opening
                                /\ j < k => s[j].kind # "dispatch_ack"

\* A capture reaches a core that is draining.
CapturesDrained(s, d) ==
    \A i \in 1..Len(s) : s[i].kind = "capture" =>
        \/ d /\ \A j \in 1..Len(s) : j < i => s[j].kind \notin Opening
        \/ \E k \in 1..Len(s) :
              /\ k < i /\ s[k].kind = "drain"
              /\ \A j \in 1..Len(s) : k < j /\ j < i => s[j].kind \notin Opening

\* One capture, and nothing behind it that lets the core go on.
OneCapture(s) ==
    \E k \in 1..Len(s) :
        /\ s[k].kind = "capture"
        /\ \A j \in 1..Len(s) : /\ j < k => s[j].kind # "capture"
                                /\ j > k => s[j].kind \notin Opening \cup {"capture"}

-----------------------------------------------------------------------------
(* Prompts.                                                                *)

\* A queue in which every prompt was entered, is found once and has not run.
CleanIn(q, t, r) ==
    \A i \in 1..Len(q) :
        /\ q[i] <= t /\ r[q[i]] = 0
        /\ \A j \in 1..Len(q) : q[j] = q[i] => j = i
Clean(q) == CleanIn(q, typed, ran)

Within(p, q) == \E i \in 1..Len(q) : q[i] = p

Queues ==
    /\ Clean(queue) /\ Clean(last) /\ Clean(manifest.queue) /\ Clean(ui.queued)
    /\ \A m \in Dispatch!Elements(toSup) :
          Clean(m.queue) /\ (m.kind \notin StateKinds => m.queue = <<>>)

\* A prompt in hand is in no queue.
InHand ==
    /\ ui.kind = "free" => ui = Dispatch!NoUi
    /\ ui.kind = "prompt" =>
          /\ ui.item \in 1..typed /\ ran[ui.item] = 0 /\ ~Within(ui.item, queue)

\* Once its intent has been acknowledged, nothing on the way to the supervisor
\* and nothing it has recorded holds the prompt.
Settled ==
    /\ ~Has(toSup, StateKinds)
    /\ ui.kind = "prompt" => ~Within(ui.item, last) /\ ~Within(ui.item, manifest.queue)

\* The frontend waits for one acknowledgement at a time: its intent is on the
\* way, with no state behind it, or the answer is.
IntentTravels ==
    /\ Has(toSup, {"dispatch"}) =>
          ui.kind # "free" /\ ~ui.acked /\ ~Has(toCore, {"dispatch_ack"})
    /\ \A m \in Dispatch!Elements(toSup) :
          m.kind = "dispatch" /\ ui.kind = "prompt" => ~Within(ui.item, m.queue)
    /\ NoneAfter(toSup, Intents, StateKinds)
AckTravels ==
    /\ Has(toCore, {"dispatch_ack"}) => ui.kind # "free" /\ ~ui.acked /\ Settled
    /\ NoneAfter(toCore, Receipts, {"dispatch_ack"})
    /\ ui.acked => ui.kind # "free" /\ Settled

Runs == \A p \in Dispatch!Prompts : ran[p] <= 1 /\ (p > typed => ran[p] = 0)

PromptInv == Queues /\ InHand /\ IntentTravels /\ AckTravels /\ Runs

-----------------------------------------------------------------------------
(* Results.                                                                *)

Items ==
    /\ ui.kind = "review" => ui.item \in Dispatch!Results
    /\ job.kind = "review" => job.item \in Dispatch!Results
    /\ job.stage \in {"claiming", "calling"} => job.kind = "review"
    /\ \A m \in Dispatch!Elements(toSup) : m.kind \in {"claim", "finished"} => m.item \in Dispatch!Results
    /\ \A m \in Dispatch!Elements(toCore) :
          /\ m.kind = "update_result" => m.item \in Dispatch!Results
          /\ m.kind = "claim_ack" => m.item \in Dispatch!Results \cup {0}

\* What is on disk is pending in memory, and claimed if and only if it is.
Records ==
    /\ manifest.results \subseteq results /\ manifest.claimed = claimed
    /\ results \cap claimed = {}
    /\ \A r \in results \cup claimed : r <= made

\* Where the core has a result: it was delivered to it, or it asks for it.
Mentioned(r) ==
    \/ r \in inbox
    \/ ui.kind = "review" /\ ui.item = r
    \/ job.kind = "review" /\ job.item = r
    \/ \E m \in Dispatch!Elements(toSup) : m.kind \in {"claim", "finished"} /\ m.item = r
    \/ \E m \in Dispatch!Elements(toCore) : m.kind \in {"update_result", "claim_ack"} /\ m.item = r

\* A result that is not pending any more is in no core but the one that has
\* claimed it.
Delivered ==
    \A r \in Dispatch!Results :
        /\ Mentioned(r) => r <= made /\ (r \in results \/ callers[r] \subseteq {core})
        /\ r \in results \/ r > made => callers[r] = {}
        /\ \E c \in 0..core : callers[r] \subseteq {c}

\* A claim that may still be accepted is that of the job in hand, with no end of
\* a review behind it; once accepted it stays claimed.
Held(r) == r \in claimed /\ ~Has(toSup, {"finished"})

ClaimTravels ==
    /\ \A m \in Dispatch!Elements(toSup) : m.kind = "claim" =>
          /\ m.token \in 1..claims
          /\ job.stage = "claiming" /\ m.token = job.token => m.item = job.item
    /\ job.stage = "claiming" => NoneAfter(toSup, Claims(job.token), {"finished"})
ReceiptTravels ==
    \A m \in Dispatch!Elements(toCore) : m.kind = "claim_ack" =>
        /\ m.token \in 1..claims
        /\ job.stage = "claiming" /\ m.token = job.token /\ m.item # 0 =>
              m.item = job.item /\ Held(job.item)
Calling == job.stage = "calling" => Held(job.item)

ResultInv ==
    Items /\ Records /\ Delivered /\ ClaimTravels /\ ReceiptTravels /\ Calling
    /\ job.token <= claims

-----------------------------------------------------------------------------
(* Recoveries and updates.                                                 *)

\* A recovered core that has not been told to continue is draining, or will
\* be before an acknowledgement can reach it.
RecoveryInv ==
    ~granted =>
        /\ job = Dispatch!NoJob
        /\ (draining /\ ~Has(toCore, Opening)) \/ (~ui.acked /\ DrainFirst(toCore))

Covers(q) == \A p \in 1..typed : ran[p] > 0 \/ Within(p, q)

\* What is queued and what would be put back differ in the prompt in hand.
Kept ==
    /\ \A p \in 1..typed : ran[p] > 0 \/ Within(p, queue) \/ Within(p, ui.queued)
    /\ ui.kind # "free" =>
          \A p \in 1..typed :
              /\ Within(p, queue) => Within(p, ui.queued)
              /\ Within(p, ui.queued) =>
                    Within(p, queue) \/ (ui.kind = "prompt" /\ ui.item = p)

CaptureDrained == (frozen => draining) /\ CapturesDrained(toCore, draining)

\* When the old core is drained no answer to an earlier capture can come.
Unanswering == ~Has(toSup, {"handoff"}) /\ (frozen => handoffSaved)
Drained ==
    transition = "draining" =>
        ~captured /\ ~Has(toCore, {"capture"}) /\ Unanswering /\ DrainLast(toCore, draining)

\* From the capture on the core is frozen: its handoff, and then the state of
\* the supervisor, cover all that was entered.
Still == frozen /\ ~Has(toCore, Opening \cup {"capture"})
HandoffComes ==
    /\ \A m \in Dispatch!Elements(toSup) : m.kind = "handoff" => handoffSaved /\ Covers(m.queue)
    /\ NoneAfter(toSup, Handoffs, StateKinds)
Capturing ==
    transition = "capturing" /\ ~captured =>
        (OneCapture(toCore) /\ Unanswering) \/ (Still /\ HandoffComes)
Capture ==
    (transition = "capturing" /\ captured) \/ transition = "activating" =>
        Still /\ handoffSaved /\ Covers(last) /\ ~Has(toSup, StateKinds)

UpdateInv == ~lost => alive /\ Kept /\ CaptureDrained /\ Drained /\ Capturing /\ Capture

DispatchInv == Typed /\ PromptInv /\ ResultInv /\ RecoveryInv /\ UpdateInv

-----------------------------------------------------------------------------
(* Streams: what a message appended or read changes.                       *)

LEMMA StreamFacts == ASSUME NEW S, NEW s \in Seq(S)
               PROVE  /\ Len(s) \in Nat /\ DOMAIN s = 1..Len(s)
                      /\ \A i \in 1..Len(s) : s[i] \in S
                      /\ Dispatch!Elements(s) \subseteq S
                      /\ \A m : m \in Dispatch!Elements(s) <=> \E i \in 1..Len(s) : s[i] = m
<1>1. Len(s) \in Nat /\ DOMAIN s = 1..Len(s) /\ \A i \in 1..Len(s) : s[i] \in S
  OBVIOUS
<1>2. QED
  BY <1>1 DEF Dispatch!Elements

LEMMA HasNone == ASSUME NEW S, NEW s \in Seq(S), NEW K
                 PROVE  ~Has(s, K) <=> \A i \in 1..Len(s) : s[i].kind \notin K
<1>1. ASSUME ~Has(s, K), NEW i \in 1..Len(s) PROVE s[i].kind \notin K
  BY <1>1, StreamFacts DEF Has
<1>2. ASSUME \A i \in 1..Len(s) : s[i].kind \notin K, NEW m \in Dispatch!Elements(s)
      PROVE  m.kind \notin K
  <2>1. PICK i \in 1..Len(s) : s[i] = m
    BY StreamFacts
  <2>2. QED
    BY <1>2, <2>1
<1>3. QED
  BY <1>1, <1>2 DEF Has

LEMMA EmptyStream ==
  /\ Dispatch!Elements(<<>>) = {}
  /\ \A X, K : NoneAfter(<<>>, X, K)
BY DEF Dispatch!Elements, NoneAfter

LEMMA OneElement == ASSUME NEW m
                    PROVE  /\ Dispatch!Elements(<<m>>) = {m} /\ Len(<<m>>) = 1 /\ <<m>>[1] = m
                           /\ \A S : m \in S => <<m>> \in Seq(S)
BY DEF Dispatch!Elements

\* A stream s grows by u.
LEMMA Joined ==
  ASSUME NEW S, NEW s \in Seq(S), NEW u \in Seq(S)
  PROVE  /\ s \o u \in Seq(S) /\ Len(s \o u) = Len(s) + Len(u)
         /\ \A i \in 1..Len(s) : (s \o u)[i] = s[i] /\ i \in 1..Len(s \o u)
         /\ \A i \in 1..Len(u) : /\ (s \o u)[Len(s) + i] = u[i]
                                 /\ Len(s) + i \in 1..Len(s \o u)
         /\ \A i \in 1..Len(s \o u) : i \in 1..Len(s) \/ i - Len(s) \in 1..Len(u)
         /\ \A i \in 1..Len(s \o u) : i \notin 1..Len(s) => (s \o u)[i] = u[i - Len(s)]
         /\ Dispatch!Elements(s \o u) = Dispatch!Elements(s) \cup Dispatch!Elements(u)
<1>1. /\ s \o u \in Seq(S) /\ Len(s \o u) = Len(s) + Len(u)
      /\ Len(s) \in Nat /\ Len(u) \in Nat
  OBVIOUS
<1>2. \A i \in 1..Len(s \o u) : (s \o u)[i] = IF i <= Len(s) THEN s[i] ELSE u[i - Len(s)]
  OBVIOUS
<1>3. /\ \A i \in 1..Len(s) : i \in 1..Len(s \o u)
      /\ \A i \in 1..Len(u) : Len(s) + i \in 1..Len(s \o u)
      /\ \A i \in 1..Len(s \o u) : i \in 1..Len(s) \/ i - Len(s) \in 1..Len(u)
  BY <1>1
<1>4. /\ \A i \in 1..Len(s) : (s \o u)[i] = s[i]
      /\ \A i \in 1..Len(u) : (s \o u)[Len(s) + i] = u[i]
      /\ \A i \in 1..Len(s \o u) : i \notin 1..Len(s) => (s \o u)[i] = u[i - Len(s)]
  <2>1. ASSUME NEW i \in 1..Len(s) PROVE (s \o u)[i] = s[i]
    BY <1>1, <1>2, <1>3
  <2>2. ASSUME NEW i \in 1..Len(u) PROVE (s \o u)[Len(s) + i] = u[i]
    <3>1. Len(s) + i \in 1..Len(s \o u) /\ ~(Len(s) + i <= Len(s)) /\ Len(s) + i - Len(s) = i
      BY <1>1, <1>3
    <3>2. QED
      BY <1>2, <3>1
  <2>3. ASSUME NEW i \in 1..Len(s \o u), i \notin 1..Len(s) PROVE (s \o u)[i] = u[i - Len(s)]
    BY <1>1, <1>2, <2>3
  <2>4. QED
    BY <2>1, <2>2, <2>3
<1>5. \A m : m \in Dispatch!Elements(s \o u) => m \in Dispatch!Elements(s) \/ m \in Dispatch!Elements(u)
  <2> SUFFICES ASSUME NEW m, m \in Dispatch!Elements(s \o u)
               PROVE  m \in Dispatch!Elements(s) \/ m \in Dispatch!Elements(u)
    OBVIOUS
  <2>1. PICK i \in 1..Len(s \o u) : (s \o u)[i] = m
    BY <1>1, StreamFacts
  <2>2. CASE i \in 1..Len(s)
    BY <1>4, <2>1, <2>2, StreamFacts
  <2>3. CASE i \notin 1..Len(s)
    BY <1>3, <1>4, <2>1, <2>3, StreamFacts
  <2>4. QED
    BY <2>2, <2>3
<1>6. \A m : m \in Dispatch!Elements(s) \/ m \in Dispatch!Elements(u) => m \in Dispatch!Elements(s \o u)
  <2>1. ASSUME NEW i \in 1..Len(s) PROVE s[i] \in Dispatch!Elements(s \o u)
    BY <1>1, <1>3, <1>4, StreamFacts
  <2>2. ASSUME NEW i \in 1..Len(u) PROVE u[i] \in Dispatch!Elements(s \o u)
    BY <1>1, <1>3, <1>4, StreamFacts
  <2>3. QED
    BY <2>1, <2>2, StreamFacts
<1>7. QED
  BY <1>1, <1>3, <1>4, <1>5, <1>6

\* The oldest message is read.
LEMMA Tailed ==
  ASSUME NEW S, NEW s \in Seq(S), s # <<>>
  PROVE  /\ Tail(s) \in Seq(S) /\ Len(Tail(s)) = Len(s) - 1 /\ Len(Tail(s)) \in Nat
         /\ 1 \in 1..Len(s) /\ s[1] = Head(s) /\ Head(s) \in S
         /\ \A i \in 1..Len(Tail(s)) : i + 1 \in 1..Len(s) /\ Tail(s)[i] = s[i + 1]
         /\ \A i \in 1..Len(s) : i # 1 => i - 1 \in 1..Len(Tail(s)) /\ Tail(s)[i - 1] = s[i]
         /\ Dispatch!Elements(s) = {Head(s)} \cup Dispatch!Elements(Tail(s))
<1>1. /\ Tail(s) \in Seq(S) /\ Len(Tail(s)) = Len(s) - 1 /\ Len(Tail(s)) \in Nat
      /\ 1 \in 1..Len(s) /\ s[1] = Head(s) /\ Head(s) \in S /\ Len(s) \in Nat
  OBVIOUS
<1>2. \A i \in 1..Len(Tail(s)) : i + 1 \in 1..Len(s) /\ Tail(s)[i] = s[i + 1]
  OBVIOUS
<1>3. \A i \in 1..Len(s) : i # 1 => i - 1 \in 1..Len(Tail(s)) /\ i - 1 + 1 = i
  BY <1>1
<1>4. \A i \in 1..Len(s) : i # 1 => i - 1 \in 1..Len(Tail(s)) /\ Tail(s)[i - 1] = s[i]
  BY <1>2, <1>3
<1>5. ASSUME NEW m, m \in Dispatch!Elements(s) PROVE m = Head(s) \/ m \in Dispatch!Elements(Tail(s))
  <2>1. PICK i \in 1..Len(s) : s[i] = m
    BY <1>5, StreamFacts
  <2>2. CASE i = 1
    BY <1>1, <2>1, <2>2
  <2>3. CASE i # 1
    BY <1>1, <1>4, <2>1, <2>3, StreamFacts
  <2>4. QED
    BY <2>2, <2>3
<1>6. ASSUME NEW m, m \in Dispatch!Elements(Tail(s)) PROVE m \in Dispatch!Elements(s)
  <2>1. PICK i \in 1..Len(Tail(s)) : Tail(s)[i] = m
    BY <1>1, <1>6, StreamFacts
  <2>2. QED
    BY <1>2, <2>1, StreamFacts
<1>7. Head(s) \in Dispatch!Elements(s)
  BY <1>1, StreamFacts
<1>8. QED
  BY <1>1, <1>2, <1>4, <1>5, <1>6, <1>7

LEMMA NoneAfterJoined ==
  ASSUME NEW S, NEW s \in Seq(S), NEW u \in Seq(S), NEW X, NEW K,
         NoneAfter(s, X, K), NoneAfter(u, X, K),
         (\E m \in Dispatch!Elements(s) : m \in X) => ~Has(u, K)
  PROVE  NoneAfter(s \o u, X, K)
<1> SUFFICES ASSUME NEW i \in 1..Len(s \o u), NEW j \in 1..Len(s \o u), i < j, (s \o u)[i] \in X
             PROVE  (s \o u)[j].kind \notin K
  BY DEF NoneAfter
<1>1. CASE j \in 1..Len(s)
  <2>1. i \in 1..Len(s)
    BY <1>1, Joined
  <2>2. QED
    BY <1>1, <2>1, Joined DEF NoneAfter
<1>2. CASE j \notin 1..Len(s) /\ i \in 1..Len(s)
  <2>1. \E m \in Dispatch!Elements(s) : m \in X
    BY <1>2, Joined, StreamFacts
  <2>2. (s \o u)[j] \in Dispatch!Elements(u)
    BY <1>2, Joined, StreamFacts
  <2>3. QED
    BY <2>1, <2>2 DEF Has
<1>3. CASE j \notin 1..Len(s) /\ i \notin 1..Len(s)
  <2>1. /\ i - Len(s) \in 1..Len(u) /\ j - Len(s) \in 1..Len(u)
        /\ (s \o u)[i] = u[i - Len(s)] /\ (s \o u)[j] = u[j - Len(s)]
    BY <1>3, Joined
  <2>2. i - Len(s) < j - Len(s)
    BY StreamFacts
  <2>3. QED
    BY <2>1, <2>2 DEF NoneAfter
<1>4. QED
  BY <1>1, <1>2, <1>3

LEMMA NoneAfterSmall ==
  ASSUME NEW m, NEW X, NEW K
  PROVE  NoneAfter(<<m>>, X, K)
BY OneElement DEF NoneAfter

LEMMA NoneAfterTailed ==
  ASSUME NEW S, NEW s \in Seq(S), s # <<>>, NEW X, NEW K, NoneAfter(s, X, K)
  PROVE  /\ NoneAfter(Tail(s), X, K)
         /\ Head(s) \in X => ~Has(Tail(s), K)
<1>1. NoneAfter(Tail(s), X, K)
  <2> SUFFICES ASSUME NEW i \in 1..Len(Tail(s)), NEW j \in 1..Len(Tail(s)), i < j,
                      Tail(s)[i] \in X
               PROVE  Tail(s)[j].kind \notin K
    BY DEF NoneAfter
  <2>1. /\ i + 1 \in 1..Len(s) /\ Tail(s)[i] = s[i + 1]
        /\ j + 1 \in 1..Len(s) /\ Tail(s)[j] = s[j + 1] /\ i + 1 < j + 1
    BY Tailed
  <2>2. QED
    BY <2>1 DEF NoneAfter
<1>2. ASSUME Head(s) \in X, NEW i \in 1..Len(Tail(s))
      PROVE  Tail(s)[i].kind \notin K
  <2>1. /\ i + 1 \in 1..Len(s) /\ Tail(s)[i] = s[i + 1]
        /\ 1 \in 1..Len(s) /\ s[1] = Head(s) /\ 1 < i + 1
    BY Tailed
  <2>2. QED
    BY <1>2, <2>1 DEF NoneAfter
<1>3. ASSUME Head(s) \in X, NEW m \in Dispatch!Elements(Tail(s)) PROVE m.kind \notin K
  <2>1. Tail(s) \in Seq(S)
    BY Tailed
  <2>2. PICK i \in 1..Len(Tail(s)) : Tail(s)[i] = m
    BY <2>1, StreamFacts
  <2>3. QED
    BY <1>2, <1>3, <2>2
<1>4. QED
  BY <1>1, <1>3 DEF Has

\* Orders are added.
LEMMA DrainLastJoined ==
  ASSUME NEW S, NEW s \in Seq(S), NEW u \in Seq(S), NEW d, DrainLast(s, d), ~Has(u, Opening)
  PROVE  DrainLast(s \o u, d)
<1>1. CASE d /\ ~Has(s, Opening)
  BY <1>1, Joined DEF DrainLast, Has
<1>2. CASE \E k \in 1..Len(s) : /\ s[k].kind = "drain"
                                /\ \A j \in 1..Len(s) : j > k => s[j].kind \notin Opening
  <2>1. PICK k \in 1..Len(s) : /\ s[k].kind = "drain"
                               /\ \A j \in 1..Len(s) : j > k => s[j].kind \notin Opening
    BY <1>2
  <2>2. k \in 1..Len(s \o u) /\ (s \o u)[k].kind = "drain"
    BY <2>1, Joined
  <2>3. ASSUME NEW j \in 1..Len(s \o u), j > k
        PROVE  (s \o u)[j].kind \notin Opening
    <3>1. CASE j \in 1..Len(s)
      BY <2>1, <2>3, <3>1, Joined
    <3>2. CASE j \notin 1..Len(s)
      <4>1. (s \o u)[j] \in Dispatch!Elements(u)
        BY <3>2, Joined, StreamFacts
      <4>2. QED
        BY <4>1 DEF Has
    <3>3. QED
      BY <3>1, <3>2
  <2>4. QED
    BY <2>2, <2>3 DEF DrainLast
<1>3. QED
  BY <1>1, <1>2 DEF DrainLast

LEMMA DrainOrdered ==
  ASSUME NEW S, NEW s \in Seq(S), NEW m \in S, m.kind = "drain", NEW d
  PROVE  DrainLast(s \o <<m>>, d)
<1>1. /\ <<m>> \in Seq(S) /\ Len(<<m>>) = 1 /\ <<m>>[1] = m /\ Len(s) \in Nat
  BY OneElement, StreamFacts
<1>2. /\ Len(s \o <<m>>) = Len(s) + 1 /\ (s \o <<m>>)[Len(s) + 1] = m
  BY <1>1, Joined
<1>3. \A j \in 1..Len(s \o <<m>>) : ~(j > Len(s) + 1)
  BY <1>1, <1>2
<1>4. QED
  BY <1>1, <1>2, <1>3 DEF DrainLast

LEMMA DrainFirstJoined ==
  ASSUME NEW S, NEW s \in Seq(S), NEW u \in Seq(S), DrainFirst(s), ~Has(u, Opening)
  PROVE  DrainFirst(s \o u)
<1>1. PICK k \in 1..Len(s) :
          /\ s[k].kind = "drain"
          /\ \A j \in 1..Len(s) : /\ j > k => s[j].kind \notin Opening
                                  /\ j < k => s[j].kind # "dispatch_ack"
  BY DEF DrainFirst
<1>2. k \in 1..Len(s \o u) /\ (s \o u)[k].kind = "drain"
  BY <1>1, Joined
<1>3. ASSUME NEW j \in 1..Len(s \o u)
      PROVE  /\ j > k => (s \o u)[j].kind \notin Opening
             /\ j < k => (s \o u)[j].kind # "dispatch_ack"
  <2>1. CASE j \in 1..Len(s)
    BY <1>1, <2>1, Joined
  <2>2. CASE j \notin 1..Len(s)
    <3>1. (s \o u)[j] \in Dispatch!Elements(u)
      BY <2>2, Joined, StreamFacts
    <3>2. ~(j < k)
      BY <2>2, StreamFacts, Joined
    <3>3. QED
      BY <3>1, <3>2 DEF Has
  <2>3. QED
    BY <2>1, <2>2
<1>4. QED
  BY <1>2, <1>3 DEF DrainFirst

LEMMA CapturesJoined ==
  ASSUME NEW S, NEW s \in Seq(S), NEW u \in Seq(S), NEW d, CapturesDrained(s, d),
         ~Has(u, {"capture"})
  PROVE  CapturesDrained(s \o u, d)
<1> SUFFICES ASSUME NEW i \in 1..Len(s \o u), (s \o u)[i].kind = "capture"
             PROVE  \/ d /\ \A j \in 1..Len(s \o u) : j < i => (s \o u)[j].kind \notin Opening
                    \/ \E k \in 1..Len(s \o u) :
                          /\ k < i /\ (s \o u)[k].kind = "drain"
                          /\ \A j \in 1..Len(s \o u) :
                                k < j /\ j < i => (s \o u)[j].kind \notin Opening
  BY DEF CapturesDrained
<1>1. i \in 1..Len(s)
  <2> SUFFICES ASSUME i \notin 1..Len(s) PROVE FALSE
    OBVIOUS
  <2>1. (s \o u)[i] \in Dispatch!Elements(u)
    BY Joined, StreamFacts
  <2>2. QED
    BY <2>1 DEF Has
<1>2. \A j \in 1..Len(s \o u) : j < i => j \in 1..Len(s) /\ (s \o u)[j] = s[j]
  BY <1>1, StreamFacts, Joined
<1>3. s[i].kind = "capture"
  BY <1>1, Joined
<1>4. CASE d /\ \A j \in 1..Len(s) : j < i => s[j].kind \notin Opening
  BY <1>2, <1>4
<1>5. CASE \E k \in 1..Len(s) : /\ k < i /\ s[k].kind = "drain"
                                /\ \A j \in 1..Len(s) : k < j /\ j < i => s[j].kind \notin Opening
  <2>1. PICK k \in 1..Len(s) : /\ k < i /\ s[k].kind = "drain"
                               /\ \A j \in 1..Len(s) : k < j /\ j < i => s[j].kind \notin Opening
    BY <1>5
  <2>2. k \in 1..Len(s \o u) /\ (s \o u)[k] = s[k]
    BY Joined
  <2>3. QED
    BY <1>2, <2>1, <2>2
<1>6. QED
  BY <1>1, <1>3, <1>4, <1>5 DEF CapturesDrained

LEMMA CaptureOrdered ==
  ASSUME NEW S, NEW s \in Seq(S), NEW m \in S, m.kind = "capture", NEW d,
         CapturesDrained(s, d), DrainLast(s, d)
  PROVE  CapturesDrained(s \o <<m>>, d)
<1>1. /\ <<m>> \in Seq(S) /\ Len(<<m>>) = 1 /\ Len(s) \in Nat
  BY OneElement, StreamFacts
<1>2. /\ Len(s \o <<m>>) = Len(s) + 1
      /\ \A j \in 1..Len(s) : (s \o <<m>>)[j] = s[j] /\ j \in 1..Len(s \o <<m>>)
  BY <1>1, Joined
<1> SUFFICES ASSUME NEW i \in 1..Len(s \o <<m>>), (s \o <<m>>)[i].kind = "capture"
             PROVE  \/ d /\ \A j \in 1..Len(s \o <<m>>) :
                               j < i => (s \o <<m>>)[j].kind \notin Opening
                    \/ \E k \in 1..Len(s \o <<m>>) :
                          /\ k < i /\ (s \o <<m>>)[k].kind = "drain"
                          /\ \A j \in 1..Len(s \o <<m>>) :
                                k < j /\ j < i => (s \o <<m>>)[j].kind \notin Opening
  BY DEF CapturesDrained
<1>3. \A j \in 1..Len(s \o <<m>>) : j < i => j \in 1..Len(s) /\ (s \o <<m>>)[j] = s[j]
  BY <1>1, <1>2
<1>4. CASE i \in 1..Len(s)
  <2>1. s[i].kind = "capture"
    BY <1>2, <1>4
  <2>2. CASE d /\ \A j \in 1..Len(s) : j < i => s[j].kind \notin Opening
    BY <1>3, <2>2
  <2>3. CASE \E k \in 1..Len(s) : /\ k < i /\ s[k].kind = "drain"
                                  /\ \A j \in 1..Len(s) : k < j /\ j < i => s[j].kind \notin Opening
    BY <1>2, <1>3, <2>3
  <2>4. QED
    BY <1>4, <2>1, <2>2, <2>3 DEF CapturesDrained
<1>5. CASE i \notin 1..Len(s)
  <2>1. \A k \in 1..Len(s) : k < i
    BY <1>1, <1>2, <1>5
  <2>2. CASE d /\ ~Has(s, Opening)
    <3>1. \A j \in 1..Len(s) : s[j].kind \notin Opening
      BY <2>2, HasNone
    <3>2. QED
      BY <2>2, <1>3, <3>1
  <2>3. CASE \E k \in 1..Len(s) : /\ s[k].kind = "drain"
                                  /\ \A j \in 1..Len(s) : j > k => s[j].kind \notin Opening
    <3>1. PICK k \in 1..Len(s) : /\ s[k].kind = "drain"
                                 /\ \A j \in 1..Len(s) : j > k => s[j].kind \notin Opening
      BY <2>3
    <3>2. k < i /\ k \in 1..Len(s \o <<m>>) /\ (s \o <<m>>)[k].kind = "drain"
      BY <1>2, <2>1, <3>1
    <3>3. ASSUME NEW j \in 1..Len(s \o <<m>>), k < j, j < i
          PROVE  (s \o <<m>>)[j].kind \notin Opening
      <4>1. j \in 1..Len(s) /\ (s \o <<m>>)[j] = s[j] /\ j > k
        BY <1>1, <1>3, <3>3
      <4>2. QED
        BY <3>1, <4>1
    <3>4. QED
      BY <3>2, <3>3
  <2>4. QED
    BY <2>2, <2>3 DEF DrainLast
<1>6. QED
  BY <1>4, <1>5

LEMMA OneCaptureJoined ==
  ASSUME NEW S, NEW s \in Seq(S), NEW u \in Seq(S), OneCapture(s),
         ~Has(u, Opening \cup {"capture"})
  PROVE  OneCapture(s \o u)
<1>1. PICK k \in 1..Len(s) :
          /\ s[k].kind = "capture"
          /\ \A j \in 1..Len(s) : /\ j < k => s[j].kind # "capture"
                                  /\ j > k => s[j].kind \notin Opening \cup {"capture"}
  BY DEF OneCapture
<1>2. k \in 1..Len(s \o u) /\ (s \o u)[k].kind = "capture"
  BY <1>1, Joined
<1>3. ASSUME NEW j \in 1..Len(s \o u)
      PROVE  /\ j < k => (s \o u)[j].kind # "capture"
             /\ j > k => (s \o u)[j].kind \notin Opening \cup {"capture"}
  <2>1. CASE j \in 1..Len(s)
    BY <1>1, <2>1, Joined
  <2>2. CASE j \notin 1..Len(s)
    <3>1. (s \o u)[j] \in Dispatch!Elements(u)
      BY <2>2, Joined, StreamFacts
    <3>2. ~(j < k)
      BY <2>2, StreamFacts, Joined
    <3>3. QED
      BY <3>1, <3>2 DEF Has
  <2>3. QED
    BY <2>1, <2>2
<1>4. QED
  BY <1>2, <1>3 DEF OneCapture

LEMMA OneCaptureOrdered ==
  ASSUME NEW S, NEW s \in Seq(S), NEW m \in S, m.kind = "capture", ~Has(s, {"capture"})
  PROVE  OneCapture(s \o <<m>>)
<1>1. /\ <<m>> \in Seq(S) /\ Len(<<m>>) = 1 /\ <<m>>[1] = m /\ Len(s) \in Nat
  BY OneElement, StreamFacts
<1>2. /\ Len(s \o <<m>>) = Len(s) + 1 /\ (s \o <<m>>)[Len(s) + 1] = m
      /\ \A j \in 1..Len(s) : (s \o <<m>>)[j] = s[j]
  BY <1>1, Joined
<1>3. \A j \in 1..Len(s \o <<m>>) : ~(j > Len(s) + 1) /\ (j < Len(s) + 1 => j \in 1..Len(s))
  BY <1>1, <1>2
<1>4. \A j \in 1..Len(s) : s[j].kind # "capture"
  BY HasNone
<1>5. Len(s) + 1 \in 1..Len(s \o <<m>>)
  BY <1>1, <1>2
<1>6. \A j \in 1..Len(s \o <<m>>) : j < Len(s) + 1 => (s \o <<m>>)[j].kind # "capture"
  BY <1>2, <1>3, <1>4
<1>7. QED
  BY <1>2, <1>3, <1>5, <1>6 DEF OneCapture

\* The core reads an order: whether it is draining then (CoreBridge.poll).
After(m, d) == m.kind = "drain" \/ (d /\ m.kind \notin Opening)

LEMMA DrainLastRead ==
  ASSUME NEW S, NEW s \in Seq(S), s # <<>>, NEW d, DrainLast(s, d)
  PROVE  DrainLast(Tail(s), After(Head(s), d))
<1>1. CASE d /\ ~Has(s, Opening)
  <2>1. Head(s).kind \notin Opening /\ ~Has(Tail(s), Opening)
    BY <1>1, Tailed DEF Has
  <2>2. QED
    BY <1>1, <2>1 DEF DrainLast, After
<1>2. CASE \E k \in 1..Len(s) : /\ s[k].kind = "drain"
                                /\ \A j \in 1..Len(s) : j > k => s[j].kind \notin Opening
  <2>1. PICK k \in 1..Len(s) : /\ s[k].kind = "drain"
                               /\ \A j \in 1..Len(s) : j > k => s[j].kind \notin Opening
    BY <1>2
  <2>2. \A j \in 1..Len(Tail(s)) : j > k - 1 => Tail(s)[j].kind \notin Opening
    <3> SUFFICES ASSUME NEW j \in 1..Len(Tail(s)), j > k - 1
                 PROVE  Tail(s)[j].kind \notin Opening
      OBVIOUS
    <3>1. j + 1 \in 1..Len(s) /\ Tail(s)[j] = s[j + 1] /\ j + 1 > k
      BY Tailed
    <3>2. QED
      BY <2>1, <3>1
  <2>3. CASE k = 1
    <3>1. Head(s).kind = "drain"
      BY <2>1, <2>3, Tailed
    <3>2. \A j \in 1..Len(Tail(s)) : Tail(s)[j].kind \notin Opening
      BY <2>2, <2>3
    <3>3. ~Has(Tail(s), Opening)
      <4>1. Tail(s) \in Seq(S)
        BY Tailed
      <4>2. QED
        BY <3>2, <4>1, HasNone
    <3>4. QED
      BY <3>1, <3>3 DEF DrainLast, After
  <2>4. CASE k # 1
    <3>1. k - 1 \in 1..Len(Tail(s)) /\ Tail(s)[k - 1] = s[k]
      BY <2>4, Tailed
    <3>2. QED
      BY <2>1, <2>2, <3>1 DEF DrainLast
  <2>5. QED
    BY <2>3, <2>4
<1>3. QED
  BY <1>1, <1>2 DEF DrainLast

LEMMA DrainFirstRead ==
  ASSUME NEW S, NEW s \in Seq(S), s # <<>>, DrainFirst(s)
  PROVE  \/ DrainFirst(Tail(s)) /\ Head(s).kind # "dispatch_ack"
         \/ Head(s).kind = "drain" /\ ~Has(Tail(s), Opening)
<1>1. PICK k \in 1..Len(s) :
          /\ s[k].kind = "drain"
          /\ \A j \in 1..Len(s) : /\ j > k => s[j].kind \notin Opening
                                  /\ j < k => s[j].kind # "dispatch_ack"
  BY DEF DrainFirst
<1>2. \A j \in 1..Len(Tail(s)) : /\ j > k - 1 => Tail(s)[j].kind \notin Opening
                                 /\ j < k - 1 => Tail(s)[j].kind # "dispatch_ack"
  <2> SUFFICES ASSUME NEW j \in 1..Len(Tail(s))
               PROVE  /\ j > k - 1 => Tail(s)[j].kind \notin Opening
                      /\ j < k - 1 => Tail(s)[j].kind # "dispatch_ack"
    OBVIOUS
  <2>1. /\ j + 1 \in 1..Len(s) /\ Tail(s)[j] = s[j + 1]
        /\ j > k - 1 => j + 1 > k
        /\ j < k - 1 => j + 1 < k
    BY Tailed
  <2>2. QED
    BY <1>1, <2>1
<1>3. CASE k = 1
  <2>1. Head(s).kind = "drain"
    BY <1>1, <1>3, Tailed
  <2>2. ASSUME NEW j \in 1..Len(Tail(s)) PROVE Tail(s)[j].kind \notin Opening
    <3>1. Len(Tail(s)) \in Nat
      BY Tailed
    <3>2. j > k - 1
      BY <1>3, <3>1
    <3>3. QED
      BY <1>2, <3>2
  <2>3. Tail(s) \in Seq(S)
    BY Tailed
  <2>4. QED
    BY <2>1, <2>2, <2>3, HasNone
<1>4. CASE k # 1
  <2>1. k - 1 \in 1..Len(Tail(s)) /\ Tail(s)[k - 1] = s[k]
    BY <1>4, Tailed
  <2>2. 1 \in 1..Len(s) /\ 1 < k /\ s[1] = Head(s)
    BY <1>4, Tailed
  <2>3. QED
    BY <1>1, <1>2, <2>1, <2>2 DEF DrainFirst
<1>5. QED
  BY <1>3, <1>4

LEMMA CapturesRead ==
  ASSUME NEW S, NEW s \in Seq(S), s # <<>>, NEW d, CapturesDrained(s, d)
  PROVE  /\ CapturesDrained(Tail(s), After(Head(s), d))
         /\ Head(s).kind = "capture" => d
<1>1. Head(s).kind = "capture" => d
  <2>1. 1 \in 1..Len(s) /\ s[1] = Head(s) /\ \A k \in 1..Len(s) : ~(k < 1)
    BY Tailed
  <2>2. QED
    BY <2>1 DEF CapturesDrained
<1>2. ASSUME NEW i \in 1..Len(Tail(s)), Tail(s)[i].kind = "capture"
      PROVE  \/ /\ After(Head(s), d)
                /\ \A j \in 1..Len(Tail(s)) : j < i => Tail(s)[j].kind \notin Opening
             \/ \E k \in 1..Len(Tail(s)) :
                   /\ k < i /\ Tail(s)[k].kind = "drain"
                   /\ \A j \in 1..Len(Tail(s)) :
                         k < j /\ j < i => Tail(s)[j].kind \notin Opening
  <2>1. i + 1 \in 1..Len(s) /\ s[i + 1].kind = "capture"
    BY <1>2, Tailed
  <2>2. CASE d /\ \A j \in 1..Len(s) : j < i + 1 => s[j].kind \notin Opening
    <3>1. 1 \in 1..Len(s) /\ 1 < i + 1 /\ s[1] = Head(s)
      BY Tailed
    <3>2. After(Head(s), d)
      BY <2>2, <3>1 DEF After
    <3>3. ASSUME NEW j \in 1..Len(Tail(s)), j < i PROVE Tail(s)[j].kind \notin Opening
      <4>1. j + 1 \in 1..Len(s) /\ Tail(s)[j] = s[j + 1] /\ j + 1 < i + 1
        BY <3>3, Tailed
      <4>2. QED
        BY <2>2, <4>1
    <3>4. QED
      BY <3>2, <3>3
  <2>3. CASE \E k \in 1..Len(s) :
                /\ k < i + 1 /\ s[k].kind = "drain"
                /\ \A j \in 1..Len(s) : k < j /\ j < i + 1 => s[j].kind \notin Opening
    <3>1. PICK k \in 1..Len(s) :
                /\ k < i + 1 /\ s[k].kind = "drain"
                /\ \A j \in 1..Len(s) : k < j /\ j < i + 1 => s[j].kind \notin Opening
      BY <2>3
    <3>2. ASSUME NEW j \in 1..Len(Tail(s)), k - 1 < j, j < i
          PROVE  Tail(s)[j].kind \notin Opening
      <4>1. j + 1 \in 1..Len(s) /\ Tail(s)[j] = s[j + 1] /\ k < j + 1 /\ j + 1 < i + 1
        BY <3>2, Tailed
      <4>2. QED
        BY <3>1, <4>1
    <3>3. CASE k = 1
      <4>1. After(Head(s), d)
        BY <3>1, <3>3, Tailed DEF After
      <4>2. \A j \in 1..Len(Tail(s)) : 0 < j
        OBVIOUS
      <4>3. QED
        BY <3>2, <3>3, <4>1, <4>2
    <3>4. CASE k # 1
      <4>1. k - 1 \in 1..Len(Tail(s)) /\ Tail(s)[k - 1] = s[k] /\ k - 1 < i
        BY <3>1, <3>4, Tailed
      <4>2. QED
        BY <3>1, <3>2, <4>1
    <3>5. QED
      BY <3>3, <3>4
  <2>4. QED
    BY <2>1, <2>2, <2>3 DEF CapturesDrained
<1>3. QED
  BY <1>1, <1>2 DEF CapturesDrained

LEMMA OneCaptureRead ==
  ASSUME NEW S, NEW s \in Seq(S), s # <<>>, OneCapture(s)
  PROVE  /\ Head(s).kind = "capture" => ~Has(Tail(s), Opening \cup {"capture"})
         /\ Head(s).kind # "capture" => OneCapture(Tail(s))
<1>1. PICK k \in 1..Len(s) :
          /\ s[k].kind = "capture"
          /\ \A j \in 1..Len(s) : /\ j < k => s[j].kind # "capture"
                                  /\ j > k => s[j].kind \notin Opening \cup {"capture"}
  BY DEF OneCapture
<1>2. \A j \in 1..Len(Tail(s)) :
          /\ j < k - 1 => Tail(s)[j].kind # "capture"
          /\ j > k - 1 => Tail(s)[j].kind \notin Opening \cup {"capture"}
  <2> SUFFICES ASSUME NEW j \in 1..Len(Tail(s))
               PROVE  /\ j < k - 1 => Tail(s)[j].kind # "capture"
                      /\ j > k - 1 => Tail(s)[j].kind \notin Opening \cup {"capture"}
    OBVIOUS
  <2>1. /\ j + 1 \in 1..Len(s) /\ Tail(s)[j] = s[j + 1]
        /\ j > k - 1 => j + 1 > k
        /\ j < k - 1 => j + 1 < k
    BY Tailed
  <2>2. QED
    BY <1>1, <2>1
<1>3. 1 \in 1..Len(s) /\ s[1] = Head(s)
  BY Tailed
<1>4. CASE k = 1
  <2>1. \A j \in 1..Len(Tail(s)) : Tail(s)[j].kind \notin Opening \cup {"capture"}
    BY <1>2, <1>4
  <2>2. Tail(s) \in Seq(S)
    BY Tailed
  <2>3. Head(s).kind = "capture"
    BY <1>1, <1>3, <1>4
  <2>4. QED
    BY <2>1, <2>2, <2>3, HasNone
<1>5. CASE k # 1
  <2>1. k - 1 \in 1..Len(Tail(s)) /\ Tail(s)[k - 1] = s[k]
    BY <1>5, Tailed
  <2>2. Head(s).kind # "capture"
    BY <1>1, <1>3, <1>5
  <2>3. QED
    BY <1>1, <1>2, <2>1, <2>2 DEF OneCapture
<1>6. QED
  BY <1>4, <1>5

-----------------------------------------------------------------------------
(* What a step does to the two streams.                                    *)

LEMMA Says ==
  ASSUME Typed, NEW m \in Letters, toSup' = Append(toSup, m)
  PROVE  /\ toSup' \in Seq(Letters)
         /\ Dispatch!Elements(toSup') = Dispatch!Elements(toSup) \cup {m}
         /\ \A X, K : NoneAfter(toSup, X, K)
            /\ (m.kind \in K => \A x \in Dispatch!Elements(toSup) : x \notin X)
                         => NoneAfter(toSup', X, K)
<1>1. /\ toSup \in Seq(Letters) /\ toSup' = toSup \o <<m>> /\ <<m>> \in Seq(Letters)
      /\ Dispatch!Elements(<<m>>) = {m}
  BY OneElement DEF Typed, MailTyped
<1>2. toSup' \in Seq(Letters) /\ Dispatch!Elements(toSup') = Dispatch!Elements(toSup) \cup {m}
  <2>1. toSup \o <<m>> \in Seq(Letters)
        /\ Dispatch!Elements(toSup \o <<m>>) = Dispatch!Elements(toSup) \cup Dispatch!Elements(<<m>>)
    BY <1>1, Joined
  <2>2. QED
    BY <1>1, <2>1
<1>3. ASSUME NEW X, NEW K, NoneAfter(toSup, X, K),
             m.kind \in K => \A x \in Dispatch!Elements(toSup) : x \notin X
      PROVE  NoneAfter(toSup', X, K)
  <2>1. NoneAfter(<<m>>, X, K)
    BY NoneAfterSmall
  <2>2. (\E x \in Dispatch!Elements(toSup) : x \in X) => ~Has(<<m>>, K)
    BY <1>1, <1>3 DEF Has
  <2>3. QED
    BY <1>1, <1>3, <2>1, <2>2, NoneAfterJoined
<1>4. QED
  BY <1>2, <1>3

LEMMA ReadsLetter ==
  ASSUME Typed, toSup # <<>>, toSup' = Tail(toSup)
  PROVE  /\ toSup' \in Seq(Letters) /\ Head(toSup) \in Letters
         /\ Dispatch!Elements(toSup) = {Head(toSup)} \cup Dispatch!Elements(toSup')
         /\ \A X, K : NoneAfter(toSup, X, K) =>
                         /\ NoneAfter(toSup', X, K)
                         /\ Head(toSup) \in X => ~Has(toSup', K)
<1>1. toSup \in Seq(Letters)
  BY DEF Typed, MailTyped
<1>2. ASSUME NEW X, NEW K, NoneAfter(toSup, X, K)
      PROVE  NoneAfter(toSup', X, K) /\ (Head(toSup) \in X => ~Has(toSup', K))
  BY <1>1, <1>2, NoneAfterTailed
<1>3. QED
  BY <1>1, <1>2, Tailed

LEMMA Tells ==
  ASSUME Typed, NEW u \in Seq(Orders), toCore' = toCore \o u
  PROVE  /\ toCore' \in Seq(Orders)
         /\ Dispatch!Elements(toCore') = Dispatch!Elements(toCore) \cup Dispatch!Elements(u)
         /\ ~Has(u, {"dispatch_ack"}) /\ NoneAfter(toCore, Receipts, {"dispatch_ack"})
               => NoneAfter(toCore', Receipts, {"dispatch_ack"})
<1>1. toCore \in Seq(Orders)
  BY DEF Typed, MailTyped
<1>2. ASSUME ~Has(u, {"dispatch_ack"}), NoneAfter(toCore, Receipts, {"dispatch_ack"})
      PROVE  NoneAfter(toCore', Receipts, {"dispatch_ack"})
  <2>1. \A i \in 1..Len(u) : u[i].kind # "dispatch_ack"
    BY <1>2, HasNone
  <2>2. NoneAfter(u, Receipts, {"dispatch_ack"})
    BY <2>1 DEF NoneAfter
  <2>3. QED
    BY <1>1, <1>2, <2>2, NoneAfterJoined
<1>3. QED
  BY <1>1, <1>2, Joined

LEMMA ReadsOrder ==
  ASSUME Typed, toCore # <<>>, toCore' = Tail(toCore)
  PROVE  /\ toCore' \in Seq(Orders) /\ Head(toCore) \in Orders
         /\ Dispatch!Elements(toCore) = {Head(toCore)} \cup Dispatch!Elements(toCore')
         /\ NoneAfter(toCore, Receipts, {"dispatch_ack"}) =>
               /\ NoneAfter(toCore', Receipts, {"dispatch_ack"})
               /\ Head(toCore).kind = "dispatch_ack" => ~Has(toCore', {"dispatch_ack"})
<1>1. toCore \in Seq(Orders)
  BY DEF Typed, MailTyped
<1>2. Head(toCore) \in Orders
  BY <1>1, Tailed
<1>3. QED
  BY <1>1, <1>2, Tailed, NoneAfterTailed DEF Receipts

-----------------------------------------------------------------------------
(* What the parts of the invariant survive.                                *)

LEMMA CleanStays ==
  ASSUME NEW q, Clean(q), UNCHANGED <<typed, ran>>
  PROVE  Clean(q)'
BY DEF Clean, CleanIn

\* The letters on the way to the supervisor, and the orders on the way to the
\* core, after a step that is no business of one part of the invariant.
StatesKept ==
    /\ \A m \in Dispatch!Elements(toSup') :
          m \in Dispatch!Elements(toSup) \/ (m.kind \notin StateKinds /\ m.queue = <<>>)
    /\ NoneAfter(toSup', Intents, StateKinds)
AcksKept ==
    /\ \A m \in Dispatch!Elements(toCore') : m \in Dispatch!Elements(toCore) \/ m.kind # "dispatch_ack"
    /\ NoneAfter(toCore', Receipts, {"dispatch_ack"})
ClaimsKept ==
    /\ \A m \in Dispatch!Elements(toSup') : m.kind \in {"claim", "finished"} => m \in Dispatch!Elements(toSup)
    /\ \A X : NoneAfter(toSup, X, {"finished"}) => NoneAfter(toSup', X, {"finished"})
ResultsKept ==
    \A m \in Dispatch!Elements(toCore') :
        \/ m \in Dispatch!Elements(toCore) \/ m.kind \notin {"update_result", "claim_ack"}
        \/ m.kind = "update_result" /\ m.item \in results
HandoffsKept ==
    /\ \A m \in Dispatch!Elements(toSup') :
          m \in Dispatch!Elements(toSup) \/ (m.kind # "handoff"
                /\ (frozen => m.kind \notin StateKinds))
    /\ frozen /\ NoneAfter(toSup, Handoffs, StateKinds) => NoneAfter(toSup', Handoffs, StateKinds)

LEMMA PromptFrame ==
  ASSUME Typed, PromptInv, UNCHANGED <<queue, ui, typed, ran, last>>,
         manifest'.queue \in {last, manifest.queue},
         StatesKept, AcksKept
  PROVE  PromptInv'
<1>1. Queues'
  <2>1. Clean(<<>>)
    BY DEF Clean, CleanIn
  <2>2. \A m \in Dispatch!Elements(toSup') : Clean(m.queue)
        /\ (m.kind \notin StateKinds => m.queue = <<>>)
    BY <2>1 DEF PromptInv, Queues, StatesKept
  <2>3. Clean(queue') /\ Clean(last') /\ Clean(manifest'.queue) /\ Clean(ui'.queued)
    BY DEF PromptInv, Queues
  <2>4. QED
    BY <2>2, <2>3 DEF Queues, Clean, CleanIn
<1>2. Has(toSup', StateKinds) => Has(toSup, StateKinds)
  BY DEF Has, StatesKept
<1>3. Has(toSup', {"dispatch"}) => Has(toSup, {"dispatch"})
  BY DEF Has, StateKinds, StatesKept
<1>4. Has(toCore', {"dispatch_ack"}) => Has(toCore, {"dispatch_ack"})
  BY DEF Has, AcksKept
<1>5. Settled => Settled'
  BY <1>2 DEF Settled, Within
<1>6. \A m \in Dispatch!Elements(toSup') : m.kind = "dispatch" => m \in Dispatch!Elements(toSup)
  BY DEF StateKinds, StatesKept
<1>7. IntentTravels'
  BY <1>3, <1>4, <1>6 DEF PromptInv, IntentTravels, Within, StatesKept
<1>8. AckTravels'
  BY <1>4, <1>5 DEF PromptInv, AckTravels, AcksKept
<1>9. QED
  BY <1>1, <1>7, <1>8 DEF PromptInv, InHand, Within, Runs

LEMMA ResultFrame ==
  ASSUME Typed, ResultInv, UNCHANGED <<results, claimed, made, claims, callers, core>>,
         manifest'.results \in {results, manifest.results}, manifest'.claimed = claimed,
         inbox' \subseteq inbox, ui'.kind = "review" => ui' = ui \/ ui'.item \in inbox,
         \/ job' = job
         \/ /\ job'.stage \in {"none", "started"} /\ job'.token <= claims
            /\ job'.kind = "review" => ui.kind = "review" /\ job'.item = ui.item,
         ClaimsKept, ResultsKept
  PROVE  ResultInv'
<1>1. results \subseteq Dispatch!Results
  BY DEF Typed, SupTyped
<1>2. Items'
  BY <1>1 DEF ResultInv, Items, ClaimsKept, ResultsKept, Typed, CoreTyped
<1>3. \A r \in Dispatch!Results : Mentioned(r)' => Mentioned(r) \/ r \in results
  BY DEF Mentioned, ClaimsKept, ResultsKept
<1>4. job'.token <= claims
  BY DEF ResultInv
<1>5. Has(toSup', {"finished"}) => Has(toSup, {"finished"})
  BY DEF Has, ClaimsKept, ResultsKept
<1>6. \A r : Held(r) => Held(r)'
  BY <1>5 DEF Held
<1>7. Records'
  BY DEF ResultInv, Records
<1>8. Delivered'
  BY <1>3 DEF ResultInv, Delivered, Records
<1>9. CASE job' = job
  <2>1. ClaimTravels'
    <3>1. Claims(job.token)' = Claims(job.token)
      BY <1>9 DEF Claims
    <3>2. QED
      BY <1>9, <3>1 DEF ResultInv, ClaimTravels, ClaimsKept, ResultsKept
  <2>2. ReceiptTravels'
    BY <1>6, <1>9 DEF ResultInv, ReceiptTravels, ClaimsKept, ResultsKept
  <2>3. Calling'
    BY <1>6, <1>9 DEF ResultInv, Calling
  <2>4. QED
    BY <1>7, <1>8, <1>2, <1>4, <2>1, <2>2, <2>3 DEF ResultInv
<1>10. CASE job'.stage \in {"none", "started"}
  <2>1. ClaimTravels'
    BY <1>10 DEF ResultInv, ClaimTravels, ClaimsKept, ResultsKept
  <2>2. ReceiptTravels'
    BY <1>10 DEF ResultInv, ReceiptTravels, ClaimsKept, ResultsKept
  <2>3. Calling'
    BY <1>10 DEF Calling
  <2>4. QED
    BY <1>7, <1>8, <1>2, <1>4, <2>1, <2>2, <2>3 DEF ResultInv
<1>11. QED
  BY <1>9, <1>10

LEMMA Grown ==
  ASSUME NEW u \in Seq(Orders), toCore \in Seq(Orders), toCore' = toCore \/ toCore' = toCore \o u
  PROVE  Dispatch!Elements(toCore') \subseteq Dispatch!Elements(toCore) \cup Dispatch!Elements(u)
<1>1. Dispatch!Elements(toCore \o u) = Dispatch!Elements(toCore) \cup Dispatch!Elements(u)
  BY Joined
<1>2. CASE toCore' = toCore
  BY <1>2
<1>3. CASE toCore' = toCore \o u
  BY <1>1, <1>3
<1>4. QED
  BY <1>2, <1>3

LEMMA RecoveryFrame ==
  ASSUME Typed, RecoveryInv, NEW u \in Seq(Orders), granted => granted',
         granted' \/ job' = job \/ job' = Dispatch!NoJob, draining' = draining,
         ui'.acked => ui.acked, toCore' = toCore \/ toCore' = toCore \o u,
         granted' \/ ~Has(u, Opening)
  PROVE  RecoveryInv'
<1> SUFFICES ASSUME ~granted'
             PROVE  /\ job' = Dispatch!NoJob
                    /\ \/ draining' /\ ~Has(toCore', Opening)
                       \/ ~ui'.acked /\ DrainFirst(toCore')
  BY DEF RecoveryInv, Dispatch!NoJob
<1>1. /\ job = Dispatch!NoJob
      /\ (draining /\ ~Has(toCore, Opening)) \/ (~ui.acked /\ DrainFirst(toCore))
  BY DEF RecoveryInv
<1>2. toCore \in Seq(Orders)
  BY DEF Typed, MailTyped
<1>3. ~Has(toCore, Opening) => ~Has(toCore', Opening)
  <2>1. Dispatch!Elements(toCore') \subseteq Dispatch!Elements(toCore) \cup Dispatch!Elements(u)
    BY <1>2, Grown
  <2>2. QED
    BY <2>1 DEF Has
<1>4. DrainFirst(toCore) => DrainFirst(toCore')
  BY <1>2, DrainFirstJoined
<1>5. QED
  BY <1>1, <1>3, <1>4

LEMMA CoversStays ==
  ASSUME NEW q, Covers(q), typed' = typed, \A p \in Dispatch!Prompts : ran[p] > 0 => ran'[p] > 0,
         typed \in 0..MaxPrompts
  PROVE  Covers(q)'
<1>1. \A p \in 1..typed : p \in Dispatch!Prompts
  <2>1. MaxPrompts \in Nat
    BY DispatchAssumed DEF Dispatch!BoundsAssumption
  <2>2. QED
    BY <2>1 DEF Dispatch!Prompts
<1>2. QED
  BY <1>1 DEF Covers

LEMMA UpdateFrame ==
  ASSUME Typed, UpdateInv, NEW u \in Seq(Orders), ~lost' => ~lost /\ Kept' /\ alive' = alive,
         UNCHANGED <<captured, frozen, draining, handoffSaved>>,
         last' = last \/ Has(toSup, StateKinds),
         \/ transition' \in {"none", "validating", "reporting"}
         \/ transition' = transition /\ ~Has(u, Opening),
         toCore' = toCore \/ toCore' = toCore \o u, ~Has(u, {"capture"}),
         HandoffsKept, frozen => typed' = typed, \A p \in Dispatch!Prompts : ran[p] > 0 => ran'[p] > 0
  PROVE  UpdateInv'
<1> SUFFICES ASSUME ~lost'
             PROVE  alive' /\ Kept' /\ CaptureDrained' /\ Drained' /\ Capturing' /\ Capture'
  BY DEF UpdateInv
<1>1. ~lost /\ alive /\ Kept /\ CaptureDrained /\ Drained /\ Capturing /\ Capture
  BY DEF UpdateInv
<1>2. toCore \in Seq(Orders) /\ typed \in 0..MaxPrompts
  BY DEF Typed, MailTyped, CountTyped
<1>3. CapturesDrained(toCore, draining) => CapturesDrained(toCore', draining')
  BY <1>2, CapturesJoined
<1>4. CASE transition' \in {"none", "validating", "reporting"}
  BY <1>1, <1>3, <1>4 DEF CaptureDrained, Drained, Capturing, Capture
<1>5. CASE transition' = transition /\ ~Has(u, Opening)
  <2>1. Dispatch!Elements(toCore') \subseteq Dispatch!Elements(toCore) \cup Dispatch!Elements(u)
    BY <1>2, Grown
  <2>2. ~Has(toCore, {"capture"}) => ~Has(toCore', {"capture"})
    BY <2>1 DEF Has
  <2>3. ~Has(toCore, Opening \cup {"capture"}) => ~Has(toCore', Opening \cup {"capture"})
    BY <1>5, <2>1 DEF Has
  <2>4. DrainLast(toCore, draining) => DrainLast(toCore', draining')
    BY <1>2, <1>5, DrainLastJoined
  <2>5. OneCapture(toCore) => OneCapture(toCore')
    <3>1. ~Has(u, Opening \cup {"capture"})
      BY <1>5 DEF Has
    <3>2. QED
      BY <1>2, <3>1, OneCaptureJoined
  <2>6. ~Has(toSup, {"handoff"}) => ~Has(toSup', {"handoff"})
    BY DEF Has, HandoffsKept
  <2>7. frozen /\ ~Has(toSup, StateKinds) => ~Has(toSup', StateKinds)
    BY DEF Has, StateKinds, HandoffsKept
  <2>8. \A m \in Dispatch!Elements(toSup') : m.kind = "handoff" => m \in Dispatch!Elements(toSup)
    BY DEF HandoffsKept
  <2>9. ASSUME NEW q, frozen, Covers(q) PROVE Covers(q)'
    BY <1>2, <2>9, CoversStays
  <2>10. Drained'
    BY <1>1, <1>5, <2>2, <2>4, <2>6 DEF Drained, Unanswering
  <2>11. Still => Still'
    BY <2>3 DEF Still
  <2>12. Still /\ HandoffComes => HandoffComes'
    <3> SUFFICES ASSUME Still, HandoffComes PROVE HandoffComes'
      OBVIOUS
    <3>1. NoneAfter(toSup', Handoffs, StateKinds)
      BY DEF Still, HandoffComes, HandoffsKept
    <3>2. ASSUME NEW m \in Dispatch!Elements(toSup'), m.kind = "handoff"
          PROVE  handoffSaved' /\ Covers(m.queue)'
      <4>1. handoffSaved /\ Covers(m.queue) /\ frozen
        BY <2>8, <3>2 DEF Still, HandoffComes
      <4>2. Covers(m.queue)'
        BY <2>9, <4>1
      <4>3. QED
        BY <4>1, <4>2
    <3>3. QED
      BY <3>1, <3>2 DEF HandoffComes, Covers
  <2>13. Capturing'
    BY <1>1, <1>5, <2>5, <2>6, <2>11, <2>12 DEF Capturing, Unanswering
  <2>14. Capture'
    <3> SUFFICES ASSUME (transition = "capturing" /\ captured) \/ transition = "activating"
                 PROVE  Still' /\ handoffSaved' /\ Covers(last)' /\ ~Has(toSup', StateKinds)
      BY <1>5 DEF Capture, Covers
    <3>1. Still /\ handoffSaved /\ Covers(last) /\ ~Has(toSup, StateKinds) /\ frozen
      BY <1>1 DEF Capture, Still
    <3>2. Covers(last)'
      BY <2>9, <3>1 DEF Covers
    <3>3. QED
      BY <2>7, <2>11, <3>1, <3>2
  <2>15. QED
    BY <1>1, <1>3, <2>10, <2>13, <2>14 DEF CaptureDrained
<1>6. QED
  BY <1>4, <1>5

-----------------------------------------------------------------------------
(* What is sent.                                                           *)

LEMMA Bounds == /\ MaxPrompts \in Nat /\ MaxResults \in Nat /\ MaxClaims \in Nat
                /\ Dispatch!Prompts \subseteq Nat /\ Dispatch!Results \subseteq Nat
<1>1. MaxPrompts \in Nat /\ MaxResults \in Nat /\ MaxClaims \in Nat
  BY DispatchAssumed DEF Dispatch!BoundsAssumption
<1>2. QED
  BY <1>1 DEF Dispatch!Prompts, Dispatch!Results

LEMMA Written ==
  ASSUME NEW k \in Dispatch!ToSupKinds, NEW i \in Nat, NEW t \in 0..MaxClaims, NEW q \in Seq(Dispatch!Prompts)
  PROVE  /\ Dispatch!Message(k, i, t, q) \in Letters
         /\ Dispatch!Message(k, i, t, q).kind = k /\ Dispatch!Message(k, i, t, q).item = i
         /\ Dispatch!Message(k, i, t, q).token = t /\ Dispatch!Message(k, i, t, q).queue = q
BY DEF Dispatch!Message, Letters, Dispatch!Mail

LEMMA Ordered ==
  ASSUME NEW k \in Dispatch!ToCoreKinds, NEW i \in Nat, NEW t \in 0..MaxClaims
  PROVE  /\ Dispatch!Message(k, i, t, <<>>) \in Orders
         /\ Dispatch!Message(k, i, t, <<>>).kind = k /\ Dispatch!Message(k, i, t, <<>>).item = i
         /\ Dispatch!Message(k, i, t, <<>>).token = t
BY DEF Dispatch!Message, Orders, Dispatch!Mail

LEMMA Signalled ==
  /\ \A k \in Dispatch!ToSupKinds : /\ Dispatch!Signal(k) \in Letters /\ Dispatch!Signal(k).kind = k
                                    /\ Dispatch!Signal(k).queue = <<>>
  /\ \A k \in Dispatch!ToCoreKinds : Dispatch!Signal(k) \in Orders /\ Dispatch!Signal(k).kind = k
<1>1. 0 \in Nat /\ 0 \in 0..MaxClaims /\ <<>> \in Seq(Dispatch!Prompts)
  BY Bounds
<1>2. ASSUME NEW k \in Dispatch!ToSupKinds
      PROVE  Dispatch!Signal(k) \in Letters /\ Dispatch!Signal(k).kind = k
            /\ Dispatch!Signal(k).queue = <<>>
  <2>1. /\ Dispatch!Message(k, 0, 0, <<>>) \in Letters /\ Dispatch!Message(k, 0, 0, <<>>).kind = k
        /\ Dispatch!Message(k, 0, 0, <<>>).queue = <<>>
    BY <1>1 DEF Dispatch!Message, Letters, Dispatch!Mail
  <2>2. QED
    BY <2>1 DEF Dispatch!Signal
<1>3. ASSUME NEW k \in Dispatch!ToCoreKinds PROVE Dispatch!Signal(k) \in Orders
      /\ Dispatch!Signal(k).kind = k
  BY <1>1, Ordered DEF Dispatch!Signal
<1>4. QED
  BY <1>2, <1>3

LEMMA OneOrder ==
  ASSUME NEW m \in Orders
  PROVE  /\ <<m>> \in Seq(Orders) /\ Dispatch!Elements(<<m>>) = {m}
         /\ \A K : Has(<<m>>, K) <=> m.kind \in K
<1>1. <<m>> \in Seq(Orders) /\ Dispatch!Elements(<<m>>) = {m}
  BY OneElement
<1>2. QED
  BY <1>1 DEF Has

(* The pending results, in some order.                                     *)
\* The operators of the libraries are the same in the module of the protocol.
LEMMA SameCardinality == ASSUME NEW S PROVE Dispatch!Cardinality(S) = Cardinality(S)
BY DEF Dispatch!Cardinality, Cardinality

LEMMA SameInjective == ASSUME NEW f PROVE Dispatch!IsInjective(f) <=> IsInjective(f)
BY DEF Dispatch!IsInjective, IsInjective

LEMMA Mailed ==
  ASSUME Typed
  PROVE  /\ Dispatch!ResultMail \in Seq(Orders)
         /\ \A m \in Dispatch!Elements(Dispatch!ResultMail) : m.kind = "update_result"
            /\ m.item \in results
<1>1. IsFiniteSet(results)
  <2>1. IsFiniteSet(Dispatch!Results)
    BY Bounds, FS_Interval DEF Dispatch!Results
  <2>2. QED
    BY <2>1, FS_Subset DEF Typed, SupTyped
<1>2. Cardinality(results) \in Nat /\ ExistsBijection(1..Cardinality(results), results)
  BY <1>1, FS_CardinalityType
<1>3. Dispatch!SetToSeq(results) \in [1..Cardinality(results) -> results]
  <2>1. \E f \in [1..Cardinality(results) -> results] : IsInjective(f)
    BY <1>2 DEF ExistsBijection, Bijection, Injection
  <2>2. \E f \in [1..Dispatch!Cardinality(results) -> results] : Dispatch!IsInjective(f)
    BY <2>1, SameCardinality, SameInjective
  <2>3. Dispatch!SetToSeq(results) \in [1..Dispatch!Cardinality(results) -> results]
    BY <2>2 DEF Dispatch!SetToSeq
  <2>4. QED
    BY <2>3, SameCardinality
<1>4. results \subseteq Nat
  BY Bounds DEF Typed, SupTyped
<1>5. ASSUME NEW i \in 1..Cardinality(results)
      PROVE  LET m == Dispatch!Message("update_result", Dispatch!SetToSeq(results)[i], 0, <<>>)
             IN  m \in Orders /\ m.kind = "update_result" /\ m.item \in results
  <2>1. Dispatch!SetToSeq(results)[i] \in results /\ Dispatch!SetToSeq(results)[i] \in Nat
    BY <1>3, <1>4
  <2>2. "update_result" \in Dispatch!ToCoreKinds /\ 0 \in 0..MaxClaims
    BY Bounds DEF Dispatch!ToCoreKinds
  <2>3. QED
    BY <2>1, <2>2, Ordered
<1>6. /\ Dispatch!ResultMail \in Seq(Orders) /\ DOMAIN Dispatch!ResultMail = 1..Cardinality(results)
      /\ \A i \in 1..Cardinality(results) :
            Dispatch!ResultMail[i] = Dispatch!Message("update_result", Dispatch!SetToSeq(results)[i], 0, <<>>)
  BY <1>2, <1>5, SameCardinality DEF Dispatch!ResultMail
<1>7. \A m \in Dispatch!Elements(Dispatch!ResultMail) : m.kind = "update_result"
      /\ m.item \in results
  BY <1>5, <1>6 DEF Dispatch!Elements
<1>8. QED
  BY <1>6, <1>7

LEMMA Resumed ==
  ASSUME Typed
  PROVE  /\ Dispatch!ResumeMail \in Seq(Orders)
         /\ \A m \in Dispatch!Elements(Dispatch!ResumeMail) :
               m.kind = "continue" \/ (m.kind = "update_result" /\ m.item \in results)
<1>1. Dispatch!Signal("continue") \in Orders /\ Dispatch!Signal("continue").kind = "continue"
  BY Signalled DEF Dispatch!ToCoreKinds
<1>2. /\ <<Dispatch!Signal("continue")>> \in Seq(Orders)
      /\ Dispatch!Elements(<<Dispatch!Signal("continue")>>) = {Dispatch!Signal("continue")}
  BY <1>1, OneOrder
<1>3. Dispatch!Elements(Dispatch!ResumeMail) = {Dispatch!Signal("continue")} \cup Dispatch!Elements(Dispatch!ResultMail)
  <2>1. \A s \in Seq(Orders) : Dispatch!Elements(s \o Dispatch!ResultMail) = Dispatch!Elements(s) \cup Dispatch!Elements(Dispatch!ResultMail)
    BY Mailed, Joined
  <2>2. QED
    BY <1>2, <2>1 DEF Dispatch!ResumeMail
<1>4. Dispatch!ResumeMail \in Seq(Orders)
  BY <1>2, Mailed, Joined DEF Dispatch!ResumeMail
<1>5. QED
  BY <1>1, <1>3, <1>4, Mailed

LEMMA SupQuiet ==
  ASSUME Typed, PromptInv,
         \/ toSup' = toSup
         \/ toSup # <<>> /\ toSup' = Tail(toSup)
         \/ \E k \in {"update", "resume_queue", "idle"} : toSup' = Append(toSup, Dispatch!Signal(k))
  PROVE  toSup' \in Seq(Letters) /\ StatesKept /\ ClaimsKept /\ HandoffsKept
<1>1. toSup \in Seq(Letters) /\ NoneAfter(toSup, Intents, StateKinds)
  BY DEF Typed, MailTyped, PromptInv, IntentTravels
<1>2. CASE toSup' = toSup
  BY <1>1, <1>2 DEF StatesKept, ClaimsKept, HandoffsKept
<1>3. CASE toSup # <<>> /\ toSup' = Tail(toSup)
  <2>1. /\ toSup' \in Seq(Letters) /\ Dispatch!Elements(toSup') \subseteq Dispatch!Elements(toSup)
        /\ \A X, K : NoneAfter(toSup, X, K) => NoneAfter(toSup', X, K)
    BY <1>3, ReadsLetter
  <2>2. QED
    BY <1>1, <2>1 DEF StatesKept, ClaimsKept, HandoffsKept
<1>4. ASSUME NEW k \in {"update", "resume_queue", "idle"}, toSup' = Append(toSup, Dispatch!Signal(k))
      PROVE  toSup' \in Seq(Letters) /\ StatesKept /\ ClaimsKept /\ HandoffsKept
  <2>1. Dispatch!Signal(k) \in Letters /\ Dispatch!Signal(k).kind = k
        /\ Dispatch!Signal(k).queue = <<>>
    BY Signalled DEF Dispatch!ToSupKinds
  <2>2. /\ toSup' \in Seq(Letters)
           /\ Dispatch!Elements(toSup') = Dispatch!Elements(toSup) \cup {Dispatch!Signal(k)}
        /\ \A X, K : NoneAfter(toSup, X, K) /\ k \notin K => NoneAfter(toSup', X, K)
    BY <1>4, <2>1, Says
  <2>3. k \notin StateKinds \cup {"claim", "finished", "handoff"}
    BY DEF StateKinds
  <2>4. QED
    BY <1>1, <2>1, <2>2, <2>3 DEF StatesKept, ClaimsKept, HandoffsKept
<1>5. QED
  BY <1>2, <1>3, <1>4

LEMMA CoreQuiet ==
  ASSUME Typed, PromptInv, NEW u \in Seq(Orders), toCore' = toCore \/ toCore' = toCore \o u,
         \A m \in Dispatch!Elements(u) : /\ m.kind \notin {"dispatch_ack", "claim_ack"}
                                         /\ m.kind = "update_result" => m.item \in results
  PROVE  toCore' \in Seq(Orders) /\ AcksKept /\ ResultsKept
<1>1. toCore \in Seq(Orders) /\ NoneAfter(toCore, Receipts, {"dispatch_ack"})
  BY DEF Typed, MailTyped, PromptInv, AckTravels
<1>2. CASE toCore' = toCore
  BY <1>1, <1>2 DEF AcksKept, ResultsKept
<1>3. CASE toCore' = toCore \o u
  <2>1. ~Has(u, {"dispatch_ack"})
    BY DEF Has
  <2>2. /\ toCore' \in Seq(Orders)
           /\ Dispatch!Elements(toCore') = Dispatch!Elements(toCore) \cup Dispatch!Elements(u)
        /\ NoneAfter(toCore', Receipts, {"dispatch_ack"})
    BY <1>1, <1>3, <2>1, Tells
  <2>3. QED
    BY <2>2 DEF AcksKept, ResultsKept
<1>4. QED
  BY <1>2, <1>3

LEMMA Silence == /\ <<>> \in Seq(Orders) /\ Dispatch!Elements(<<>>) = {} /\ \A K : ~Has(<<>>, K)
BY EmptyStream DEF Has

\* No order is added.
LEMMA CoreSilent ==
  ASSUME Typed, PromptInv, toCore' = toCore
  PROVE  toCore' \in Seq(Orders) /\ AcksKept /\ ResultsKept
BY Silence, CoreQuiet

LEMMA RecoverySilent ==
  ASSUME Typed, RecoveryInv, granted' = granted, granted' \/ job' = job \/ job' = Dispatch!NoJob,
         draining' = draining, ui'.acked => ui.acked, toCore' = toCore
  PROVE  RecoveryInv'
BY Silence, RecoveryFrame

LEMMA UpdateSilent ==
  ASSUME Typed, UpdateInv, ~lost' => ~lost /\ Kept' /\ alive' = alive,
         UNCHANGED <<captured, frozen, draining, handoffSaved>>, toCore' = toCore,
         last' = last \/ Has(toSup, StateKinds),
         transition' \in {transition, "none", "validating", "reporting"},
         HandoffsKept, frozen => typed' = typed, \A p \in Dispatch!Prompts : ran[p] > 0 => ran'[p] > 0
  PROVE  UpdateInv'
BY Silence, UpdateFrame

LEMMA KeptStays ==
  ASSUME Kept, UNCHANGED <<queue, ui, typed, ran>>
  PROVE  Kept'
BY DEF Kept, Within

-----------------------------------------------------------------------------
(* Steps that touch neither a queue nor a record nor a review.             *)

LEMMA ResumeQuiet ==
  ASSUME Typed, Dispatch!Resume
  PROVE  \E u \in Seq(Orders) :
            /\ toCore' = toCore \/ toCore' = toCore \o u
            /\ granted' \/ ~Has(u, Opening)
            /\ ~Has(u, {"capture"})
            /\ \A m \in Dispatch!Elements(u) : /\ m.kind \notin {"dispatch_ack", "claim_ack"}
                                               /\ m.kind = "update_result" => m.item \in results
<1>1. CASE alive
  <2>1. ~Has(Dispatch!ResumeMail, {"capture"})
    BY Resumed DEF Has
  <2>2. granted' /\ toCore' = toCore \o Dispatch!ResumeMail
    BY <1>1 DEF Dispatch!Resume
  <2>3. QED
    BY <2>1, <2>2, Resumed
<1>2. CASE ~alive
  BY <1>2, Silence DEF Dispatch!Resume
<1>3. QED
  BY <1>1, <1>2

LEMMA QuietStep ==
  ASSUME DispatchInv,
         UNCHANGED <<last, results, claimed, captured, manifest, core, alive, draining, frozen,
                     active, handoffSaved, queue, inbox, ui, typed, made, claims, ran, callers,
                     lost>>,
         job' \in {job, Dispatch!NoJob},
         \/ toSup' = toSup
         \/ toSup # <<>> /\ toSup' = Tail(toSup)
         \/ \E k \in {"update", "resume_queue", "idle"} : toSup' = Append(toSup, Dispatch!Signal(k)),
         \/ /\ toCore' = toCore /\ granted' = granted
            /\ transition' \in {transition, "none", "validating", "reporting"}
         \/ Dispatch!Resume /\ transition' \in {"none", "validating", "reporting"}
  PROVE  DispatchInv'
<1>1. Typed /\ PromptInv /\ ResultInv /\ RecoveryInv /\ UpdateInv
  BY DEF DispatchInv
<1>2. toSup' \in Seq(Letters) /\ StatesKept /\ ClaimsKept /\ HandoffsKept
  BY <1>1, SupQuiet
<1>3. PICK u \in Seq(Orders) :
         /\ toCore' = toCore \/ toCore' = toCore \o u
         /\ ~Has(u, {"capture"})
         /\ \A m \in Dispatch!Elements(u) : /\ m.kind \notin {"dispatch_ack", "claim_ack"}
                                            /\ m.kind = "update_result" => m.item \in results
         /\ granted' \/ ~Has(u, Opening)
         /\ ~Has(u, Opening) \/ transition' \in {"none", "validating", "reporting"}
  BY <1>1, ResumeQuiet, Silence
<1>4. toCore' \in Seq(Orders) /\ AcksKept /\ ResultsKept
  BY <1>1, <1>3, CoreQuiet
<1>5. granted => granted'
  BY DEF Dispatch!Resume
<1>6. Dispatch!NoJob \in Jobs /\ Dispatch!NoJob.stage = "none" /\ Dispatch!NoJob.token = 0
      /\ Dispatch!NoJob.kind = "none"
  BY Bounds DEF Dispatch!NoJob, Jobs
<1>7. Typed'
  <2>1. transition' \in Dispatch!Transitions /\ granted' \in BOOLEAN
    BY <1>1 DEF Typed, SupTyped, CoreTyped, CountTyped, Dispatch!Transitions, Dispatch!Resume
  <2>2. QED
    BY <1>1, <1>2, <1>4, <1>6, <2>1 DEF Typed, SupTyped, CoreTyped, MailTyped, CountTyped
<1>8. PromptInv'
  BY <1>1, <1>2, <1>4, PromptFrame
<1>9. ResultInv'
  <2>1. 0 <= claims
    BY <1>1, Bounds DEF Typed, CountTyped
  <2>2. QED
    BY <1>1, <1>2, <1>4, <1>6, <2>1, ResultFrame DEF ResultInv, Records
<1>10. RecoveryInv'
  BY <1>1, <1>3, <1>5, RecoveryFrame
<1>11. UpdateInv'
  <2>1. ~lost' => ~lost /\ Kept' /\ alive' = alive
    BY <1>1, KeptStays DEF UpdateInv
  <2>2. transition' \in {"none", "validating", "reporting"} \/ (transition' = transition
        /\ ~Has(u, Opening))
    BY <1>3
  <2>3. QED
    BY <1>1, <1>2, <1>3, <2>1, <2>2, UpdateFrame
<1>12. QED
  BY <1>7, <1>8, <1>9, <1>10, <1>11 DEF DispatchInv

LEMMA QuietSteps ==
  ASSUME DispatchInv,
         \/ Dispatch!RequestUpdate \/ Dispatch!RequestResume \/ Dispatch!SendIdle \/ Dispatch!FinishPrompt \/ Dispatch!FailReview
         \/ Dispatch!OnIdle \/ Dispatch!OnResumeQueue \/ Dispatch!NoticeCrash \/ Dispatch!Reject \/ Dispatch!DrainFails
  PROVE  DispatchInv'
<1> USE DEF Dispatch!supVars, Dispatch!streamVars, Dispatch!bridgeVars, Dispatch!workVars,
       Dispatch!countVars, Dispatch!histVars, Dispatch!taskUnchanged
<1>1. CASE Dispatch!RequestUpdate
  BY <1>1, QuietStep DEF Dispatch!RequestUpdate, Dispatch!SendToSup
<1>2. CASE Dispatch!RequestResume
  BY <1>2, QuietStep DEF Dispatch!RequestResume, Dispatch!SendToSup
<1>3. CASE Dispatch!SendIdle
  BY <1>3, QuietStep DEF Dispatch!SendIdle, Dispatch!SendToSup
<1>4. CASE Dispatch!FinishPrompt
  BY <1>4, QuietStep DEF Dispatch!FinishPrompt
<1>5. CASE Dispatch!FailReview
  BY <1>5, QuietStep DEF Dispatch!FailReview
<1>6. CASE Dispatch!OnIdle
  BY <1>6, QuietStep DEF Dispatch!OnIdle, Dispatch!Receive
<1>7. CASE Dispatch!OnResumeQueue
  BY <1>7, QuietStep DEF Dispatch!OnResumeQueue, Dispatch!Receive
<1>8. CASE Dispatch!NoticeCrash
  BY <1>8, QuietStep DEF Dispatch!NoticeCrash
<1>9. CASE Dispatch!Reject
  BY <1>9, QuietStep DEF Dispatch!Reject
<1>10. CASE Dispatch!DrainFails
  BY <1>10, QuietStep DEF Dispatch!DrainFails
<1>11. QED
  BY <1>1, <1>2, <1>3, <1>4, <1>5, <1>6, <1>7, <1>8, <1>9, <1>10

LEMMA Longer ==
  ASSUME NEW q \in Seq(Dispatch!Prompts), NEW p \in Dispatch!Prompts
  PROVE  /\ Append(q, p) \in Seq(Dispatch!Prompts)
         /\ \A x : Within(x, Append(q, p)) <=> Within(x, q) \/ x = p
<1>1. /\ Append(q, p) \in Seq(Dispatch!Prompts) /\ Len(Append(q, p)) = Len(q) + 1 /\ Len(q) \in Nat
      /\ \A i \in 1..Len(q) : Append(q, p)[i] = q[i] 
      /\ Append(q, p)[Len(q) + 1] = p
  OBVIOUS
<1>2. ASSUME NEW x, Within(x, Append(q, p)) PROVE Within(x, q) \/ x = p
  BY <1>1, <1>2 DEF Within
<1>3. ASSUME NEW x, Within(x, q) PROVE Within(x, Append(q, p))
  <2>1. PICK i \in 1..Len(q) : q[i] = x
    BY <1>3 DEF Within
  <2>2. i \in 1..Len(Append(q, p)) /\ Append(q, p)[i] = x
    BY <1>1, <2>1
  <2>3. QED
    BY <2>2 DEF Within
<1>4. Within(p, Append(q, p))
  <2>1. Len(q) + 1 \in 1..Len(Append(q, p))
    BY <1>1
  <2>2. QED
    BY <1>1, <2>1 DEF Within
<1>5. QED
  BY <1>1, <1>2, <1>3, <1>4

LEMMA CleanLonger ==
  ASSUME NEW q \in Seq(Dispatch!Prompts), NEW t \in Nat, NEW r \in [Dispatch!Prompts -> Nat], t + 1 \in Dispatch!Prompts,
         CleanIn(q, t, r), r[t + 1] = 0
  PROVE  CleanIn(q, t + 1, r) /\ CleanIn(Append(q, t + 1), t + 1, r)
<1>1. /\ Len(Append(q, t + 1)) = Len(q) + 1 /\ Len(q) \in Nat
      /\ \A i \in 1..Len(q) : Append(q, t + 1)[i] = q[i] /\ q[i] \in Nat
      /\ Append(q, t + 1)[Len(q) + 1] = t + 1
  <2>1. /\ Len(q) \in Nat /\ \A i \in 1..Len(q) : q[i] \in Dispatch!Prompts
        /\ \A p \in Dispatch!Prompts : /\ Len(Append(q, p)) = Len(q) + 1
                                       /\ \A i \in 1..Len(q) : Append(q, p)[i] = q[i]
                                       /\ Append(q, p)[Len(q) + 1] = p
    OBVIOUS
  <2>2. QED
    BY <2>1, Bounds
<1>2. CleanIn(q, t + 1, r)
  BY <1>1 DEF CleanIn
<1>3. ASSUME NEW i \in 1..(Len(q) + 1)
      PROVE  /\ Append(q, t + 1)[i] <= t + 1 /\ r[Append(q, t + 1)[i]] = 0
             /\ \A j \in 1..(Len(q) + 1) : Append(q, t + 1)[j] = Append(q, t + 1)[i] => j = i
  <2>1. CASE i \in 1..Len(q)
    <3>1. q[i] <= t /\ r[q[i]] = 0 /\ \A j \in 1..Len(q) : q[j] = q[i] => j = i
      BY <2>1 DEF CleanIn
    <3>2. QED
      BY <1>1, <2>1, <3>1
  <2>2. CASE i = Len(q) + 1
    <3>1. \A j \in 1..Len(q) : q[j] <= t
      BY DEF CleanIn
    <3>2. QED
      BY <1>1, <2>2, <3>1
  <2>3. QED
    BY <1>1, <2>1, <2>2
<1>4. QED
  BY <1>1, <1>2, <1>3 DEF CleanIn

LEMMA CleanTail ==
  ASSUME NEW q \in Seq(Dispatch!Prompts), q # <<>>, NEW t, NEW r, CleanIn(q, t, r)
  PROVE  /\ Tail(q) \in Seq(Dispatch!Prompts) /\ Head(q) \in Dispatch!Prompts
         /\ CleanIn(Tail(q), t, r) /\ Head(q) <= t /\ r[Head(q)] = 0
         /\ ~Within(Head(q), Tail(q))
         /\ \A x : Within(x, q) <=> x = Head(q) \/ Within(x, Tail(q))
<1>1. /\ Tail(q) \in Seq(Dispatch!Prompts) /\ Len(Tail(q)) = Len(q) - 1 /\ Len(Tail(q)) \in Nat
      /\ 1 \in 1..Len(q) /\ q[1] = Head(q) /\ Head(q) \in Dispatch!Prompts
      /\ \A i \in 1..Len(Tail(q)) : i + 1 \in 1..Len(q) /\ Tail(q)[i] = q[i + 1]
      /\ \A i \in 1..Len(q) : i # 1 => i - 1 \in 1..Len(Tail(q)) /\ Tail(q)[i - 1] = q[i]
  BY Tailed
<1>2. CleanIn(Tail(q), t, r)
  <2> SUFFICES ASSUME NEW i \in 1..Len(Tail(q)), NEW j \in 1..Len(Tail(q)), Tail(q)[j] = Tail(q)[i]
               PROVE  Tail(q)[i] <= t /\ r[Tail(q)[i]] = 0 /\ j = i
    <3>1. \A i \in 1..Len(Tail(q)) : Tail(q)[i] <= t /\ r[Tail(q)[i]] = 0
      BY <1>1 DEF CleanIn
    <3>2. QED
      BY <3>1 DEF CleanIn
  <2>1. i + 1 \in 1..Len(q) /\ j + 1 \in 1..Len(q) /\ q[j + 1] = q[i + 1] /\ Tail(q)[i] = q[i + 1]
    BY <1>1
  <2>2. QED
    BY <2>1 DEF CleanIn
<1>3. Head(q) <= t /\ r[Head(q)] = 0 /\ \A j \in 1..Len(q) : q[j] = Head(q) => j = 1
  BY <1>1 DEF CleanIn
<1>4. ~Within(Head(q), Tail(q))
  <2> SUFFICES ASSUME NEW i \in 1..Len(Tail(q)), Tail(q)[i] = Head(q) PROVE FALSE
    BY DEF Within
  <2>1. i + 1 \in 1..Len(q) /\ q[i + 1] = Head(q)
    BY <1>1
  <2>2. i + 1 = 1
    BY <1>3, <2>1
  <2>3. QED
    BY <2>2
<1>5. ASSUME NEW x, Within(x, Tail(q)) PROVE Within(x, q)
  BY <1>1, <1>5 DEF Within
<1>6. ASSUME NEW x, Within(x, q), x # Head(q) PROVE Within(x, Tail(q))
  <2>1. PICK i \in 1..Len(q) : q[i] = x
    BY <1>6 DEF Within
  <2>2. i # 1
    BY <1>1, <1>6, <2>1
  <2>3. QED
    BY <1>1, <2>1, <2>2 DEF Within
<1>7. Within(Head(q), q)
  BY <1>1 DEF Within
<1>8. QED
  BY <1>1, <1>2, <1>3, <1>4, <1>5, <1>6, <1>7

LEMMA CleanRun ==
  ASSUME NEW q \in Seq(Dispatch!Prompts), NEW t, NEW r \in [Dispatch!Prompts -> Nat], NEW p \in Dispatch!Prompts,
         CleanIn(q, t, r), ~Within(p, q)
  PROVE  CleanIn(q, t, [r EXCEPT ![p] = @ + 1])
<1>1. \A i \in 1..Len(q) : q[i] # p
  BY DEF Within
<1>2. \A i \in 1..Len(q) : [r EXCEPT ![p] = @ + 1][q[i]] = r[q[i]]
  BY <1>1
<1>3. QED
  BY <1>2 DEF CleanIn

-----------------------------------------------------------------------------
(* The queue and the transition task.                                      *)

LEMMA EnterStep == ASSUME DispatchInv, Dispatch!Enter PROVE DispatchInv'
<1> USE DEF Dispatch!supVars, Dispatch!streamVars, Dispatch!bridgeVars, Dispatch!histVars
<1>1. Typed /\ PromptInv /\ ResultInv /\ RecoveryInv /\ UpdateInv
  BY DEF DispatchInv
<1>2. /\ alive /\ ~frozen /\ ui.kind = "free" /\ typed < MaxPrompts /\ typed' = typed + 1
      /\ queue' = Append(queue, typed + 1)
         /\ UNCHANGED <<Dispatch!supVars, manifest, Dispatch!streamVars>>
      /\ UNCHANGED <<Dispatch!bridgeVars, inbox, ui, job, made, claims, Dispatch!histVars>>
  BY DEF Dispatch!Enter, Dispatch!Reads
<1>3. toSup' \in Seq(Letters) /\ StatesKept /\ ClaimsKept /\ HandoffsKept
  BY <1>1, <1>2, SupQuiet
<1>4. toCore' \in Seq(Orders) /\ AcksKept /\ ResultsKept
  BY <1>1, <1>2, CoreSilent
<1>5. typed \in Nat /\ typed + 1 \in Dispatch!Prompts /\ ran \in [Dispatch!Prompts -> Nat]
      /\ queue \in Seq(Dispatch!Prompts)
  BY <1>1, <1>2, Bounds DEF Typed, CountTyped, CoreTyped, Dispatch!Prompts
<1>6. /\ queue' \in Seq(Dispatch!Prompts)
      /\ \A x : Within(x, Append(queue, typed + 1)) <=> Within(x, queue) \/ x = typed + 1
  BY <1>2, <1>5, Longer
<1>7. Typed'
  <2>1. typed' \in 0..MaxPrompts
    BY <1>2, <1>5, Bounds
  <2>2. QED
    BY <1>1, <1>2, <1>3, <1>4, <1>6, <2>1 DEF Typed, SupTyped, CoreTyped, MailTyped, CountTyped
<1>8. PromptInv'
  <2>1. ran[typed + 1] = 0
    BY <1>1, <1>5 DEF PromptInv, Runs
  <2>2. \A q \in Seq(Dispatch!Prompts) : Clean(q) => CleanIn(q, typed + 1, ran)
    BY <1>5, <2>1, CleanLonger DEF Clean
  <2>3. CleanIn(queue', typed + 1, ran)
    BY <1>1, <1>2, <1>5, <2>1, CleanLonger DEF PromptInv, Queues, Clean
  <2>4. last \in Seq(Dispatch!Prompts) /\ manifest.queue \in Seq(Dispatch!Prompts)
        /\ ui.queued \in Seq(Dispatch!Prompts)
    BY <1>1 DEF Typed, SupTyped, CoreTyped, Manifests, Asks
  <2>5. \A m \in Dispatch!Elements(toSup) : m.queue \in Seq(Dispatch!Prompts)
    <3>1. Dispatch!Elements(toSup) \subseteq Letters
      BY <1>1, StreamFacts DEF Typed, MailTyped
    <3>2. QED
      BY <3>1 DEF Letters, Dispatch!Mail
  <2>6. Queues'
    BY <1>1, <1>2, <2>2, <2>3, <2>4, <2>5 DEF PromptInv, Queues, Clean
  <2>7. InHand'
    BY <1>1, <1>2 DEF PromptInv, InHand
  <2>8. IntentTravels' /\ AckTravels'
    BY <1>1, <1>2 DEF PromptInv, IntentTravels, AckTravels
  <2>9. Runs'
    BY <1>1, <1>2, <1>5 DEF PromptInv, Runs, Dispatch!Prompts
  <2>10. QED
    BY <2>6, <2>7, <2>8, <2>9 DEF PromptInv
<1>9. ResultInv'
  BY <1>1, <1>2, <1>3, <1>4, ResultFrame DEF ResultInv, Records
<1>10. RecoveryInv'
  BY <1>1, <1>2, RecoverySilent
<1>11. UpdateInv'
  <2>1. Kept => Kept'
    BY <1>2, <1>5, <1>6 DEF Kept
  <2>2. QED
    BY <1>1, <1>2, <1>3, <2>1, UpdateSilent DEF UpdateInv
<1>12. QED
  BY <1>7, <1>8, <1>9, <1>10, <1>11 DEF DispatchInv

(* A state sent by an idle frontend.                                       *)
LEMMA StateSent ==
  ASSUME Typed, PromptInv, NEW k \in {"checkpoint", "handoff"}, ui.kind = "free",
         toSup' = Append(toSup, Dispatch!Message(k, 0, 0, queue)),
         UNCHANGED <<queue, ui, typed, ran, last, manifest, toCore>>
  PROVE  /\ toSup' \in Seq(Letters) /\ ClaimsKept /\ PromptInv'
         /\ Dispatch!Message(k, 0, 0, queue) \in Letters
         /\ Dispatch!Message(k, 0, 0, queue).kind = k
            /\ Dispatch!Message(k, 0, 0, queue).queue = queue
         /\ Dispatch!Elements(toSup') = Dispatch!Elements(toSup) \cup {Dispatch!Message(k, 0, 0, queue)}
         /\ \A X, K : NoneAfter(toSup, X, K) /\ (\A x \in Dispatch!Elements(toSup) : x \notin X)
                         => NoneAfter(toSup', X, K)
<1> DEFINE m == Dispatch!Message(k, 0, 0, queue)
<1>1. m \in Letters /\ m.kind = k /\ m.queue = queue
  <2>1. k \in Dispatch!ToSupKinds /\ 0 \in Nat /\ 0 \in 0..MaxClaims
        /\ queue \in Seq(Dispatch!Prompts)
    BY Bounds DEF Dispatch!ToSupKinds, Typed, CoreTyped
  <2>2. QED
    BY <2>1, Written
<1> HIDE DEF m
<1>2. /\ toSup' \in Seq(Letters) /\ Dispatch!Elements(toSup') = Dispatch!Elements(toSup) \cup {m}
      /\ \A X, K : NoneAfter(toSup, X, K)
         /\ (m.kind \in K => \A x \in Dispatch!Elements(toSup) : x \notin X)
                      => NoneAfter(toSup', X, K)
  BY <1>1, Says DEF m
<1>3. ClaimsKept
  BY <1>1, <1>2 DEF ClaimsKept
<1>4. ~Has(toSup, {"dispatch"}) /\ ~Has(toCore, {"dispatch_ack"}) /\ ~ui.acked
  BY DEF PromptInv, IntentTravels, AckTravels
<1>5. Queues'
  BY <1>1, <1>2 DEF PromptInv, Queues, Clean, StateKinds
<1>6. IntentTravels'
  <2>1. \A x \in Dispatch!Elements(toSup) : x \notin Intents
    BY <1>4 DEF Has, Intents
  <2>2. NoneAfter(toSup', Intents, StateKinds)
    BY <1>2, <2>1 DEF PromptInv, IntentTravels
  <2>3. ~Has(toSup', {"dispatch"})
    BY <1>1, <1>2, <1>4 DEF Has
  <2>4. QED
    BY <2>2, <2>3 DEF IntentTravels
<1>7. AckTravels'
  BY <1>4 DEF PromptInv, AckTravels
<1>8. PromptInv'
  BY <1>5, <1>6, <1>7 DEF PromptInv, InHand, Within, Runs
<1>9. QED
  BY <1>1, <1>2, <1>3, <1>8 DEF m

LEMMA CheckpointStep == ASSUME DispatchInv, Dispatch!Checkpoint PROVE DispatchInv'
<1> USE DEF Dispatch!supVars, Dispatch!bridgeVars, Dispatch!workVars, Dispatch!countVars,
       Dispatch!histVars
<1>1. Typed /\ PromptInv /\ ResultInv /\ RecoveryInv /\ UpdateInv
  BY DEF DispatchInv
<1>2. /\ ~draining /\ ui.kind = "free"
         /\ toSup' = Append(toSup, Dispatch!Message("checkpoint", 0, 0, queue))
      /\ UNCHANGED <<Dispatch!supVars, manifest, toCore, Dispatch!bridgeVars, Dispatch!workVars,
                     Dispatch!countVars, Dispatch!histVars>>
  BY DEF Dispatch!Checkpoint, Dispatch!Quiescent, Dispatch!SendToSup
<1>3. /\ toSup' \in Seq(Letters) /\ ClaimsKept /\ PromptInv'
      /\ Dispatch!Message("checkpoint", 0, 0, queue).kind = "checkpoint"
      /\ Dispatch!Elements(toSup') = Dispatch!Elements(toSup) \cup {Dispatch!Message("checkpoint", 0, 0, queue)}
  BY <1>1, <1>2, StateSent
<1>4. toCore' \in Seq(Orders) /\ AcksKept /\ ResultsKept
  BY <1>1, <1>2, CoreSilent
<1>5. Typed'
  BY <1>1, <1>2, <1>3, <1>4 DEF Typed, SupTyped, CoreTyped, MailTyped, CountTyped
<1>6. ResultInv'
  BY <1>1, <1>2, <1>3, <1>4, ResultFrame DEF ResultInv, Records
<1>7. RecoveryInv'
  BY <1>1, <1>2, RecoverySilent
<1>8. UpdateInv'
  <2>1. CASE lost
    BY <1>2, <2>1 DEF UpdateInv
  <2>2. CASE ~lost
    <3>1. ~frozen /\ Kept
      BY <1>1, <1>2, <2>2 DEF UpdateInv, CaptureDrained
    <3>2. HandoffsKept
      BY <1>3, <3>1 DEF HandoffsKept
    <3>3. QED
      BY <1>1, <1>2, <3>1, <3>2, KeptStays, UpdateSilent
  <2>3. QED
    BY <2>1, <2>2
<1>9. QED
  BY <1>3, <1>5, <1>6, <1>7, <1>8 DEF DispatchInv

LEMMA SendHandoffStep == ASSUME DispatchInv, Dispatch!SendHandoff PROVE DispatchInv'
<1> USE DEF Dispatch!supVars, Dispatch!workVars, Dispatch!countVars, Dispatch!histVars
<1>1. Typed /\ PromptInv /\ ResultInv /\ RecoveryInv /\ UpdateInv
  BY DEF DispatchInv
<1> DEFINE m == Dispatch!Message("handoff", 0, 0, queue)
<1>2. /\ frozen /\ ~handoffSaved /\ ui.kind = "free" /\ handoffSaved' = TRUE
      /\ toSup' = Append(toSup, m)
      /\ UNCHANGED <<Dispatch!supVars, manifest, toCore, core, alive, active, draining, frozen>>
      /\ UNCHANGED <<Dispatch!workVars, Dispatch!countVars, Dispatch!histVars>>
  BY DEF Dispatch!SendHandoff, Dispatch!SendToSup
<1> HIDE DEF m
<1>3. /\ toSup' \in Seq(Letters) /\ ClaimsKept /\ PromptInv'
      /\ m.kind = "handoff" /\ m.queue = queue
      /\ Dispatch!Elements(toSup') = Dispatch!Elements(toSup) \cup {m}
      /\ \A X, K : NoneAfter(toSup, X, K) /\ (\A x \in Dispatch!Elements(toSup) : x \notin X)
                      => NoneAfter(toSup', X, K)
  BY <1>1, <1>2, StateSent DEF m
<1>4. toCore' \in Seq(Orders) /\ AcksKept /\ ResultsKept
  BY <1>1, <1>2, CoreSilent
<1>5. Typed'
  BY <1>1, <1>2, <1>3, <1>4 DEF Typed, SupTyped, CoreTyped, MailTyped, CountTyped
<1>6. ResultInv'
  BY <1>1, <1>2, <1>3, <1>4, ResultFrame DEF ResultInv, Records
<1>7. RecoveryInv'
  BY <1>1, <1>2, RecoverySilent
<1>8. UpdateInv'
  <2> SUFFICES ASSUME ~lost'
               PROVE  alive' /\ Kept' /\ CaptureDrained' /\ Drained' /\ Capturing' /\ Capture'
    BY DEF UpdateInv
  <2>1. alive /\ Kept /\ CaptureDrained /\ Drained /\ Capturing /\ Capture
    BY <1>1, <1>2 DEF UpdateInv
  <2>2. transition # "draining" /\ ~(transition = "activating" \/ (transition = "capturing"
        /\ captured))
    BY <1>2, <2>1 DEF Drained, Unanswering, Capture
  <2>3. Drained' /\ Capture'
    BY <1>2, <2>2 DEF Drained, Capture
  <2>4. Kept' /\ CaptureDrained' /\ alive'
    BY <1>2, <2>1, KeptStays DEF CaptureDrained
  <2>5. Covers(queue)
    <3>1. ui.queued = <<>>
      BY <1>1, <1>2 DEF PromptInv, InHand, Dispatch!NoUi
    <3>2. \A p : ~Within(p, ui.queued)
      BY <3>1 DEF Within
    <3>3. QED
      BY <2>1, <3>2 DEF Kept, Covers
  <2>6. ASSUME transition = "capturing", ~captured PROVE Still' /\ HandoffComes'
    <3>1. Still /\ HandoffComes
      BY <1>2, <2>1, <2>6 DEF Capturing, Unanswering
    <3>2. Still'
      BY <1>2, <3>1 DEF Still
    <3>3. \A x \in Dispatch!Elements(toSup) : x.kind # "handoff"
      BY <1>2, <3>1 DEF HandoffComes
    <3>4. NoneAfter(toSup', Handoffs, StateKinds)
      BY <1>3, <3>1, <3>3 DEF HandoffComes, Handoffs
    <3>5. \A x \in Dispatch!Elements(toSup') : x.kind = "handoff" => x.queue = queue
      BY <1>3, <3>3
    <3>6. HandoffComes'
      BY <1>2, <2>5, <3>4, <3>5 DEF HandoffComes, Covers
    <3>7. QED
      BY <3>2, <3>6
  <2>7. Capturing'
    BY <1>2, <2>6 DEF Capturing
  <2>8. QED
    BY <2>3, <2>4, <2>7
<1>9. QED
  BY <1>3, <1>5, <1>6, <1>7, <1>8 DEF DispatchInv

LEMMA UndrainedStep == ASSUME DispatchInv, Dispatch!Undrained PROVE DispatchInv'
<1> USE DEF Dispatch!supVars, Dispatch!streamVars, Dispatch!workVars, Dispatch!countVars,
       Dispatch!histVars
<1>1. Typed /\ PromptInv /\ ResultInv /\ RecoveryInv /\ UpdateInv
  BY DEF DispatchInv
<1>2. /\ ~draining /\ handoffSaved' = FALSE
      /\ UNCHANGED <<Dispatch!supVars, manifest, Dispatch!streamVars, core, alive, active,
                     draining, frozen>>
      /\ UNCHANGED <<Dispatch!workVars, Dispatch!countVars, Dispatch!histVars>>
  BY DEF Dispatch!Undrained
<1>3. toSup' \in Seq(Letters) /\ StatesKept /\ ClaimsKept
  BY <1>1, <1>2, SupQuiet
<1>4. toCore' \in Seq(Orders) /\ AcksKept /\ ResultsKept
  BY <1>1, <1>2, CoreSilent
<1>5. Typed'
  BY <1>1, <1>2, <1>3, <1>4 DEF Typed, SupTyped, CoreTyped, MailTyped, CountTyped
<1>6. PromptInv' /\ ResultInv'
  BY <1>1, <1>2, <1>3, <1>4, PromptFrame, ResultFrame DEF ResultInv, Records
<1>7. RecoveryInv'
  BY <1>1, <1>2, RecoverySilent
<1>8. UpdateInv'
  <2> SUFFICES ASSUME ~lost'
               PROVE  alive' /\ Kept' /\ CaptureDrained' /\ Drained' /\ Capturing' /\ Capture'
    BY DEF UpdateInv
  <2>1. alive /\ Kept /\ CaptureDrained /\ Drained /\ Capturing /\ Capture /\ ~frozen
    BY <1>1, <1>2 DEF UpdateInv, CaptureDrained
  <2>2. alive' /\ Kept' /\ CaptureDrained'
    BY <1>2, <2>1, KeptStays DEF CaptureDrained
  <2>3. Drained' /\ Capturing' /\ Capture'
    BY <1>2, <2>1 DEF Drained, Capturing, Capture, Still, Unanswering
  <2>4. QED
    BY <2>2, <2>3
<1>9. QED
  BY <1>5, <1>6, <1>7, <1>8 DEF DispatchInv

LEMMA CrashStep == ASSUME DispatchInv, Dispatch!Crash PROVE DispatchInv'
<1> USE DEF Dispatch!streamVars, Dispatch!workVars, Dispatch!countVars
<1>1. Typed /\ PromptInv /\ ResultInv /\ RecoveryInv /\ UpdateInv
  BY DEF DispatchInv
<1>2. /\ alive' = FALSE /\ lost' = TRUE /\ captured' = TRUE
      /\ UNCHANGED <<last, results, claimed, transition, manifest, Dispatch!streamVars, core,
                     active>>
      /\ UNCHANGED <<draining, frozen, handoffSaved, Dispatch!workVars, Dispatch!countVars, ran,
                     callers, granted>>
  BY DEF Dispatch!Crash
<1>3. toSup' \in Seq(Letters) /\ StatesKept /\ ClaimsKept
  BY <1>1, <1>2, SupQuiet
<1>4. toCore' \in Seq(Orders) /\ AcksKept /\ ResultsKept
  BY <1>1, <1>2, CoreSilent
<1>5. Typed'
  BY <1>1, <1>2, <1>3, <1>4 DEF Typed, SupTyped, CoreTyped, MailTyped, CountTyped
<1>6. PromptInv' /\ ResultInv'
  BY <1>1, <1>2, <1>3, <1>4, PromptFrame, ResultFrame DEF ResultInv, Records
<1>7. RecoveryInv' /\ UpdateInv'
  BY <1>1, <1>2, RecoverySilent DEF UpdateInv
<1>8. QED
  BY <1>5, <1>6, <1>7 DEF DispatchInv

(* The supervisor orders a core to drain, or to send its state.            *)
LEMMA OrderGiven ==
  ASSUME Typed, PromptInv, ResultInv, RecoveryInv, NEW k \in {"drain", "capture"},
         toCore' = toCore \o <<Dispatch!Signal(k)>>,
         transition' \in Dispatch!Transitions, captured' \in BOOLEAN, lost' \in BOOLEAN,
         UNCHANGED <<last, results, claimed, manifest, toSup, Dispatch!bridgeVars,
                     Dispatch!workVars,
                     Dispatch!countVars, ran, callers, granted>>
  PROVE  /\ Typed' /\ PromptInv' /\ ResultInv' /\ RecoveryInv'
         /\ Dispatch!Signal(k) \in Orders /\ Dispatch!Signal(k).kind = k
         /\ Dispatch!Elements(toCore') = Dispatch!Elements(toCore) \cup {Dispatch!Signal(k)}
<1> USE DEF Dispatch!bridgeVars, Dispatch!workVars, Dispatch!countVars
<1>1. Dispatch!Signal(k) \in Orders /\ Dispatch!Signal(k).kind = k
  BY Signalled DEF Dispatch!ToCoreKinds
<1>2. /\ <<Dispatch!Signal(k)>> \in Seq(Orders)
         /\ Dispatch!Elements(<<Dispatch!Signal(k)>>) = {Dispatch!Signal(k)}
      /\ ~Has(<<Dispatch!Signal(k)>>, Opening)
  BY <1>1, OneOrder DEF Opening
<1>3. toCore' \in Seq(Orders) /\ AcksKept /\ ResultsKept
  BY <1>1, <1>2, CoreQuiet
<1>4. Dispatch!Elements(toCore') = Dispatch!Elements(toCore) \cup {Dispatch!Signal(k)}
  BY <1>2, Tells
<1>5. toSup' \in Seq(Letters) /\ StatesKept /\ ClaimsKept
  BY SupQuiet
<1>6. Typed'
  BY <1>3, <1>5 DEF Typed, SupTyped, CoreTyped, MailTyped, CountTyped
<1>7. PromptInv' /\ ResultInv'
  BY <1>3, <1>5, PromptFrame, ResultFrame DEF ResultInv, Records
<1>8. RecoveryInv'
  BY <1>2, RecoveryFrame
<1>9. QED
  BY <1>1, <1>4, <1>6, <1>7, <1>8

LEMMA StartDrainStep == ASSUME DispatchInv, Dispatch!StartDrain PROVE DispatchInv'
<1>1. Typed /\ PromptInv /\ ResultInv /\ RecoveryInv /\ UpdateInv
  BY DEF DispatchInv
<1>2. /\ transition' = "draining" /\ captured' = FALSE /\ lost' = (lost \/ Dispatch!Unanswered)
      /\ toCore' = toCore \o <<Dispatch!Signal("drain")>>
      /\ UNCHANGED <<last, results, claimed, manifest, toSup, Dispatch!bridgeVars,
                     Dispatch!workVars,
                     Dispatch!countVars, ran, callers, granted>>
  BY DEF Dispatch!StartDrain, Dispatch!SendToCore
<1>3. transition' \in Dispatch!Transitions /\ captured' \in BOOLEAN /\ lost' \in BOOLEAN
  BY <1>1, <1>2 DEF Dispatch!Transitions, Typed, CountTyped
<1>4. /\ Typed' /\ PromptInv' /\ ResultInv' /\ RecoveryInv'
      /\ Dispatch!Signal("drain") \in Orders /\ Dispatch!Signal("drain").kind = "drain"
      /\ Dispatch!Elements(toCore') = Dispatch!Elements(toCore) \cup {Dispatch!Signal("drain")}
  BY <1>1, <1>2, <1>3, OrderGiven
<1>5. UpdateInv'
  <2> USE DEF Dispatch!bridgeVars, Dispatch!workVars, Dispatch!countVars
  <2> SUFFICES ASSUME ~lost'
               PROVE  alive' /\ Kept' /\ CaptureDrained' /\ Drained' /\ Capturing' /\ Capture'
    BY DEF UpdateInv
  <2>1. alive /\ Kept /\ CaptureDrained /\ ~Dispatch!Unanswered /\ toCore \in Seq(Orders)
    BY <1>1, <1>2 DEF UpdateInv, Typed, MailTyped
  <2>2. DrainLast(toCore', draining')
    BY <1>2, <1>4, <2>1, DrainOrdered
  <2>3. ~Has(toCore', {"capture"}) /\ Unanswering'
    BY <1>2, <1>4, <2>1 DEF Dispatch!Unanswered, Unanswering, Has
  <2>4. CaptureDrained'
    <3>1. \A i \in 1..Len(toCore') : toCore'[i].kind # "capture"
      BY <1>4, <2>3, HasNone DEF Typed, MailTyped
    <3>2. QED
      BY <1>2, <2>1, <3>1 DEF CaptureDrained, CapturesDrained
  <2>5. QED
    BY <1>2, <2>1, <2>2, <2>3, <2>4, KeptStays DEF Drained, Capturing, Capture
<1>6. QED
  BY <1>4, <1>5 DEF DispatchInv

LEMMA CoreIdleStep == ASSUME DispatchInv, Dispatch!CoreIdle PROVE DispatchInv'
<1>1. Typed /\ PromptInv /\ ResultInv /\ RecoveryInv /\ UpdateInv
  BY DEF DispatchInv
<1>2. /\ transition = "draining" /\ transition' = "capturing"
      /\ UNCHANGED <<captured, lost>> /\ toCore' = toCore \o <<Dispatch!Signal("capture")>>
      /\ UNCHANGED <<last, results, claimed, manifest, toSup, Dispatch!bridgeVars,
                     Dispatch!workVars,
                     Dispatch!countVars, ran, callers, granted>>
  BY DEF Dispatch!CoreIdle, Dispatch!SendToCore, Dispatch!taskUnchanged, Dispatch!countVars
<1>3. transition' \in Dispatch!Transitions /\ captured' \in BOOLEAN /\ lost' \in BOOLEAN
  BY <1>1, <1>2 DEF Dispatch!Transitions, Typed, SupTyped, CountTyped
<1>4. /\ Typed' /\ PromptInv' /\ ResultInv' /\ RecoveryInv'
      /\ Dispatch!Signal("capture") \in Orders /\ Dispatch!Signal("capture").kind = "capture"
  BY <1>1, <1>2, <1>3, OrderGiven
<1>5. UpdateInv'
  <2> USE DEF Dispatch!bridgeVars, Dispatch!workVars, Dispatch!countVars
  <2> SUFFICES ASSUME ~lost'
               PROVE  alive' /\ Kept' /\ CaptureDrained' /\ Drained' /\ Capturing' /\ Capture'
    BY DEF UpdateInv
  <2>1. alive /\ Kept /\ CaptureDrained /\ Drained /\ toCore \in Seq(Orders)
    BY <1>1, <1>2 DEF UpdateInv, Typed, MailTyped
  <2>2. ~captured /\ ~Has(toCore, {"capture"}) /\ Unanswering /\ DrainLast(toCore, draining)
    BY <1>2, <2>1 DEF Drained
  <2>3. CaptureDrained'
    BY <1>2, <1>4, <2>1, <2>2, CaptureOrdered DEF CaptureDrained
  <2>4. OneCapture(toCore') /\ Unanswering'
    BY <1>2, <1>4, <2>1, <2>2, OneCaptureOrdered DEF Unanswering
  <2>5. QED
    BY <1>2, <2>1, <2>2, <2>3, <2>4, KeptStays DEF Drained, Capturing, Capture
<1>6. QED
  BY <1>4, <1>5 DEF DispatchInv

LEMMA RecordCaptureStep == ASSUME DispatchInv, Dispatch!RecordCapture PROVE DispatchInv'
<1> USE DEF Dispatch!bridgeVars, Dispatch!workVars, Dispatch!taskUnchanged
<1>1. Typed /\ PromptInv /\ ResultInv /\ RecoveryInv /\ UpdateInv
  BY DEF DispatchInv
<1>2. CASE Dispatch!RecordFails /\ transition' = "reporting" /\ Dispatch!Resume
      /\ UNCHANGED <<idle, captured, Dispatch!taskUnchanged>>
  BY <1>2, QuietStep DEF Dispatch!RecordFails
<1>3. CASE /\ transition = "capturing" /\ captured /\ Dispatch!Recorded(last, results, claimed)
           /\ transition' = "activating" /\ UNCHANGED <<toCore, granted>>
           /\ UNCHANGED <<idle, captured, Dispatch!taskUnchanged>>
  <2>1. /\ manifest'.queue = last /\ manifest'.results = results /\ manifest'.claimed = claimed
        /\ manifest' \in Manifests
    BY <1>1, <1>3 DEF Dispatch!Recorded, Typed, SupTyped, Manifests
  <2>2. toSup' \in Seq(Letters) /\ StatesKept /\ ClaimsKept
    BY <1>1, <1>3, SupQuiet
  <2>3. toCore' \in Seq(Orders) /\ AcksKept /\ ResultsKept
    BY <1>1, <1>3, CoreSilent
  <2>4. Typed'
    BY <1>1, <1>3, <2>1, <2>2, <2>3
       DEF Typed, SupTyped, CoreTyped, MailTyped, CountTyped, Dispatch!Transitions
  <2>5. PromptInv' /\ ResultInv'
    BY <1>1, <1>3, <2>1, <2>2, <2>3, PromptFrame, ResultFrame DEF ResultInv
  <2>6. RecoveryInv'
    BY <1>1, <1>3, RecoverySilent
  <2>7. UpdateInv'
    <3> SUFFICES ASSUME ~lost'
                 PROVE  alive' /\ Kept' /\ CaptureDrained' /\ Drained' /\ Capturing' /\ Capture'
      BY DEF UpdateInv
    <3>1. alive /\ Kept /\ CaptureDrained /\ Capture
      BY <1>1, <1>3 DEF UpdateInv
    <3>2. Still /\ handoffSaved /\ Covers(last) /\ ~Has(toSup, StateKinds)
      BY <1>3, <3>1 DEF Capture
    <3>3. Capture'
      BY <1>3, <3>2 DEF Capture, Still, Covers, Within
    <3>4. QED
      BY <1>3, <3>1, <3>3, KeptStays DEF CaptureDrained, Drained, Capturing
  <2>8. QED
    BY <2>4, <2>5, <2>6, <2>7 DEF DispatchInv
<1>4. QED
  BY <1>2, <1>3 DEF Dispatch!RecordCapture

-----------------------------------------------------------------------------
(* An intent is sent and acknowledged, and work starts.                    *)

LEMMA CleanStill ==
  ASSUME Typed, PromptInv, typed' = typed \/ (typed < MaxPrompts /\ typed' = typed + 1),
         NEW q \in Seq(Dispatch!Prompts), Clean(q)
  PROVE  CleanIn(q, typed', ran)
<1>1. CASE typed' = typed
  BY <1>1 DEF Clean
<1>2. CASE typed < MaxPrompts /\ typed' = typed + 1
  <2>1. typed \in Nat /\ typed + 1 \in Dispatch!Prompts /\ ran \in [Dispatch!Prompts -> Nat]
    BY <1>2, Bounds DEF Typed, CountTyped, Dispatch!Prompts
  <2>2. ran[typed + 1] = 0
    BY <2>1 DEF PromptInv, Runs
  <2>3. CleanIn(q, typed, ran)
    BY DEF Clean
  <2>4. QED
    BY <1>2, <2>1, <2>2, <2>3, CleanLonger
<1>3. QED
  BY <1>1, <1>2

LEMMA LetterQueues == ASSUME Typed PROVE \A m \in Dispatch!Elements(toSup) : m.queue \in Seq(Dispatch!Prompts)
<1>1. Dispatch!Elements(toSup) \subseteq Letters
  BY StreamFacts DEF Typed, MailTyped
<1>2. QED
  BY <1>1 DEF Letters, Dispatch!Mail

\* back is the queue with the item in hand, rest the queue without it.
LEMMA Asked ==
  ASSUME DispatchInv, NEW kind \in {"prompt", "review"}, NEW item \in Nat,
         NEW rest \in Seq(Dispatch!Prompts), NEW back \in Seq(Dispatch!Prompts), Dispatch!AskDispatch(kind, item, rest, back),
         typed' = typed \/ (typed < MaxPrompts /\ typed' = typed + 1 /\ Within(typed + 1, back)),
         CleanIn(rest, typed', ran), CleanIn(back, typed', ran),
         kind = "prompt" => item \in 1..typed' /\ ran[item] = 0 /\ ~Within(item, rest),
         kind = "review" => item \in inbox,
         \A p : Within(p, back) <=> Within(p, rest) \/ (kind = "prompt" /\ p = item),
         \A p : Within(p, queue) => Within(p, back)
  PROVE  DispatchInv'
<1> USE DEF Dispatch!supVars, Dispatch!bridgeVars, Dispatch!histVars
<1>1. Typed /\ PromptInv /\ ResultInv /\ RecoveryInv /\ UpdateInv
  BY DEF DispatchInv
<1> DEFINE m == Dispatch!Message("dispatch", item, 0, rest)
<1>2. /\ ui.kind = "free" /\ ~frozen /\ queue' = rest /\ toSup' = Append(toSup, m)
      /\ ui' = [kind |-> kind, item |-> item, queued |-> back, acked |-> FALSE]
      /\ UNCHANGED <<Dispatch!supVars, manifest, toCore, Dispatch!bridgeVars, inbox, job, made,
                     claims, Dispatch!histVars>>
  BY DEF Dispatch!AskDispatch, Dispatch!Paused, Dispatch!Quiescent, Dispatch!SendToSup
<1>3. m \in Letters /\ m.kind = "dispatch" /\ m.queue = rest
  <2>1. "dispatch" \in Dispatch!ToSupKinds /\ 0 \in 0..MaxClaims
    BY Bounds DEF Dispatch!ToSupKinds
  <2>2. QED
    BY <2>1, Written
<1> HIDE DEF m
<1>4. /\ toSup' \in Seq(Letters) /\ Dispatch!Elements(toSup') = Dispatch!Elements(toSup) \cup {m}
      /\ \A X, K : NoneAfter(toSup, X, K)
         /\ (m.kind \in K => \A x \in Dispatch!Elements(toSup) : x \notin X)
                      => NoneAfter(toSup', X, K)
  BY <1>1, <1>2, <1>3, Says
<1>5. toCore' \in Seq(Orders) /\ AcksKept /\ ResultsKept
  BY <1>1, <1>2, CoreSilent
<1>6. ClaimsKept
  BY <1>3, <1>4 DEF ClaimsKept
<1>7. typed \in Nat /\ typed' \in 0..MaxPrompts
  BY <1>1, Bounds DEF Typed, CountTyped
<1>8. ui' \in Asks
  BY <1>2 DEF Asks
<1>9. Typed'
  BY <1>1, <1>2, <1>4, <1>5, <1>7, <1>8 DEF Typed, SupTyped, CoreTyped, MailTyped, CountTyped
<1>10. ~Has(toSup, {"dispatch"}) /\ ~Has(toCore, {"dispatch_ack"})
  BY <1>1, <1>2 DEF PromptInv, IntentTravels, AckTravels
<1>11. PromptInv'
  <2>1. \A q \in Seq(Dispatch!Prompts) : Clean(q) => CleanIn(q, typed', ran)
    BY <1>1, CleanStill
  <2>2. last \in Seq(Dispatch!Prompts) /\ manifest.queue \in Seq(Dispatch!Prompts)
    BY <1>1 DEF Typed, SupTyped, Manifests
  <2>3. CleanIn(last, typed', ran) /\ CleanIn(manifest.queue, typed', ran)
    BY <1>1, <2>1, <2>2 DEF PromptInv, Queues
  <2>4. \A x \in Dispatch!Elements(toSup') :
           CleanIn(x.queue, typed', ran) /\ (x.kind \notin StateKinds => x.queue = <<>>)
    <3>1. \A x \in Dispatch!Elements(toSup) :
             CleanIn(x.queue, typed', ran) /\ (x.kind \notin StateKinds => x.queue = <<>>)
      BY <1>1, <2>1, LetterQueues DEF PromptInv, Queues
    <3>2. QED
      BY <1>3, <1>4, <3>1 DEF StateKinds
  <2>5. Queues'
    BY <1>2, <2>3, <2>4 DEF Queues, Clean
  <2>6. InHand'
    BY <1>2 DEF InHand
  <2>7. IntentTravels'
    <3>1. \A x \in Dispatch!Elements(toSup) : x \notin Intents
      BY <1>10 DEF Has, Intents
    <3>2. NoneAfter(toSup', Intents, StateKinds)
      BY <1>1, <1>4, <3>1 DEF PromptInv, IntentTravels
    <3>3. \A x \in Dispatch!Elements(toSup') : x.kind = "dispatch" => x = m
      BY <1>4, <1>10 DEF Has
    <3>4. \A x \in Dispatch!Elements(toSup') :
             x.kind = "dispatch" /\ ui'.kind = "prompt" => ~Within(ui'.item, x.queue)
      BY <1>2, <1>3, <3>3
    <3>5. ui'.kind # "free" /\ ~ui'.acked /\ ~Has(toCore', {"dispatch_ack"})
      BY <1>2, <1>10
    <3>6. QED
      BY <3>2, <3>4, <3>5 DEF IntentTravels, Within
  <2>8. AckTravels'
    BY <1>1, <1>2, <1>10 DEF PromptInv, AckTravels
  <2>9. Runs'
    BY <1>1, <1>2, <1>7, Bounds DEF PromptInv, Runs, Dispatch!Prompts
  <2>10. QED
    BY <2>5, <2>6, <2>7, <2>8, <2>9 DEF PromptInv
<1>12. ResultInv'
  BY <1>1, <1>2, <1>5, <1>6, ResultFrame DEF ResultInv, Records
<1>13. RecoveryInv'
  BY <1>1, <1>2, RecoverySilent
<1>14. UpdateInv'
  <2>1. HandoffsKept
    BY <1>2, <1>3, <1>4 DEF HandoffsKept
  <2>2. Kept => Kept'
    <3> SUFFICES ASSUME Kept PROVE Kept'
      OBVIOUS
    <3>1. \A p : ~Within(p, ui.queued)
      BY <1>1, <1>2 DEF PromptInv, InHand, Dispatch!NoUi, Within
    <3>2. \A p \in 1..typed' : ran'[p] > 0 \/ Within(p, queue') \/ Within(p, ui'.queued)
      <4>1. \A p \in 1..typed : ran[p] > 0 \/ Within(p, back)
        BY <3>1 DEF Kept
      <4>2. \A p \in 1..typed' : p \in 1..typed \/ Within(p, back)
        BY <1>7
      <4>3. QED
        BY <1>2, <4>1, <4>2
    <3>3. QED
      BY <1>2, <3>2 DEF Kept
  <2>3. QED
    BY <1>1, <1>2, <2>1, <2>2, UpdateSilent DEF UpdateInv
<1>15. QED
  BY <1>9, <1>11, <1>12, <1>13, <1>14 DEF DispatchInv

LEMMA AskSteps ==
  ASSUME DispatchInv, Dispatch!Submit \/ Dispatch!TakePrompt \/ Dispatch!TakeReview
  PROVE  DispatchInv'
<1>1. Typed /\ PromptInv /\ Clean(queue) /\ queue \in Seq(Dispatch!Prompts)
  BY DEF DispatchInv, PromptInv, Queues, Typed, CoreTyped
<1>2. CASE Dispatch!Submit
  <2>1. typed < MaxPrompts /\ typed' = typed + 1
    BY <1>2 DEF Dispatch!Submit
  <2>2. typed \in Nat /\ typed + 1 \in Dispatch!Prompts /\ ran \in [Dispatch!Prompts -> Nat]
        /\ typed + 1 \in Nat
    BY <1>1, <2>1, Bounds DEF Typed, CountTyped, Dispatch!Prompts
  <2>3. ran[typed + 1] = 0
    BY <1>1, <2>2 DEF PromptInv, Runs
  <2>4. CleanIn(queue, typed + 1, ran) /\ CleanIn(Append(queue, typed + 1), typed + 1, ran)
    BY <1>1, <2>2, <2>3, CleanLonger DEF Clean
  <2>5. /\ Append(queue, typed + 1) \in Seq(Dispatch!Prompts)
        /\ \A p : Within(p, Append(queue, typed + 1)) <=> Within(p, queue) \/ p = typed + 1
    BY <1>1, <2>2, Longer
  <2>6. ~Within(typed + 1, queue)
    BY <1>1, <2>2 DEF Clean, CleanIn, Within
  <2>7. Dispatch!AskDispatch("prompt", typed + 1, queue, Append(queue, typed + 1))
    BY <1>2 DEF Dispatch!Submit
  <2>8. typed + 1 \in 1..typed'
    BY <2>1, <2>2
  <2>9. QED
    BY <1>1, <2>1, <2>2, <2>3, <2>4, <2>5, <2>6, <2>7, <2>8, Asked
<1>3. CASE Dispatch!TakePrompt
  <2>1. queue # <<>> /\ typed' = typed
        /\ Dispatch!AskDispatch("prompt", Head(queue), Tail(queue), queue)
    BY <1>3 DEF Dispatch!TakePrompt
  <2>2. /\ Tail(queue) \in Seq(Dispatch!Prompts) /\ Head(queue) \in Dispatch!Prompts
        /\ CleanIn(Tail(queue), typed, ran) /\ Head(queue) <= typed /\ ran[Head(queue)] = 0
        /\ ~Within(Head(queue), Tail(queue))
        /\ \A x : Within(x, queue) <=> x = Head(queue) \/ Within(x, Tail(queue))
    BY <1>1, <2>1, CleanTail DEF Clean
  <2>3. Head(queue) \in 1..typed /\ Head(queue) \in Nat
    BY <1>1, <2>2, Bounds DEF Dispatch!Prompts, Typed, CountTyped
  <2>4. QED
    BY <1>1, <2>1, <2>2, <2>3, Asked DEF Clean
<1>4. CASE Dispatch!TakeReview
  <2>1. PICK r \in inbox : Dispatch!AskDispatch("review", r, queue, queue)
    BY <1>4 DEF Dispatch!TakeReview
  <2>2. r \in Nat
    BY <1>1, Bounds DEF Typed, CoreTyped
  <2>3. typed' = typed
    BY <1>4 DEF Dispatch!TakeReview
  <2>4. CleanIn(queue, typed', ran)
    BY <1>1, <2>3 DEF Clean
  <2>5. QED
    BY <1>1, <2>1, <2>2, <2>3, <2>4, Asked
<1>5. QED
  BY <1>2, <1>3, <1>4

LEMMA StartWorkStep == ASSUME DispatchInv, Dispatch!StartWork PROVE DispatchInv'
<1> USE DEF Dispatch!supVars, Dispatch!streamVars, Dispatch!bridgeVars, Dispatch!countVars
<1>1. Typed /\ PromptInv /\ ResultInv /\ RecoveryInv /\ UpdateInv
  BY DEF DispatchInv
<1>2. /\ ui.acked /\ ui' = Dispatch!NoUi
      /\ UNCHANGED <<Dispatch!supVars, manifest, Dispatch!streamVars, Dispatch!bridgeVars,
                     Dispatch!countVars, callers, granted, lost>>
  BY DEF Dispatch!StartWork
<1>3. toSup' \in Seq(Letters) /\ StatesKept /\ ClaimsKept /\ HandoffsKept
  BY <1>1, <1>2, SupQuiet
<1>4. toCore' \in Seq(Orders) /\ AcksKept /\ ResultsKept
  BY <1>1, <1>2, CoreSilent
<1>5. /\ Dispatch!NoUi \in Asks /\ Dispatch!NoUi.kind = "free" /\ Dispatch!NoUi.queued = <<>>
         /\ ~Dispatch!NoUi.acked
      /\ \A p : ~Within(p, Dispatch!NoUi.queued)
  BY DEF Dispatch!NoUi, Asks, Within
<1>6. /\ ui.kind # "free" /\ Settled /\ ~Has(toSup, {"dispatch"}) /\ ~Has(toCore, {"dispatch_ack"})
      /\ ui.queued \in Seq(Dispatch!Prompts) /\ ui.item \in Nat /\ ui \in Asks
  BY <1>1, <1>2 DEF PromptInv, AckTravels, IntentTravels, Typed, CoreTyped, Asks
<1>7. IntentTravels' /\ AckTravels'
  BY <1>1, <1>2, <1>5, <1>6 DEF PromptInv, IntentTravels, AckTravels
<1>8. InHand'
  BY <1>2, <1>5 DEF InHand
<1>9. CASE Dispatch!Paused /\ queue' = ui.queued /\ UNCHANGED <<inbox, job, ran>>
  <2>1. Typed'
    BY <1>1, <1>2, <1>3, <1>4, <1>5, <1>6, <1>9
       DEF Typed, SupTyped, CoreTyped, MailTyped, CountTyped
  <2>2. Queues'
    <3>1. Clean(<<>>)
      BY DEF Clean, CleanIn
    <3>2. QED
      BY <1>1, <1>2, <1>5, <1>9, <3>1 DEF PromptInv, Queues, Clean
  <2>3. PromptInv'
    BY <1>1, <1>2, <1>7, <1>8, <1>9, <2>2 DEF PromptInv, Runs
  <2>4. ResultInv'
    BY <1>1, <1>2, <1>3, <1>4, <1>5, <1>9, ResultFrame DEF ResultInv, Records
  <2>5. RecoveryInv'
    BY <1>1, <1>2, <1>5, <1>9, RecoverySilent
  <2>6. UpdateInv'
    <3>1. Kept => Kept'
      BY <1>2, <1>5, <1>6, <1>9 DEF Kept
    <3>2. QED
      BY <1>1, <1>2, <1>3, <1>9, <3>1, UpdateSilent DEF UpdateInv
  <2>7. QED
    BY <2>1, <2>3, <2>4, <2>5, <2>6 DEF DispatchInv
<1>10. CASE /\ ~Dispatch!Paused /\ queue' = queue
            /\ job' = [Dispatch!NoJob EXCEPT !.kind = ui.kind, !.item = ui.item, !.stage = "started"]
            /\ inbox' = IF ui.kind = "review" THEN inbox \ {ui.item} ELSE inbox
            /\ ran' = IF ui.kind = "prompt" THEN [ran EXCEPT ![ui.item] = @ + 1] ELSE ran
  <2>1. job' = [kind |-> ui.kind, item |-> ui.item, stage |-> "started", token |-> 0]
    BY <1>10 DEF Dispatch!NoJob
  <2>2. job' \in Jobs /\ job'.stage = "started" /\ job'.token = 0 /\ job'.kind = ui.kind
        /\ job'.item = ui.item
    BY <1>6, <2>1, Bounds DEF Jobs, Asks
  <2>3. ran \in [Dispatch!Prompts -> Nat] /\ typed \in 0..MaxPrompts
    BY <1>1 DEF Typed, CountTyped
  <2>4. ui.kind = "prompt" => ui.item \in Dispatch!Prompts /\ ui.item <= typed /\ ran[ui.item] = 0
    BY <1>1, <2>3, Bounds DEF PromptInv, InHand, Dispatch!Prompts
  <2>5. /\ ran \in [Dispatch!Prompts -> Nat] /\ typed \in 0..MaxPrompts
           /\ ran' \in [Dispatch!Prompts -> Nat]
        /\ inbox' \subseteq inbox
    <3>1. inbox' \subseteq inbox
      BY <1>10
    <3>2. \A i \in Dispatch!Prompts : [ran EXCEPT ![i] = @ + 1] \in [Dispatch!Prompts -> Nat]
      BY <2>3
    <3>3. QED
      BY <1>10, <2>3, <2>4, <3>1, <3>2
  <2>6. Typed'
    BY <1>1, <1>2, <1>3, <1>4, <1>5, <1>10, <2>2, <2>5
       DEF Typed, SupTyped, CoreTyped, MailTyped, CountTyped
  <2>7. ASSUME NEW q \in Seq(Dispatch!Prompts), Clean(q), ui.kind = "prompt" => ~Within(ui.item, q)
        PROVE  CleanIn(q, typed, ran')
    <3>1. CASE ui.kind = "prompt"
      BY <1>10, <2>5, <2>4, <2>7, <3>1, CleanRun DEF Clean
    <3>2. CASE ui.kind # "prompt"
      BY <1>10, <2>7, <3>2 DEF Clean
    <3>3. QED
      BY <3>1, <3>2
  <2>8. Queues'
    <3>1. /\ queue \in Seq(Dispatch!Prompts) /\ last \in Seq(Dispatch!Prompts)
             /\ manifest.queue \in Seq(Dispatch!Prompts)
          /\ Clean(queue) /\ Clean(last) /\ Clean(manifest.queue)
      BY <1>1 DEF PromptInv, Queues, Typed, SupTyped, CoreTyped, Manifests
    <3>2. ui.kind = "prompt" => /\ ~Within(ui.item, queue) /\ ~Within(ui.item, last)
                                /\ ~Within(ui.item, manifest.queue)
      BY <1>1, <1>6 DEF PromptInv, InHand, Settled
    <3>3. CleanIn(queue, typed, ran') /\ CleanIn(last, typed, ran')
          /\ CleanIn(manifest.queue, typed, ran')
      BY <2>7, <3>1, <3>2
    <3>4. \A m \in Dispatch!Elements(toSup) : m.queue = <<>> /\ m.kind \notin StateKinds
      BY <1>1, <1>6 DEF PromptInv, Queues, Settled, Has
    <3>5. CleanIn(<<>>, typed, ran')
      BY DEF CleanIn
    <3>6. QED
      BY <1>2, <1>5, <1>10, <3>3, <3>4, <3>5 DEF Queues, Clean
  <2>9. Runs'
    <3>1. \A p \in Dispatch!Prompts : ran'[p] = IF ui.kind = "prompt"
          /\ p = ui.item THEN 1 ELSE ran[p]
      BY <1>10, <2>5, <2>4
    <3>2. \A p \in Dispatch!Prompts : ran[p] <= 1 /\ (p > typed => ran[p] = 0) /\ p \in Nat
      BY <1>1, Bounds DEF PromptInv, Runs
    <3>3. \A p \in Dispatch!Prompts : p > typed => ~(ui.kind = "prompt" /\ p = ui.item)
      BY <2>5, <2>4, <3>2
    <3>4. QED
      BY <1>2, <3>1, <3>2, <3>3 DEF Runs
  <2>10. PromptInv'
    BY <1>7, <1>8, <2>8, <2>9 DEF PromptInv
  <2>11. ResultInv'
    <3>1. 0 <= claims
      BY <1>1, Bounds DEF Typed, CountTyped
    <3>2. QED
      BY <1>1, <1>2, <1>3, <1>4, <1>5, <2>2, <2>5, <3>1, ResultFrame DEF ResultInv, Records
  <2>12. RecoveryInv'
    <3>1. granted
      BY <1>1, <1>2, <1>10 DEF RecoveryInv, Dispatch!Paused
    <3>2. QED
      BY <1>1, <1>2, <1>5, <3>1, RecoverySilent DEF Typed, CountTyped
  <2>13. UpdateInv'
    <3>1. \A p \in Dispatch!Prompts : ran[p] > 0 => ran'[p] > 0
      BY <1>10, <2>5
    <3>2. ui.kind = "prompt" => ran'[ui.item] > 0
      BY <1>10, <2>5, <2>4
    <3>3. \A p \in 1..typed : p \in Dispatch!Prompts
      BY <2>5, Bounds DEF Dispatch!Prompts
    <3>4. Kept => Kept'
      <4> SUFFICES ASSUME Kept, NEW p \in 1..typed PROVE ran'[p] > 0 \/ Within(p, queue)
        BY <1>2, <1>5, <1>10 DEF Kept
      <4>1. ran[p] > 0 \/ Within(p, queue) \/ Within(p, ui.queued)
        BY DEF Kept
      <4>2. Within(p, ui.queued) => Within(p, queue) \/ (ui.kind = "prompt" /\ ui.item = p)
        BY <1>6 DEF Kept
      <4>3. QED
        BY <3>1, <3>2, <3>3, <4>1, <4>2
    <3>5. QED
      BY <1>1, <1>2, <1>3, <3>1, <3>4, UpdateSilent DEF UpdateInv
  <2>14. QED
    BY <2>6, <2>10, <2>11, <2>12, <2>13 DEF DispatchInv
<1>11. QED
  BY <1>9, <1>10 DEF Dispatch!StartWork

(* The supervisor reads a state.                                           *)
LEMMA StateRead ==
  ASSUME Typed, PromptInv, toSup # <<>>, toSup' = Tail(toSup),
         Head(toSup).kind \in {"checkpoint", "handoff"}, last' = Head(toSup).queue,
         manifest'.queue \in {last', manifest.queue},
         UNCHANGED <<queue, ui, typed, ran, toCore>>
  PROVE  PromptInv' /\ last' \in Seq(Dispatch!Prompts)
<1>1. /\ toSup' \in Seq(Letters) /\ Head(toSup) \in Letters
      /\ Dispatch!Elements(toSup) = {Head(toSup)} \cup Dispatch!Elements(toSup')
      /\ \A X, K : NoneAfter(toSup, X, K) => NoneAfter(toSup', X, K)
  BY ReadsLetter
<1>2. Clean(last') /\ last' \in Seq(Dispatch!Prompts)
  BY <1>1, LetterQueues DEF PromptInv, Queues
<1>3. Has(toSup, StateKinds)
  BY <1>1 DEF Has, StateKinds
<1>4. ~Has(toCore, {"dispatch_ack"}) /\ ~ui.acked
  BY <1>3 DEF PromptInv, AckTravels, Settled
<1>5. Queues'
  <2>1. CleanIn(last', typed, ran)
    BY <1>2 DEF Clean
  <2>2. QED
    BY <1>1, <2>1 DEF PromptInv, Queues, Clean
<1>6. IntentTravels'
  <2>1. Has(toSup', {"dispatch"}) => Has(toSup, {"dispatch"})
    BY <1>1 DEF Has
  <2>2. QED
    BY <1>1, <2>1 DEF PromptInv, IntentTravels, Within
<1>7. AckTravels'
  BY <1>4 DEF PromptInv, AckTravels
<1>8. QED
  BY <1>2, <1>5, <1>6, <1>7 DEF PromptInv, InHand, Within, Runs

LEMMA OnStateStep == ASSUME DispatchInv, Dispatch!OnState PROVE DispatchInv'
<1> USE DEF Dispatch!bridgeVars, Dispatch!workVars, Dispatch!histVars
<1>1. Typed /\ PromptInv /\ ResultInv /\ RecoveryInv /\ UpdateInv
  BY DEF DispatchInv
<1>2. /\ toSup # <<>> /\ toSup' = Tail(toSup) /\ Head(toSup).kind \in {"checkpoint", "handoff"}
      /\ last' = Head(toSup).queue /\ captured' = (captured \/ Head(toSup).kind = "handoff")
      /\ manifest' = [queue |-> last', results |-> results, claimed |-> claimed] \/ manifest' = manifest
      /\ UNCHANGED <<results, claimed, transition, toCore, Dispatch!bridgeVars, Dispatch!workVars,
                     typed, made>>
      /\ UNCHANGED <<claims, Dispatch!histVars>>
  BY DEF Dispatch!OnState, Dispatch!Receive, Dispatch!Recorded, Dispatch!RecordFails
<1>3. toSup' \in Seq(Letters) /\ StatesKept /\ ClaimsKept /\ HandoffsKept
  BY <1>1, <1>2, SupQuiet
<1>4. toCore' \in Seq(Orders) /\ AcksKept /\ ResultsKept
  BY <1>1, <1>2, CoreSilent
<1>5. PromptInv' /\ last' \in Seq(Dispatch!Prompts)
  BY <1>1, <1>2, StateRead
<1>6. Typed'
  <2>1. manifest' \in Manifests
    BY <1>1, <1>2, <1>5 DEF Typed, SupTyped, Manifests
  <2>2. QED
    BY <1>1, <1>2, <1>3, <1>4, <1>5, <2>1 DEF Typed, SupTyped, CoreTyped, MailTyped, CountTyped
<1>7. ResultInv'
  <2>1. manifest'.results \in {results, manifest.results} /\ manifest'.claimed = claimed
    BY <1>1, <1>2 DEF ResultInv, Records
  <2>2. QED
    BY <1>1, <1>2, <1>3, <1>4, <2>1, ResultFrame
<1>8. RecoveryInv'
  BY <1>1, <1>2, RecoverySilent
<1>9. UpdateInv'
  <2>1. /\ Head(toSup) \in Letters
           /\ Dispatch!Elements(toSup) = {Head(toSup)} \cup Dispatch!Elements(toSup')
        /\ \A X, K : NoneAfter(toSup, X, K) => /\ NoneAfter(toSup', X, K)
                                               /\ Head(toSup) \in X => ~Has(toSup', K)
    BY <1>1, <1>2, ReadsLetter
  <2>2. Has(toSup, StateKinds)
    BY <1>2, <2>1 DEF Has, StateKinds
  <2>3. CASE Head(toSup).kind = "checkpoint"
    <3>1. captured' = captured
      BY <1>1, <1>2, <2>3 DEF Typed, SupTyped
    <3>2. QED
      BY <1>1, <1>2, <1>3, <2>2, <3>1, KeptStays, UpdateSilent DEF UpdateInv
  <2>4. CASE Head(toSup).kind = "handoff"
    <3> SUFFICES ASSUME ~lost'
                 PROVE  alive' /\ Kept' /\ CaptureDrained' /\ Drained' /\ Capturing' /\ Capture'
      BY DEF UpdateInv
    <3>1. alive /\ Kept /\ CaptureDrained /\ Drained /\ Capturing /\ Capture
      BY <1>1, <1>2 DEF UpdateInv
    <3>2. Has(toSup, {"handoff"}) /\ ~Unanswering
      BY <2>1, <2>4 DEF Has, Unanswering
    <3>3. transition # "draining" /\ transition # "activating"
      BY <2>2, <3>1, <3>2 DEF Drained, Capture
    <3>4. ASSUME transition = "capturing"
          PROVE  Still /\ handoffSaved /\ Covers(Head(toSup).queue) /\ ~Has(toSup', StateKinds)
      <4>1. Still /\ HandoffComes
        BY <2>2, <3>1, <3>2, <3>4 DEF Capturing, Capture
      <4>2. Head(toSup) \in Handoffs /\ Head(toSup) \in Dispatch!Elements(toSup)
        BY <2>1, <2>4 DEF Handoffs
      <4>3. QED
        BY <2>1, <2>4, <4>1, <4>2 DEF HandoffComes
    <3>5. Capture'
      BY <1>2, <3>3, <3>4 DEF Capture, Still, Covers, Within
    <3>6. QED
      BY <1>2, <2>4, <3>1, <3>3, <3>5, KeptStays DEF CaptureDrained, Drained, Capturing
  <2>5. QED
    BY <1>2, <2>3, <2>4
<1>10. QED
  BY <1>5, <1>6, <1>7, <1>8, <1>9 DEF DispatchInv

LEMMA OnDispatchStep == ASSUME DispatchInv, Dispatch!OnDispatch PROVE DispatchInv'
<1> USE DEF Dispatch!bridgeVars, Dispatch!workVars, Dispatch!histVars
<1>1. Typed /\ PromptInv /\ ResultInv /\ RecoveryInv /\ UpdateInv
  BY DEF DispatchInv
<1> DEFINE ack == Dispatch!Signal("dispatch_ack")
<1>2. /\ toSup # <<>> /\ toSup' = Tail(toSup) /\ Head(toSup).kind = "dispatch"
      /\ last' = Head(toSup).queue
      /\ UNCHANGED <<results, claimed, transition, captured, Dispatch!bridgeVars,
                     Dispatch!workVars, typed, made>>
      /\ UNCHANGED <<claims, Dispatch!histVars>>
      /\ \/ /\ manifest' = [queue |-> last', results |-> results, claimed |-> claimed]
            /\ toCore' = toCore \o <<ack>>
         \/ manifest' = manifest /\ toCore' = toCore
  BY DEF Dispatch!OnDispatch, Dispatch!Receive, Dispatch!Recorded, Dispatch!RecordFails,
     Dispatch!SendToCore
<1>3. toSup' \in Seq(Letters) /\ StatesKept /\ ClaimsKept /\ HandoffsKept
  BY <1>1, <1>2, SupQuiet
<1>4. /\ Head(toSup) \in Letters
         /\ Dispatch!Elements(toSup) = {Head(toSup)} \cup Dispatch!Elements(toSup')
      /\ \A X, K : NoneAfter(toSup, X, K) => /\ NoneAfter(toSup', X, K)
                                             /\ Head(toSup) \in X => ~Has(toSup', K)
  BY <1>1, <1>2, ReadsLetter
<1>5. ack \in Orders /\ ack.kind = "dispatch_ack"
  BY Signalled DEF Dispatch!ToCoreKinds
<1> HIDE DEF ack
<1>6. /\ <<ack>> \in Seq(Orders) /\ Dispatch!Elements(<<ack>>) = {ack}
      /\ ~Has(<<ack>>, Opening) /\ ~Has(<<ack>>, {"capture"})
         /\ ~Has(<<ack>>, Opening \cup {"capture"})
  BY <1>5, OneOrder DEF Opening
<1>7. PICK u \in Seq(Orders) : /\ toCore' = toCore \o u \/ toCore' = toCore
                               /\ ~Has(u, Opening) /\ ~Has(u, {"capture"})
  BY <1>2, <1>6
<1>8. ui.kind # "free" /\ ~ui.acked /\ ~Has(toCore, {"dispatch_ack"}) /\ ~Has(toSup', StateKinds)
  <2>1. Has(toSup, {"dispatch"})
    BY <1>2, <1>4 DEF Has
  <2>2. Head(toSup) \in Intents
    BY <1>2, <1>4 DEF Intents
  <2>3. QED
    BY <1>1, <1>4, <2>1, <2>2 DEF PromptInv, IntentTravels
<1>9. /\ toCore' \in Seq(Orders)
         /\ Dispatch!Elements(toCore') \subseteq Dispatch!Elements(toCore) \cup {ack}
      /\ NoneAfter(toCore', Receipts, {"dispatch_ack"})
  <2>1. toCore \in Seq(Orders) /\ NoneAfter(toCore, Receipts, {"dispatch_ack"})
    BY <1>1 DEF Typed, MailTyped, PromptInv, AckTravels
  <2>2. NoneAfter(<<ack>>, Receipts, {"dispatch_ack"})
    BY NoneAfterSmall
  <2>3. ~\E m \in Dispatch!Elements(toCore) : m \in Receipts
    BY <1>8 DEF Has, Receipts
  <2>4. NoneAfter(toCore \o <<ack>>, Receipts, {"dispatch_ack"})
    BY <1>6, <2>1, <2>2, <2>3, NoneAfterJoined
  <2>5. toCore \o <<ack>> \in Seq(Orders)
        /\ Dispatch!Elements(toCore \o <<ack>>) = Dispatch!Elements(toCore) \cup {ack}
    <3>1. \A x \in Seq(Orders) : /\ toCore \o x \in Seq(Orders)
                                 /\ Dispatch!Elements(toCore \o x) = Dispatch!Elements(toCore) \cup Dispatch!Elements(x)
      BY <2>1, Joined
    <3>2. QED
      BY <1>6, <3>1
  <2>6. QED
    BY <1>2, <2>1, <2>4, <2>5
<1>10. Clean(last') /\ last' \in Seq(Dispatch!Prompts)
  BY <1>1, <1>2, <1>4, LetterQueues DEF PromptInv, Queues
<1>11. Typed'
  <2>1. manifest' \in Manifests
    BY <1>1, <1>2, <1>10 DEF Typed, SupTyped, Manifests
  <2>2. QED
    BY <1>1, <1>2, <1>3, <1>9, <1>10, <2>1 DEF Typed, SupTyped, CoreTyped, MailTyped, CountTyped
<1>12. PromptInv'
  <2>1. Queues'
    <3>1. CleanIn(last', typed, ran)
      BY <1>10 DEF Clean
    <3>2. manifest'.queue \in {last', manifest.queue}
      BY <1>2
    <3>3. QED
      BY <1>1, <1>2, <1>4, <3>1, <3>2 DEF PromptInv, Queues, Clean
  <2>2. IntentTravels'
    <3>1. ~Has(toSup', {"dispatch"})
      BY <1>8 DEF Has, StateKinds
    <3>2. QED
      BY <1>1, <1>4, <3>1 DEF PromptInv, IntentTravels, Has
  <2>3. AckTravels'
    <3>1. CASE toCore' = toCore
      BY <1>1, <1>2, <1>8, <3>1 DEF PromptInv, AckTravels
    <3>2. CASE manifest' = [queue |-> last', results |-> results, claimed |-> claimed]
      <4>1. ui.kind = "prompt" => ~Within(ui.item, last')
        BY <1>1, <1>2, <1>4 DEF PromptInv, IntentTravels
      <4>2. Settled'
        BY <1>2, <1>8, <3>2, <4>1 DEF Settled, Within
      <4>3. QED
        BY <1>2, <1>8, <1>9, <4>2 DEF AckTravels
    <3>3. QED
      BY <1>2, <3>1, <3>2
  <2>4. QED
    BY <1>1, <1>2, <2>1, <2>2, <2>3 DEF PromptInv, InHand, Within, Runs
<1>13. ResultInv'
  <2>1. manifest'.results \in {results, manifest.results} /\ manifest'.claimed = claimed
    BY <1>1, <1>2 DEF ResultInv, Records
  <2>2. ResultsKept
    BY <1>5, <1>9 DEF ResultsKept
  <2>3. QED
    BY <1>1, <1>2, <1>3, <2>1, <2>2, ResultFrame
<1>14. RecoveryInv'
  BY <1>1, <1>2, <1>7, RecoveryFrame
<1>15. UpdateInv'
  <2>1. Has(toSup, StateKinds)
    BY <1>2, <1>4 DEF Has, StateKinds
  <2>2. QED
    BY <1>1, <1>2, <1>3, <1>7, <2>1, KeptStays, UpdateFrame DEF UpdateInv
<1>16. QED
  BY <1>11, <1>12, <1>13, <1>14, <1>15 DEF DispatchInv

-----------------------------------------------------------------------------
(* The core reads an order.                                                *)

\* Poll, variable by variable.
LEMMA PollDoes ==
  ASSUME Typed, Dispatch!Poll
  PROVE  /\ toCore # <<>> /\ toCore' = Tail(toCore)
         /\ draining' \in BOOLEAN /\ frozen' \in BOOLEAN /\ active' \in BOOLEAN
         /\ draining' <=> After(Head(toCore), draining)
         /\ frozen' <=> \/ Head(toCore).kind = "capture"
                        \/ frozen /\ Head(toCore).kind \notin Opening
         /\ inbox' = IF Head(toCore).kind = "update_result" THEN inbox \cup {Head(toCore).item}
                     ELSE inbox
         /\ ui' \in Asks /\ ui'.kind = ui.kind /\ ui'.item = ui.item /\ ui'.queued = ui.queued
         /\ ui'.acked <=> (ui.acked \/ Head(toCore).kind = "dispatch_ack")
         /\ Head(toCore).kind # "dispatch_ack" => ui' = ui
         /\ UNCHANGED <<Dispatch!supVars, manifest, toSup, core, alive, handoffSaved, queue, typed,
                        made>>
         /\ UNCHANGED <<claims, ran, granted, lost>>
<1> USE DEF Dispatch!countVars
<1> DEFINE m == Head(toCore)
<1>1. /\ toCore # <<>> /\ toCore' = Tail(toCore)
      /\ active' = (active \/ m.kind \in {"activate", "continue"})
      /\ draining' = CASE m.kind = "drain" -> TRUE
                       [] m.kind \in {"activate", "continue"} -> FALSE
                       [] OTHER -> draining
      /\ frozen' = CASE m.kind = "capture" -> TRUE
                     [] m.kind \in {"activate", "continue"} -> FALSE
                     [] OTHER -> frozen
      /\ inbox' = IF m.kind = "update_result" THEN inbox \cup {m.item} ELSE inbox
      /\ ui' = IF m.kind = "dispatch_ack" THEN [ui EXCEPT !.acked = TRUE] ELSE ui
      /\ UNCHANGED <<Dispatch!supVars, manifest, toSup, core, alive, handoffSaved, queue, typed,
                     made>>
      /\ UNCHANGED <<claims, ran, granted, lost>>
  BY DEF Dispatch!Poll
<1>2. draining \in BOOLEAN /\ frozen \in BOOLEAN /\ active \in BOOLEAN /\ ui \in Asks
  BY DEF Typed, CoreTyped
<1> HIDE DEF m
<1>3. /\ draining' \in BOOLEAN /\ frozen' \in BOOLEAN /\ active' \in BOOLEAN
      /\ draining' <=> After(m, draining)
      /\ frozen' <=> m.kind = "capture" \/ (frozen /\ m.kind \notin Opening)
  <2>1. CASE m.kind = "drain"
    BY <1>1, <1>2, <2>1 DEF After, Opening
  <2>2. CASE m.kind \in {"activate", "continue"}
    BY <1>1, <1>2, <2>2 DEF After, Opening
  <2>3. CASE m.kind = "capture"
    BY <1>1, <1>2, <2>3 DEF After, Opening
  <2>4. CASE m.kind \notin {"drain", "activate", "continue", "capture"}
    BY <1>1, <1>2, <2>4 DEF After, Opening
  <2>5. QED
    BY <2>1, <2>2, <2>3, <2>4
<1>4. /\ ui' \in Asks /\ ui'.kind = ui.kind /\ ui'.item = ui.item /\ ui'.queued = ui.queued
      /\ ui'.acked <=> (ui.acked \/ m.kind = "dispatch_ack")
      /\ m.kind # "dispatch_ack" => ui' = ui
  <2>1. /\ [ui EXCEPT !.acked = TRUE] \in Asks /\ [ui EXCEPT !.acked = TRUE].kind = ui.kind
        /\ [ui EXCEPT !.acked = TRUE].item = ui.item
        /\ [ui EXCEPT !.acked = TRUE].queued = ui.queued
        /\ [ui EXCEPT !.acked = TRUE].acked = TRUE
    BY <1>2 DEF Asks
  <2>2. QED
    BY <1>1, <1>2, <2>1
<1>5. QED
  BY <1>1, <1>3, <1>4 DEF m

\* A receipt that the job in hand waits for.
Receipt  == /\ Head(toCore).kind = "claim_ack" /\ job.stage = "claiming"
            /\ job.token = Head(toCore).token
Accepted == Receipt /\ Head(toCore).item # 0

LEMMA PollJob ==
  ASSUME Typed, Dispatch!Poll
  PROVE  /\ Accepted => /\ job' \in Jobs /\ job'.kind = job.kind /\ job'.item = job.item
                        /\ job'.stage = "calling" /\ job'.token = job.token
                        /\ callers' = [callers EXCEPT ![Head(toCore).item] = @ \cup {core}]
         /\ ~Accepted => /\ callers' = callers
                         /\ job' = IF Receipt THEN Dispatch!NoJob ELSE job
<1>1. job \in Jobs
  BY DEF Typed, CoreTyped
<1>2. /\ job' = IF Accepted THEN [job EXCEPT !.stage = "calling"]
                ELSE IF Receipt THEN Dispatch!NoJob ELSE job
      /\ callers' = IF Accepted THEN [callers EXCEPT ![Head(toCore).item] = @ \cup {core}]
                    ELSE callers
  BY DEF Dispatch!Poll, Accepted, Receipt
<1>3. /\ [job EXCEPT !.stage = "calling"] \in Jobs
      /\ [job EXCEPT !.stage = "calling"].kind = job.kind
      /\ [job EXCEPT !.stage = "calling"].item = job.item
      /\ [job EXCEPT !.stage = "calling"].stage = "calling"
      /\ [job EXCEPT !.stage = "calling"].token = job.token
  BY <1>1 DEF Jobs
<1>4. QED
  BY <1>2, <1>3

LEMMA PollPrompt == ASSUME Typed, PromptInv, Dispatch!Poll PROVE PromptInv'
<1> USE DEF Dispatch!supVars
<1>1. /\ toCore' \in Seq(Orders)
         /\ Dispatch!Elements(toCore) = {Head(toCore)} \cup Dispatch!Elements(toCore')
      /\ NoneAfter(toCore', Receipts, {"dispatch_ack"})
      /\ Head(toCore).kind = "dispatch_ack" => ~Has(toCore', {"dispatch_ack"})
  BY PollDoes, ReadsOrder DEF PromptInv, AckTravels
<1>2. Has(toCore', {"dispatch_ack"}) => Has(toCore, {"dispatch_ack"})
  BY <1>1 DEF Has
<1>3. Head(toCore).kind = "dispatch_ack" => Has(toCore, {"dispatch_ack"})
  BY <1>1 DEF Has
<1>4. Queues'
  BY PollDoes DEF PromptInv, Queues, Clean
<1>5. InHand'
  <2>1. Head(toCore).kind = "dispatch_ack" => ui.kind # "free"
    BY <1>3 DEF PromptInv, AckTravels
  <2>2. QED
    BY <2>1, PollDoes DEF PromptInv, InHand
<1>6. Settled => Settled'
  BY PollDoes DEF Settled, Within
<1>7. IntentTravels'
  BY <1>2, <1>3, PollDoes DEF PromptInv, IntentTravels, Within
<1>8. AckTravels'
  BY <1>1, <1>2, <1>3, <1>6, PollDoes DEF PromptInv, AckTravels
<1>9. QED
  BY <1>4, <1>5, <1>7, <1>8, PollDoes DEF PromptInv, Runs

LEMMA PollResult == ASSUME Typed, ResultInv, Dispatch!Poll PROVE ResultInv'
<1> USE DEF Dispatch!supVars
<1> DEFINE m == Head(toCore)
<1>1. Dispatch!Elements(toCore) = {m} \cup Dispatch!Elements(toCore') /\ m \in Orders
      /\ m \in Dispatch!Elements(toCore)
  BY PollDoes, ReadsOrder
<1>2. /\ m.kind = "update_result" => m.item \in Dispatch!Results
      /\ m.kind = "claim_ack" => m.item \in Dispatch!Results \cup {0} /\ m.token \in 1..claims
      /\ Accepted => (m.item = job.item /\ Held(job.item))
  BY <1>1 DEF ResultInv, Items, ReceiptTravels, Accepted, Receipt
<1>3. Accepted => /\ job.kind = "review" /\ job.item \in Dispatch!Results /\ job.item \in claimed
                  /\ job.item \notin results /\ job.item <= made
                  /\ callers[job.item] \subseteq {core}
  <2> SUFFICES ASSUME Accepted
               PROVE  /\ job.kind = "review" /\ job.item \in Dispatch!Results /\ job.item \in claimed
                      /\ job.item \notin results /\ job.item <= made
                      /\ callers[job.item] \subseteq {core}
    OBVIOUS
  <2>1. job.kind = "review" /\ job.item \in Dispatch!Results /\ job.item \in claimed
    BY <1>2 DEF ResultInv, Items, Held, Accepted, Receipt
  <2>2. job.item \notin results /\ job.item <= made
    BY <2>1 DEF ResultInv, Records
  <2>3. Mentioned(job.item)
    BY <2>1 DEF Mentioned
  <2>4. QED
    BY <2>1, <2>2, <2>3 DEF ResultInv, Delivered
<1>4. Dispatch!NoJob.kind = "none" /\ Dispatch!NoJob.stage = "none" /\ Dispatch!NoJob.token = 0
  BY DEF Dispatch!NoJob
<1>5. /\ job'.kind \in {job.kind, "none"}
      /\ job'.kind = "review" => job'.item = job.item
      /\ job'.stage = "claiming" => job' = job
      /\ job'.stage = "calling" => job' = job \/ Accepted
      /\ job'.token <= claims
  <2>1. job.token <= claims /\ 0 <= claims
    BY Bounds DEF ResultInv, Typed, CountTyped
  <2>2. CASE Accepted
    BY <2>1, <2>2, PollJob
  <2>3. CASE ~Accepted
    BY <1>4, <2>1, <2>3, PollJob
  <2>4. QED
    BY <2>2, <2>3
<1> HIDE DEF m
<1>6. Items'
  <2>1. job'.stage \in {"claiming", "calling"} => job'.kind = "review"
    BY <1>2, <1>3, <1>5, PollJob DEF ResultInv, Items
  <2>2. QED
    BY <1>1, <1>5, <2>1, PollDoes DEF ResultInv, Items
<1>7. Records'
  BY PollDoes DEF ResultInv, Records
<1>8. \A r \in Dispatch!Results : Mentioned(r)' => Mentioned(r)
  <2>1. \A r : r \in inbox' => r \in inbox \/ (m.kind = "update_result" /\ m.item = r)
    BY PollDoes DEF m
  <2>2. \A r : job'.kind = "review" /\ job'.item = r => job.kind = "review" /\ job.item = r
    BY <1>5
  <2>3. ui'.kind = ui.kind /\ ui'.item = ui.item /\ toSup' = toSup
    BY PollDoes
  <2>4. QED
    BY <1>1, <2>1, <2>2, <2>3 DEF Mentioned
<1>9. Delivered'
  <2>1. CASE Accepted
    <3>1. callers' = [callers EXCEPT ![job.item] = @ \cup {core}] /\ core \in Nat
          /\ core \in 0..core
      BY <1>2, <2>1, PollJob DEF m, Typed, CoreTyped
    <3>2. callers'[job.item] \subseteq {core}
      BY <1>3, <2>1, <3>1 DEF Typed, CountTyped
    <3>3. \A r \in Dispatch!Results : r # job.item => callers'[r] = callers[r]
      BY <3>1 DEF Typed, CountTyped
    <3>4. job.item \in Nat /\ made \in Nat /\ ~(job.item > made)
      <4>1. job.item \in Nat /\ made \in Nat
        <5>1. made \in 0..MaxResults
          BY DEF Typed, CountTyped
        <5>2. job.item \in Dispatch!Results
          BY <1>3, <2>1
        <5>3. \A x \in 0..MaxResults : x \in Nat
          BY Bounds
        <5>4. \A x \in Dispatch!Results : x \in Nat
          BY Bounds
        <5>5. QED
          BY <5>1, <5>2, <5>3, <5>4
      <4>2. QED
        BY <1>3, <2>1, <4>1
    <3>5. QED
      BY <1>3, <1>8, <2>1, <3>1, <3>2, <3>3, <3>4, PollDoes DEF ResultInv, Delivered
  <2>2. CASE ~Accepted
    BY <1>8, <2>2, PollJob, PollDoes DEF ResultInv, Delivered
  <2>3. QED
    BY <2>1, <2>2
<1>10. \A r : Held(r)' <=> Held(r)
  BY PollDoes DEF Held, Has
<1>11. ClaimTravels'
  <2>1. job'.stage = "claiming" => Claims(job.token)' = Claims(job.token)
    BY <1>5 DEF Claims
  <2>2. QED
    BY <1>5, <2>1, PollDoes DEF ResultInv, ClaimTravels
<1>12. ReceiptTravels'
  BY <1>1, <1>5, <1>10, PollDoes DEF ResultInv, ReceiptTravels
<1>13. Calling'
  <2>1. Accepted => job'.item = job.item
    BY PollJob
  <2>2. QED
    BY <1>2, <1>5, <1>10, <2>1 DEF ResultInv, Calling
<1>14. QED
  BY <1>5, <1>6, <1>7, <1>9, <1>11, <1>12, <1>13, PollDoes DEF ResultInv

LEMMA PollRecovery == ASSUME Typed, RecoveryInv, Dispatch!Poll PROVE RecoveryInv'
<1> DEFINE m == Head(toCore)
<1> SUFFICES ASSUME ~granted'
             PROVE  /\ job' = Dispatch!NoJob
                    /\ \/ draining' /\ ~Has(toCore', Opening)
                       \/ ~ui'.acked /\ DrainFirst(toCore')
  BY DEF RecoveryInv
<1>1. job = Dispatch!NoJob /\ ((draining /\ ~Has(toCore, Opening)) \/ (~ui.acked
      /\ DrainFirst(toCore)))
  BY PollDoes DEF RecoveryInv
<1>2. job' = Dispatch!NoJob
  BY <1>1, PollJob DEF Accepted, Receipt, Dispatch!NoJob
<1>3. toCore \in Seq(Orders) /\ Dispatch!Elements(toCore) = {m} \cup Dispatch!Elements(toCore')
  BY PollDoes, ReadsOrder DEF Typed, MailTyped
<1>4. CASE draining /\ ~Has(toCore, Opening)
  BY <1>2, <1>3, <1>4, PollDoes DEF Has, After
<1>5. CASE ~ui.acked /\ DrainFirst(toCore)
  BY <1>2, <1>3, <1>5, PollDoes, DrainFirstRead DEF After
<1>6. QED
  BY <1>1, <1>4, <1>5

LEMMA CapturesSame ==
  ASSUME NEW s, NEW d, NEW e, d <=> e, CapturesDrained(s, d)
  PROVE  CapturesDrained(s, e)
<1>1. CASE d
  BY <1>1 DEF CapturesDrained
<1>2. CASE ~d
  BY <1>2 DEF CapturesDrained
<1>3. QED
  BY <1>1, <1>2

LEMMA PollUpdate == ASSUME Typed, UpdateInv, Dispatch!Poll PROVE UpdateInv'
<1> USE DEF Dispatch!supVars
<1> DEFINE m == Head(toCore)
<1> SUFFICES ASSUME ~lost'
             PROVE  alive' /\ Kept' /\ CaptureDrained' /\ Drained' /\ Capturing' /\ Capture'
  BY DEF UpdateInv
<1>1. alive /\ Kept /\ CaptureDrained /\ Drained /\ Capturing /\ Capture
  BY PollDoes DEF UpdateInv
<1>2. /\ toCore \in Seq(Orders) /\ toCore # <<>> /\ toCore' = Tail(toCore)
      /\ Dispatch!Elements(toCore) = {m} \cup Dispatch!Elements(toCore')
  BY PollDoes, ReadsOrder DEF Typed, MailTyped
<1>3. Kept'
  BY <1>1, PollDoes DEF Kept, Within
<1>4. CaptureDrained'
  <2>1. /\ CapturesDrained(toCore', After(m, draining))
        /\ m.kind = "capture" => draining
        /\ frozen => draining
    BY <1>1, <1>2, CapturesRead DEF CaptureDrained
  <2>2. CapturesDrained(toCore', draining')
    BY <2>1, PollDoes, CapturesSame
  <2>3. frozen' => draining'
    <3>1. frozen' => draining /\ (m.kind = "capture" \/ m.kind \notin Opening)
      BY <2>1, PollDoes
    <3>2. draining' <=> m.kind = "drain" \/ (draining /\ m.kind \notin Opening)
      BY PollDoes DEF After
    <3>3. QED
      BY <3>1, <3>2 DEF Opening
  <2>4. QED
    BY <2>2, <2>3 DEF CaptureDrained
<1>5. Drained'
  <2> SUFFICES ASSUME transition = "draining"
               PROVE  ~captured /\ ~Has(toCore', {"capture"}) /\ Unanswering'
                     /\ DrainLast(toCore', draining')
    BY PollDoes DEF Drained
  <2>1. ~captured /\ ~Has(toCore, {"capture"}) /\ Unanswering /\ DrainLast(toCore, draining)
    BY <1>1 DEF Drained
  <2>2. ~Has(toCore', {"capture"}) /\ m.kind # "capture"
    BY <1>2, <2>1 DEF Has
  <2>3. Unanswering'
    BY <2>1, <2>2, PollDoes DEF Unanswering, Has
  <2>4. DrainLast(toCore', After(m, draining))
    BY <1>2, <2>1, DrainLastRead
  <2>5. DrainLast(toCore', draining')
    BY <2>4, PollDoes DEF DrainLast
  <2>6. QED
    BY <2>1, <2>2, <2>3, <2>5
<1>6. Still => Still'
  BY <1>2, PollDoes DEF Still, Has
<1>7. HandoffComes => HandoffComes'
  BY PollDoes DEF HandoffComes, Covers
<1>8. Capturing'
  <2> SUFFICES ASSUME transition = "capturing", ~captured
               PROVE  (OneCapture(toCore') /\ Unanswering') \/ (Still' /\ HandoffComes')
    BY PollDoes DEF Capturing
  <2>1. CASE Still /\ HandoffComes
    BY <1>6, <1>7, <2>1
  <2>2. CASE OneCapture(toCore) /\ Unanswering
    <3>1. /\ m.kind = "capture" => ~Has(toCore', Opening \cup {"capture"})
          /\ m.kind # "capture" => OneCapture(toCore')
      BY <1>2, <2>2, OneCaptureRead
    <3>2. CASE m.kind = "capture"
      <4>1. Still'
        BY <3>1, <3>2, PollDoes DEF Still
      <4>2. \A x \in Dispatch!Elements(toSup) : x.kind # "handoff"
        BY <2>2 DEF Unanswering, Has
      <4>3. NoneAfter(toSup, Handoffs, StateKinds)
        <5>1. \A i \in 1..Len(toSup) : toSup[i] \in Dispatch!Elements(toSup)
          BY StreamFacts DEF Typed, MailTyped, Dispatch!Elements
        <5>2. QED
          BY <4>2, <5>1 DEF NoneAfter, Handoffs
      <4>4. HandoffComes'
        BY <4>2, <4>3, PollDoes DEF HandoffComes
      <4>5. QED
        BY <4>1, <4>4
    <3>3. CASE m.kind # "capture"
      <4>1. Unanswering'
        BY <2>2, <3>3, PollDoes DEF Unanswering, Has
      <4>2. QED
        BY <3>1, <3>3, <4>1
    <3>4. QED
      BY <3>2, <3>3
  <2>3. QED
    BY <1>1, <2>1, <2>2 DEF Capturing
<1>9. Capture'
  BY <1>1, <1>6, PollDoes DEF Capture, Covers, Within, Has
<1>10. QED
  BY <1>1, <1>3, <1>4, <1>5, <1>8, <1>9, PollDoes

LEMMA PollStep == ASSUME DispatchInv, Dispatch!Poll PROVE DispatchInv'
<1>1. Typed /\ PromptInv /\ ResultInv /\ RecoveryInv /\ UpdateInv
  BY DEF DispatchInv
<1>2. Typed'
  <2>1. toCore' \in Seq(Orders)
    BY <1>1, PollDoes, ReadsOrder
  <2>2. inbox' \subseteq Dispatch!Results
    <3>1. Head(toCore) \in Dispatch!Elements(toCore)
      BY <1>1, PollDoes, ReadsOrder
    <3>2. Head(toCore).kind = "update_result" => Head(toCore).item \in Dispatch!Results
      BY <1>1, <3>1 DEF ResultInv, Items
    <3>3. QED
      BY <1>1, <3>2, PollDoes DEF Typed, CoreTyped
  <2>3. job' \in Jobs /\ callers' \in [Dispatch!Results -> SUBSET Nat]
    <3>1. Dispatch!NoJob \in Jobs /\ job \in Jobs
          /\ callers \in [Dispatch!Results -> SUBSET Nat] /\ core \in Nat
      BY <1>1, Bounds DEF Dispatch!NoJob, Jobs, Typed, CoreTyped, CountTyped
    <3>2. \A i : [callers EXCEPT ![i] = @ \cup {core}] \in [Dispatch!Results -> SUBSET Nat]
      BY <3>1
    <3>3. QED
      BY <1>1, <3>1, <3>2, PollJob
  <2>4. QED
    BY <1>1, <2>1, <2>2, <2>3, PollDoes DEF Typed, SupTyped, CoreTyped, MailTyped, CountTyped,
       Dispatch!supVars
<1>3. QED
  BY <1>1, <1>2, PollPrompt, PollResult, PollRecovery, PollUpdate DEF DispatchInv

-----------------------------------------------------------------------------
(* A review claims its result and ends.                                    *)

LEMMA NoneWithout ==
  ASSUME Typed, NEW X, NEW K, \A m \in Dispatch!Elements(toSup) : m \notin X
  PROVE  NoneAfter(toSup, X, K)
<1>1. \A i \in 1..Len(toSup) : toSup[i] \in Dispatch!Elements(toSup)
  BY StreamFacts DEF Typed, MailTyped, Dispatch!Elements
<1>2. QED
  BY <1>1 DEF NoneAfter

LEMMA ReviewSaid ==
  ASSUME Typed, PromptInv, NEW k \in {"claim", "finished"}, NEW i \in Nat, NEW t \in 0..MaxClaims,
         toSup' = Append(toSup, Dispatch!Message(k, i, t, <<>>))
  PROVE  /\ toSup' \in Seq(Letters) /\ StatesKept /\ HandoffsKept
         /\ Dispatch!Message(k, i, t, <<>>) \in Letters
         /\ Dispatch!Message(k, i, t, <<>>).kind = k /\ Dispatch!Message(k, i, t, <<>>).item = i
         /\ Dispatch!Message(k, i, t, <<>>).token = t
         /\ Dispatch!Elements(toSup') = Dispatch!Elements(toSup) \cup {Dispatch!Message(k, i, t, <<>>)}
         /\ \A X, K : NoneAfter(toSup, X, K)
            /\ (k \in K => \A x \in Dispatch!Elements(toSup) : x \notin X)
                         => NoneAfter(toSup', X, K)
<1> DEFINE m == Dispatch!Message(k, i, t, <<>>)
<1>1. m \in Letters /\ m.kind = k /\ m.item = i /\ m.token = t /\ m.queue = <<>>
  <2>1. k \in Dispatch!ToSupKinds /\ <<>> \in Seq(Dispatch!Prompts)
    BY DEF Dispatch!ToSupKinds
  <2>2. QED
    BY <2>1 DEF Dispatch!Message, Letters, Dispatch!Mail
<1> HIDE DEF m
<1>2. /\ toSup' \in Seq(Letters) /\ Dispatch!Elements(toSup') = Dispatch!Elements(toSup) \cup {m}
      /\ \A X, K : NoneAfter(toSup, X, K)
         /\ (m.kind \in K => \A x \in Dispatch!Elements(toSup) : x \notin X)
                      => NoneAfter(toSup', X, K)
  BY <1>1, Says DEF m
<1>3. k \notin StateKinds \cup {"handoff"}
  BY DEF StateKinds
<1>4. StatesKept /\ HandoffsKept
  BY <1>1, <1>2, <1>3 DEF PromptInv, IntentTravels, StatesKept, HandoffsKept
<1>5. QED
  BY <1>1, <1>2, <1>4 DEF m

LEMMA ClaimStep == ASSUME DispatchInv, Dispatch!Claim PROVE DispatchInv'
<1> USE DEF Dispatch!supVars, Dispatch!bridgeVars, Dispatch!histVars
<1>1. Typed /\ PromptInv /\ ResultInv /\ RecoveryInv /\ UpdateInv
  BY DEF DispatchInv
<1> DEFINE m == Dispatch!Message("claim", job.item, claims + 1, <<>>)
<1>2. /\ job.kind = "review" /\ job.stage = "started" /\ claims < MaxClaims /\ claims' = claims + 1
      /\ job' = [job EXCEPT !.stage = "claiming", !.token = claims + 1]
      /\ toSup' = Append(toSup, m)
      /\ UNCHANGED <<Dispatch!supVars, manifest, toCore, Dispatch!bridgeVars, queue, inbox, ui,
                     typed, made, Dispatch!histVars>>
  BY DEF Dispatch!Claim, Dispatch!SendToSup
<1>3. /\ job \in Jobs /\ job.item \in Nat /\ claims \in Nat /\ claims + 1 \in 0..MaxClaims
      /\ claims + 1 \in 1..claims'
  <2>1. job \in Jobs /\ claims \in 0..MaxClaims
    BY <1>1 DEF Typed, CoreTyped, CountTyped
  <2>2. QED
    BY <1>2, <2>1, Bounds DEF Jobs
<1>4. /\ toSup' \in Seq(Letters) /\ StatesKept /\ HandoffsKept
      /\ m \in Letters /\ m.kind = "claim" /\ m.item = job.item /\ m.token = claims + 1
      /\ Dispatch!Elements(toSup') = Dispatch!Elements(toSup) \cup {m}
      /\ \A X, K : NoneAfter(toSup, X, K)
         /\ ("claim" \in K => \A x \in Dispatch!Elements(toSup) : x \notin X)
                         => NoneAfter(toSup', X, K)
  BY <1>1, <1>2, <1>3, ReviewSaid
<1> HIDE DEF m
<1>5. /\ job' \in Jobs /\ job'.kind = "review" /\ job'.item = job.item
      /\ job'.stage = "claiming" /\ job'.token = claims + 1
  BY <1>2, <1>3 DEF Jobs
<1>6. toCore' \in Seq(Orders) /\ AcksKept /\ ResultsKept
  BY <1>1, <1>2, CoreSilent
<1>7. Typed'
  BY <1>1, <1>2, <1>3, <1>4, <1>5, <1>6 DEF Typed, SupTyped, CoreTyped, MailTyped, CountTyped
<1>8. PromptInv'
  BY <1>1, <1>2, <1>4, <1>6, PromptFrame
<1>9. ResultInv'
  <2>1. Items'
    BY <1>1, <1>2, <1>4, <1>5 DEF ResultInv, Items
  <2>2. Records'
    BY <1>1, <1>2 DEF ResultInv, Records
  <2>3. \A r : Mentioned(r)' => Mentioned(r)
    BY <1>2, <1>4, <1>5 DEF Mentioned
  <2>4. Delivered'
    BY <1>1, <1>2, <2>3 DEF ResultInv, Delivered
  <2>5. \A x \in Dispatch!Elements(toSup) : x.kind = "claim" => x.token \in 1..claims
    BY <1>1 DEF ResultInv, ClaimTravels
  <2>6. \A x \in Dispatch!Elements(toSup) : x \notin Claims(claims + 1)
    BY <1>3, <2>5 DEF Claims
  <2>7. NoneAfter(toSup', Claims(claims + 1), {"finished"})
    BY <1>1, <1>4, <2>6, NoneWithout
  <2>8. Claims(job.token)' = Claims(claims + 1)
    BY <1>5 DEF Claims
  <2>9. \A x \in Dispatch!Elements(toSup') : x.kind = "claim" =>
           /\ x.token \in 1..claims'
           /\ x.token = claims + 1 => x.item = job.item
    BY <1>2, <1>3, <1>4, <2>5
  <2>10. ClaimTravels'
    BY <1>5, <2>7, <2>8, <2>9 DEF ClaimTravels
  <2>11. \A x \in Dispatch!Elements(toCore) : x.kind = "claim_ack" => x.token \in 1..claims
    BY <1>1 DEF ResultInv, ReceiptTravels
  <2>12. ReceiptTravels'
    BY <1>2, <1>3, <1>5, <2>11 DEF ReceiptTravels
  <2>13. Calling'
    BY <1>5 DEF Calling
  <2>14. job'.token <= claims'
    BY <1>2, <1>3, <1>5
  <2>15. QED
    BY <2>1, <2>2, <2>4, <2>10, <2>12, <2>13, <2>14 DEF ResultInv
<1>10. RecoveryInv'
  <2>1. granted
    BY <1>1, <1>2 DEF RecoveryInv, Dispatch!NoJob
  <2>2. QED
    BY <1>1, <1>2, <2>1, RecoverySilent
<1>11. UpdateInv'
  BY <1>1, <1>2, <1>4, KeptStays, UpdateSilent DEF UpdateInv
<1>12. QED
  BY <1>7, <1>8, <1>9, <1>10, <1>11 DEF DispatchInv

LEMMA FinishReviewStep == ASSUME DispatchInv, Dispatch!FinishReview PROVE DispatchInv'
<1> USE DEF Dispatch!supVars, Dispatch!bridgeVars, Dispatch!countVars, Dispatch!histVars
<1>1. Typed /\ PromptInv /\ ResultInv /\ RecoveryInv /\ UpdateInv
  BY DEF DispatchInv
<1> DEFINE m == Dispatch!Message("finished", job.item, 0, <<>>)
<1>2. /\ job.stage = "calling" /\ job' = Dispatch!NoJob /\ toSup' = Append(toSup, m)
      /\ UNCHANGED <<Dispatch!supVars, manifest, toCore, Dispatch!bridgeVars, queue, inbox, ui,
                     Dispatch!countVars, Dispatch!histVars>>
  BY DEF Dispatch!FinishReview, Dispatch!SendToSup
<1>3. /\ job.item \in Nat /\ 0 \in 0..MaxClaims /\ claims \in Nat /\ Dispatch!NoJob \in Jobs
      /\ Dispatch!NoJob.kind = "none" /\ Dispatch!NoJob.stage = "none" /\ Dispatch!NoJob.token = 0
  <2>1. job \in Jobs /\ claims \in 0..MaxClaims
    BY <1>1 DEF Typed, CoreTyped, CountTyped
  <2>2. QED
    BY <2>1, Bounds DEF Jobs, Dispatch!NoJob
<1>4. /\ toSup' \in Seq(Letters) /\ StatesKept /\ HandoffsKept
      /\ m.kind = "finished" /\ m.item = job.item
      /\ Dispatch!Elements(toSup') = Dispatch!Elements(toSup) \cup {m}
  BY <1>1, <1>2, <1>3, ReviewSaid
<1> HIDE DEF m
<1>5. toCore' \in Seq(Orders) /\ AcksKept /\ ResultsKept
  BY <1>1, <1>2, CoreSilent
<1>6. Typed'
  BY <1>1, <1>2, <1>3, <1>4, <1>5 DEF Typed, SupTyped, CoreTyped, MailTyped, CountTyped
<1>7. PromptInv'
  BY <1>1, <1>2, <1>4, <1>5, PromptFrame
<1>8. ResultInv'
  <2>1. job.kind = "review" /\ job.item \in Dispatch!Results
    BY <1>1, <1>2 DEF ResultInv, Items
  <2>2. Items'
    BY <1>1, <1>2, <1>3, <1>4, <2>1 DEF ResultInv, Items
  <2>3. Records'
    BY <1>1, <1>2 DEF ResultInv, Records
  <2>4. \A r : Mentioned(r)' => Mentioned(r)
    BY <1>2, <1>3, <1>4, <2>1 DEF Mentioned
  <2>5. Delivered'
    BY <1>1, <1>2, <2>4 DEF ResultInv, Delivered
  <2>6. ClaimTravels' /\ ReceiptTravels' /\ Calling'
    BY <1>1, <1>2, <1>3, <1>4 DEF ResultInv, ClaimTravels, ReceiptTravels, Calling
  <2>7. QED
    BY <1>2, <1>3, <2>2, <2>3, <2>5, <2>6 DEF ResultInv
<1>9. RecoveryInv'
  BY <1>1, <1>2, RecoverySilent
<1>10. UpdateInv'
  BY <1>1, <1>2, <1>4, KeptStays, UpdateSilent DEF UpdateInv
<1>11. QED
  BY <1>6, <1>7, <1>8, <1>9, <1>10 DEF DispatchInv

-----------------------------------------------------------------------------
(* The supervisor answers a claim, and learns that a review has ended.     *)

\* The answer to the claim m.
LEMMA ClaimAnswered ==
  ASSUME Typed, PromptInv, ResultInv, NEW m \in Letters, m \in Dispatch!Elements(toSup), m.kind = "claim",
         NEW a \in BOOLEAN, toCore' = toCore \o <<Dispatch!ClaimAck(m, a)>>
  PROVE  /\ Dispatch!ClaimAck(m, a) \in Orders /\ Dispatch!ClaimAck(m, a).kind = "claim_ack"
         /\ Dispatch!ClaimAck(m, a).token = m.token
         /\ Dispatch!ClaimAck(m, a).item = IF a THEN m.item ELSE 0
         /\ <<Dispatch!ClaimAck(m, a)>> \in Seq(Orders)
         /\ ~Has(<<Dispatch!ClaimAck(m, a)>>, Opening)
            /\ ~Has(<<Dispatch!ClaimAck(m, a)>>, {"capture"})
         /\ toCore' \in Seq(Orders) /\ AcksKept
         /\ Dispatch!Elements(toCore') = Dispatch!Elements(toCore) \cup {Dispatch!ClaimAck(m, a)}
<1>1. m.token \in 0..MaxClaims /\ m.item \in Nat /\ "claim_ack" \in Dispatch!ToCoreKinds
      /\ 0 \in Nat
  BY Bounds DEF Letters, Dispatch!Mail, Dispatch!ToCoreKinds
<1>2. /\ Dispatch!ClaimAck(m, a) \in Orders /\ Dispatch!ClaimAck(m, a).kind = "claim_ack"
      /\ Dispatch!ClaimAck(m, a).token = m.token
      /\ Dispatch!ClaimAck(m, a).item = IF a THEN m.item ELSE 0
  BY <1>1 DEF Dispatch!ClaimAck, Dispatch!Message, Orders, Dispatch!Mail
<1>3. /\ <<Dispatch!ClaimAck(m, a)>> \in Seq(Orders)
         /\ Dispatch!Elements(<<Dispatch!ClaimAck(m, a)>>) = {Dispatch!ClaimAck(m, a)}
      /\ ~Has(<<Dispatch!ClaimAck(m, a)>>, Opening)
         /\ ~Has(<<Dispatch!ClaimAck(m, a)>>, {"capture"})
      /\ ~Has(<<Dispatch!ClaimAck(m, a)>>, {"dispatch_ack"})
  BY <1>2, OneOrder DEF Opening
<1>4. /\ toCore' \in Seq(Orders)
      /\ Dispatch!Elements(toCore') = Dispatch!Elements(toCore) \cup {Dispatch!ClaimAck(m, a)}
      /\ NoneAfter(toCore', Receipts, {"dispatch_ack"})
  BY <1>3, Tells DEF PromptInv, AckTravels
<1>5. AcksKept
  BY <1>2, <1>4 DEF AcksKept
<1>6. QED
  BY <1>2, <1>3, <1>4, <1>5

LEMMA OnClaimStep == ASSUME DispatchInv, Dispatch!OnClaim PROVE DispatchInv'
<1> USE DEF Dispatch!bridgeVars, Dispatch!workVars, Dispatch!histVars
<1>1. Typed /\ PromptInv /\ ResultInv /\ RecoveryInv /\ UpdateInv
  BY DEF DispatchInv
<1> DEFINE m == Head(toSup)
<1>2. /\ toSup # <<>> /\ toSup' = Tail(toSup) /\ m.kind = "claim"
      /\ UNCHANGED <<last, transition, captured, Dispatch!bridgeVars, Dispatch!workVars, typed,
                     made>>
      /\ UNCHANGED <<claims, Dispatch!histVars>>
  BY DEF Dispatch!OnClaim, Dispatch!Receive
<1>3. /\ m \in Letters /\ Dispatch!Elements(toSup) = {m} \cup Dispatch!Elements(toSup')
      /\ \A X, K : NoneAfter(toSup, X, K) => /\ NoneAfter(toSup', X, K)
                                             /\ m \in X => ~Has(toSup', K)
  BY <1>1, <1>2, ReadsLetter
<1>4. m \in Dispatch!Elements(toSup) /\ m.item \in Dispatch!Results /\ m.item # 0
      /\ m.token \in 1..claims
  <2>1. m \in Dispatch!Elements(toSup) /\ m.item \in Dispatch!Results /\ m.token \in 1..claims
    BY <1>1, <1>2, <1>3 DEF ResultInv, Items, ClaimTravels
  <2>2. QED
    BY <2>1 DEF Dispatch!Results
<1>5. PICK a \in BOOLEAN :
         /\ toCore' = toCore \o <<Dispatch!ClaimAck(m, a)>>
         /\ \/ /\ m.item \in results /\ a
               /\ results' = results \ {m.item} /\ claimed' = claimed \cup {m.item}
               /\ manifest' = [queue |-> last, results |-> results', claimed |-> claimed']
            \/ ~a /\ UNCHANGED <<results, claimed, manifest>>
            \/ a /\ m.item \in claimed /\ UNCHANGED <<results, claimed, manifest>>
  <2>1. \/ /\ m.item \in results
           /\ toCore' = toCore \o <<Dispatch!ClaimAck(m, TRUE)>>
           /\ results' = results \ {m.item} /\ claimed' = claimed \cup {m.item}
           /\ manifest' = [queue |-> last, results |-> results', claimed |-> claimed']
        \/ toCore' = toCore \o <<Dispatch!ClaimAck(m, FALSE)>>
           /\ UNCHANGED <<results, claimed, manifest>>
        \/ /\ m.item \in claimed /\ toCore' = toCore \o <<Dispatch!ClaimAck(m, TRUE)>>
           /\ UNCHANGED <<results, claimed, manifest>>
    BY DEF Dispatch!OnClaim, Dispatch!Recorded, Dispatch!RecordFails, Dispatch!SendToCore,
       Dispatch!ClaimAck
  <2>2. CASE toCore' = toCore \o <<Dispatch!ClaimAck(m, FALSE)>>
        /\ UNCHANGED <<results, claimed, manifest>>
    BY <2>2
  <2>3. CASE ~(toCore' = toCore \o <<Dispatch!ClaimAck(m, FALSE)>>
        /\ UNCHANGED <<results, claimed, manifest>>)
    BY <2>1, <2>3
  <2>4. QED
    BY <2>2, <2>3
<1> HIDE DEF m
<1>6. /\ Dispatch!ClaimAck(m, a) \in Orders /\ Dispatch!ClaimAck(m, a).kind = "claim_ack"
      /\ Dispatch!ClaimAck(m, a).token = m.token
      /\ Dispatch!ClaimAck(m, a).item = IF a THEN m.item ELSE 0
      /\ <<Dispatch!ClaimAck(m, a)>> \in Seq(Orders)
      /\ ~Has(<<Dispatch!ClaimAck(m, a)>>, Opening)
         /\ ~Has(<<Dispatch!ClaimAck(m, a)>>, {"capture"})
      /\ toCore' \in Seq(Orders) /\ AcksKept
      /\ Dispatch!Elements(toCore') = Dispatch!Elements(toCore) \cup {Dispatch!ClaimAck(m, a)}
  BY <1>1, <1>2, <1>3, <1>4, <1>5, ClaimAnswered
<1>7. toSup' \in Seq(Letters) /\ StatesKept /\ ClaimsKept /\ HandoffsKept
  BY <1>1, <1>2, SupQuiet
<1>8. /\ results' \subseteq results /\ claimed \subseteq claimed'
      /\ claimed' \subseteq claimed \cup {m.item} /\ results \subseteq results' \cup {m.item}
      /\ manifest' \in Manifests /\ manifest'.queue \in {last, manifest.queue}
      /\ a => m.item \in claimed'
  <2>1. /\ manifest \in Manifests /\ last \in Seq(Dispatch!Prompts)
           /\ results \subseteq Dispatch!Results
        /\ claimed \subseteq Dispatch!Results
    BY <1>1 DEF Typed, SupTyped
  <2>2. QED
    BY <1>4, <1>5, <2>1 DEF Manifests
<1>9. Typed'
  <2>1. results' \subseteq Dispatch!Results /\ claimed' \subseteq Dispatch!Results
    BY <1>1, <1>4, <1>8 DEF Typed, SupTyped
  <2>2. QED
    BY <1>1, <1>2, <1>6, <1>7, <1>8, <2>1 DEF Typed, SupTyped, CoreTyped, MailTyped, CountTyped
<1>10. PromptInv'
  BY <1>1, <1>2, <1>6, <1>7, <1>8, PromptFrame
<1>11. ResultInv'
  <2>1. Items'
    BY <1>1, <1>2, <1>3, <1>4, <1>6 DEF ResultInv, Items
  <2>2. \A r : Mentioned(r)' /\ r \in Dispatch!Results => Mentioned(r)
    <3>1. \A x \in Dispatch!Elements(toCore') : x.kind \in {"update_result", "claim_ack"} =>
             x \in Dispatch!Elements(toCore) \/ x.item = m.item \/ x.item = 0
      BY <1>6
    <3>2. \A r \in Dispatch!Results : r # 0
      BY DEF Dispatch!Results
    <3>3. Mentioned(m.item)
      BY <1>2, <1>3 DEF Mentioned, m
    <3>4. QED
      BY <1>2, <1>3, <3>1, <3>2, <3>3 DEF Mentioned
  <2>3. m.item <= made
    <3>1. Mentioned(m.item)
      BY <1>2, <1>3 DEF Mentioned, m
    <3>2. QED
      BY <1>1, <1>4, <3>1 DEF ResultInv, Delivered
  <2>4. Records'
    <3>1. /\ manifest.results \subseteq results /\ manifest.claimed = claimed
          /\ results \cap claimed = {}
          /\ \A r \in results \cup claimed : r <= made
      BY <1>1 DEF ResultInv, Records
    <3>2. manifest'.results \subseteq results' /\ manifest'.claimed = claimed'
      BY <1>5, <3>1
    <3>3. results' \cap claimed' = {}
      BY <1>5, <3>1
    <3>4. \A r \in results' \cup claimed' : r <= made
      BY <1>8, <2>3, <3>1
    <3>5. QED
      BY <1>2, <3>2, <3>3, <3>4 DEF Records
  <2>5. Delivered'
    <3>1. \A r \in Dispatch!Results : r \in results => callers[r] = {}
      BY <1>1 DEF ResultInv, Delivered
    <3>2. \A r \in Dispatch!Results : /\ Mentioned(r) => r <= made /\ (r \in results \/ callers[r] \subseteq {core})
                                      /\ r > made => callers[r] = {}
                                      /\ \E c \in 0..core : callers[r] \subseteq {c}
      BY <1>1 DEF ResultInv, Delivered
    <3>3. \A r \in Dispatch!Results : /\ Mentioned(r)' => r <= made /\ (r \in results' \/ callers[r] \subseteq {core})
                                      /\ r \in results' \/ r > made => callers[r] = {}
      BY <1>8, <2>2, <3>1, <3>2
    <3>4. QED
      BY <1>2, <3>2, <3>3 DEF Delivered
  <2>6. \A r : Held(r) => r \in claimed' /\ ~Has(toSup', {"finished"})
    BY <1>3, <1>8 DEF Held, Has
  <2>7. ClaimTravels'
    <3>1. Claims(job.token)' = Claims(job.token)
      BY <1>2 DEF Claims
    <3>2. QED
      BY <1>1, <1>2, <1>3, <3>1 DEF ResultInv, ClaimTravels
  <2>8. ASSUME job.stage = "claiming", m.token = job.token, a
        PROVE  m.item = job.item /\ m.item \in claimed' /\ ~Has(toSup', {"finished"})
    <3>1. m.item = job.item /\ NoneAfter(toSup, Claims(job.token), {"finished"})
      BY <1>1, <1>2, <1>4, <2>8 DEF ResultInv, ClaimTravels, m
    <3>2. m \in Claims(job.token)
      BY <1>2, <1>3, <2>8 DEF Claims, m
    <3>3. QED
      BY <1>3, <1>8, <2>8, <3>1, <3>2
  <2>9. ReceiptTravels'
    <3>1. ASSUME NEW x \in Dispatch!Elements(toCore), x.kind = "claim_ack"
          PROVE  /\ x.token \in 1..claims
                 /\ job.stage = "claiming" /\ x.token = job.token /\ x.item # 0 =>
                       x.item = job.item /\ job.item \in claimed' /\ ~Has(toSup', {"finished"})
      BY <1>1, <2>6, <3>1 DEF ResultInv, ReceiptTravels
    <3>2. /\ Dispatch!ClaimAck(m, a).token \in 1..claims
          /\ job.stage = "claiming" /\ Dispatch!ClaimAck(m, a).token = job.token
             /\ Dispatch!ClaimAck(m, a).item # 0 =>
                /\ Dispatch!ClaimAck(m, a).item = job.item
                /\ job.item \in claimed' /\ ~Has(toSup', {"finished"})
      BY <1>2, <1>4, <1>6, <2>8
    <3>3. QED
      BY <1>2, <1>6, <3>1, <3>2 DEF ReceiptTravels, Held
  <2>10. Calling'
    BY <1>1, <1>2, <2>6 DEF ResultInv, Calling, Held
  <2>11. QED
    BY <1>1, <1>2, <2>1, <2>4, <2>5, <2>7, <2>9, <2>10 DEF ResultInv
<1>12. RecoveryInv'
  BY <1>1, <1>2, <1>5, <1>6, RecoveryFrame
<1>13. UpdateInv'
  BY <1>1, <1>2, <1>5, <1>6, <1>7, KeptStays, UpdateFrame DEF UpdateInv
<1>14. QED
  BY <1>9, <1>10, <1>11, <1>12, <1>13 DEF DispatchInv

LEMMA OnFinishedStep == ASSUME DispatchInv, Dispatch!OnFinished PROVE DispatchInv'
<1> USE DEF Dispatch!bridgeVars, Dispatch!workVars, Dispatch!histVars
<1>1. Typed /\ PromptInv /\ ResultInv /\ RecoveryInv /\ UpdateInv
  BY DEF DispatchInv
<1>2. /\ toSup # <<>> /\ toSup' = Tail(toSup) /\ Head(toSup).kind = "finished"
      /\ UNCHANGED <<last, results, transition, captured, toCore, Dispatch!bridgeVars,
                     Dispatch!workVars, typed, made>>
      /\ UNCHANGED <<claims, Dispatch!histVars>>
      /\ \/ /\ claimed' = claimed \ {Head(toSup).item}
            /\ manifest' = [queue |-> last, results |-> results, claimed |-> claimed']
         \/ UNCHANGED <<claimed, manifest>>
  BY DEF Dispatch!OnFinished, Dispatch!Receive, Dispatch!Recorded, Dispatch!RecordFails
<1>3. /\ Dispatch!Elements(toSup) = {Head(toSup)} \cup Dispatch!Elements(toSup')
      /\ \A X, K : NoneAfter(toSup, X, K) => NoneAfter(toSup', X, K)
  BY <1>1, <1>2, ReadsLetter
<1>4. toSup' \in Seq(Letters) /\ StatesKept /\ ClaimsKept /\ HandoffsKept
  BY <1>1, <1>2, SupQuiet
<1>5. toCore' \in Seq(Orders) /\ AcksKept /\ ResultsKept
  BY <1>1, <1>2, CoreSilent
<1>6. /\ claimed' \subseteq claimed /\ manifest' \in Manifests
      /\ manifest'.queue \in {last, manifest.queue}
  <2>1. /\ manifest \in Manifests /\ last \in Seq(Dispatch!Prompts)
           /\ results \subseteq Dispatch!Results
        /\ claimed \subseteq Dispatch!Results
    BY <1>1 DEF Typed, SupTyped
  <2>2. QED
    BY <1>2, <2>1 DEF Manifests
<1>7. Typed'
  BY <1>1, <1>2, <1>4, <1>5, <1>6 DEF Typed, SupTyped, CoreTyped, MailTyped, CountTyped
<1>8. PromptInv'
  BY <1>1, <1>2, <1>4, <1>5, <1>6, PromptFrame
<1>9. ResultInv'
  <2>1. \A r : ~Held(r)
    BY <1>2, <1>3 DEF Held, Has
  <2>2. Items'
    BY <1>1, <1>2, <1>3 DEF ResultInv, Items
  <2>3. Records'
    <3>1. /\ manifest.results \subseteq results /\ manifest.claimed = claimed
          /\ results \cap claimed = {}
          /\ \A r \in results \cup claimed : r <= made
      BY <1>1 DEF ResultInv, Records
    <3>2. manifest'.results \subseteq results /\ manifest'.claimed = claimed'
      BY <1>2, <3>1
    <3>3. QED
      BY <1>2, <1>6, <3>1, <3>2 DEF Records
  <2>4. \A r : Mentioned(r)' => Mentioned(r)
    BY <1>2, <1>3 DEF Mentioned
  <2>5. Delivered'
    BY <1>1, <1>2, <2>4 DEF ResultInv, Delivered
  <2>6. ClaimTravels'
    <3>1. Claims(job.token)' = Claims(job.token)
      BY <1>2 DEF Claims
    <3>2. QED
      BY <1>1, <1>2, <1>3, <3>1 DEF ResultInv, ClaimTravels
  <2>7. ReceiptTravels' /\ Calling'
    BY <1>1, <1>2, <2>1 DEF ResultInv, ReceiptTravels, Calling
  <2>8. QED
    BY <1>1, <1>2, <2>2, <2>3, <2>5, <2>6, <2>7 DEF ResultInv
<1>10. RecoveryInv'
  BY <1>1, <1>2, RecoverySilent
<1>11. UpdateInv'
  BY <1>1, <1>2, <1>4, KeptStays, UpdateSilent DEF UpdateInv
<1>12. QED
  BY <1>7, <1>8, <1>9, <1>10, <1>11 DEF DispatchInv

-----------------------------------------------------------------------------
(* The supervisor makes a result.                                          *)

LEMMA AddResultStep ==
  ASSUME DispatchInv, Dispatch!AddResult, transition' \in {transition, "none"},
         toSup' = toSup \/ (toSup # <<>> /\ toSup' = Tail(toSup)),
         UNCHANGED <<last, claimed, captured, Dispatch!bridgeVars, Dispatch!workVars, typed,
                     claims, Dispatch!histVars>>
  PROVE  DispatchInv'
<1> USE DEF Dispatch!bridgeVars, Dispatch!workVars, Dispatch!histVars
<1>1. Typed /\ PromptInv /\ ResultInv /\ RecoveryInv /\ UpdateInv
  BY DEF DispatchInv
<1> DEFINE m == Dispatch!Message("update_result", made + 1, 0, <<>>)
<1>2. /\ made < MaxResults /\ made' = made + 1 /\ results' = results \cup {made + 1}
      /\ toCore' = toCore \o <<m>>
      /\ \/ manifest' = [queue |-> last, results |-> results', claimed |-> claimed]
         \/ manifest' = manifest
  BY DEF Dispatch!AddResult, Dispatch!Recorded, Dispatch!RecordFails, Dispatch!SendToCore
<1>3. made \in Nat /\ made + 1 \in Dispatch!Results /\ made' \in 0..MaxResults
  <2>1. made \in 0..MaxResults
    BY <1>1 DEF Typed, CountTyped
  <2>2. QED
    BY <1>2, <2>1, Bounds DEF Dispatch!Results
<1>4. m \in Orders /\ m.kind = "update_result" /\ m.item = made + 1
  <2>1. "update_result" \in Dispatch!ToCoreKinds /\ 0 \in 0..MaxClaims /\ made + 1 \in Nat
    BY <1>3, Bounds DEF Dispatch!ToCoreKinds
  <2>2. QED
    BY <2>1, Ordered
<1> HIDE DEF m
<1>5. /\ <<m>> \in Seq(Orders) /\ Dispatch!Elements(<<m>>) = {m}
      /\ ~Has(<<m>>, Opening) /\ ~Has(<<m>>, {"capture"}) /\ ~Has(<<m>>, {"dispatch_ack"})
  BY <1>4, OneOrder DEF Opening
<1>6. /\ toCore' \in Seq(Orders) /\ Dispatch!Elements(toCore') = Dispatch!Elements(toCore) \cup {m}
      /\ NoneAfter(toCore', Receipts, {"dispatch_ack"})
  BY <1>1, <1>2, <1>5, Tells DEF PromptInv, AckTravels
<1>7. AcksKept
  BY <1>4, <1>6 DEF AcksKept
<1>8. toSup' \in Seq(Letters) /\ StatesKept /\ ClaimsKept /\ HandoffsKept
  BY <1>1, SupQuiet
<1>9. manifest' \in Manifests /\ manifest'.queue \in {last, manifest.queue}
  <2>1. /\ manifest \in Manifests /\ last \in Seq(Dispatch!Prompts)
           /\ results \subseteq Dispatch!Results
        /\ claimed \subseteq Dispatch!Results
    BY <1>1 DEF Typed, SupTyped
  <2>2. QED
    BY <1>2, <1>3, <2>1 DEF Manifests
<1>10. Typed'
  <2>1. transition' \in Dispatch!Transitions /\ results' \subseteq Dispatch!Results
    BY <1>1, <1>2, <1>3 DEF Typed, SupTyped, Dispatch!Transitions
  <2>2. QED
    BY <1>1, <1>3, <1>6, <1>8, <1>9, <2>1 DEF Typed, SupTyped, CoreTyped, MailTyped, CountTyped
<1>11. PromptInv'
  BY <1>1, <1>7, <1>8, <1>9, PromptFrame
<1>12. ResultInv'
  <2>1. \A x \in Dispatch!Elements(toSup') : x.kind \in {"claim", "finished"} => x \in Dispatch!Elements(toSup)
    BY <1>8 DEF ClaimsKept
  <2>2. Items'
    BY <1>1, <1>3, <1>4, <1>6, <2>1 DEF ResultInv, Items
  <2>3. /\ manifest.results \subseteq results /\ manifest.claimed = claimed
        /\ results \cap claimed = {}
        /\ \A r \in results \cup claimed : r <= made /\ r \in Nat
    BY <1>1, Bounds DEF ResultInv, Records, Typed, SupTyped
  <2>4. Records'
    <3>1. manifest'.results \subseteq results' /\ manifest'.claimed = claimed'
      BY <1>2, <2>3
    <3>2. made + 1 \notin claimed
      BY <1>3, <2>3
    <3>3. results' \cap claimed' = {}
      BY <1>2, <2>3, <3>2
    <3>4. \A r \in results' \cup claimed' : r <= made'
      BY <1>2, <1>3, <2>3
    <3>5. QED
      BY <3>1, <3>3, <3>4 DEF Records
  <2>5. \A r : Mentioned(r)' => Mentioned(r) \/ r = made + 1
    BY <1>4, <1>6, <2>1 DEF Mentioned
  <2>6. Delivered'
    <3>1. \A r \in Dispatch!Results : /\ Mentioned(r) => r <= made /\ (r \in results \/ callers[r] \subseteq {core})
                                      /\ r \in results \/ r > made => callers[r] = {}
                                      /\ \E c \in 0..core : callers[r] \subseteq {c}
                                      /\ r \in Nat
      BY <1>1, Bounds DEF ResultInv, Delivered
    <3>2. callers[made + 1] = {}
      BY <1>3, <3>1
    <3>3. \A r \in Dispatch!Results :
             /\ Mentioned(r)' => r <= made' /\ (r \in results' \/ callers[r] \subseteq {core})
             /\ r \in results' \/ r > made' => callers[r] = {}
      BY <1>2, <1>3, <2>5, <3>1, <3>2
    <3>4. QED
      BY <3>1, <3>3 DEF Delivered
  <2>7. \A r : Held(r) => Held(r)'
    BY <2>1 DEF Held, Has
  <2>8. ClaimTravels'
    <3>1. Claims(job.token)' = Claims(job.token)
      BY DEF Claims
    <3>2. QED
      BY <1>1, <1>8, <2>1, <3>1 DEF ResultInv, ClaimTravels, ClaimsKept
  <2>9. ReceiptTravels' /\ Calling'
    BY <1>1, <1>4, <1>6, <2>7 DEF ResultInv, ReceiptTravels, Calling, Held
  <2>10. QED
    BY <1>1, <2>2, <2>4, <2>6, <2>8, <2>9 DEF ResultInv
<1>13. RecoveryInv'
  BY <1>1, <1>2, <1>5, RecoveryFrame
<1>14. UpdateInv'
  BY <1>1, <1>2, <1>5, <1>8, KeptStays, UpdateFrame DEF UpdateInv
<1>15. QED
  BY <1>10, <1>11, <1>12, <1>13, <1>14 DEF DispatchInv

LEMMA ResultSteps == ASSUME DispatchInv, Dispatch!OnUpdate \/ Dispatch!Report PROVE DispatchInv'
<1> USE DEF Dispatch!bridgeVars, Dispatch!workVars, Dispatch!histVars
<1>1. CASE Dispatch!OnUpdate
  <2>1. CASE transition = "none"
    BY <1>1, <2>1, QuietStep DEF Dispatch!OnUpdate, Dispatch!Receive, Dispatch!AddNoResult
  <2>2. CASE transition # "none" /\ Dispatch!AddNoResult
    BY <1>1, <2>2, QuietStep DEF Dispatch!OnUpdate, Dispatch!Receive, Dispatch!AddNoResult
  <2>3. CASE transition # "none" /\ Dispatch!AddResult
    BY <1>1, <2>3, AddResultStep DEF Dispatch!OnUpdate, Dispatch!Receive
  <2>4. QED
    BY <1>1, <2>1, <2>2, <2>3 DEF Dispatch!OnUpdate
<1>2. CASE Dispatch!Report
  <2>1. CASE Dispatch!AddNoResult
    BY <1>2, <2>1, QuietStep DEF Dispatch!Report, Dispatch!AddNoResult
  <2>2. CASE Dispatch!AddResult
    BY <1>2, <2>2, AddResultStep DEF Dispatch!Report
  <2>3. QED
    BY <1>2, <2>1, <2>2 DEF Dispatch!Report
<1>3. QED
  BY <1>1, <1>2

-----------------------------------------------------------------------------
(* A core is replaced.                                                     *)

LEMMA NewCoreStep ==
  ASSUME DispatchInv, NEW q \in Seq(Dispatch!Prompts), Clean(q), Dispatch!NewCore(q),
         \/ made' = made /\ results' \subseteq results
         \/ made < MaxResults /\ made' = made + 1 /\ results' = results \cup {made + 1},
         claimed' = claimed, manifest.results \subseteq results',
         \/ manifest' = [queue |-> q, results |-> results', claimed |-> claimed]
         \/ manifest' = manifest,
         toCore' \in Seq(Orders),
         \A m \in Dispatch!Elements(toCore') : /\ m.kind \notin {"dispatch_ack", "claim_ack"}
                                               /\ m.kind = "update_result" => m.item \in results',
         transition' \in Dispatch!Transitions, granted' \in BOOLEAN, lost' \in BOOLEAN,
         UNCHANGED <<typed, claims, ran, callers>>
  PROVE  Typed' /\ PromptInv' /\ ResultInv'
<1>1. Typed /\ PromptInv /\ ResultInv
  BY DEF DispatchInv
<1>2. /\ core' = core + 1 /\ alive' = TRUE /\ active' = FALSE /\ draining' = FALSE
      /\ frozen' = FALSE /\ handoffSaved' = FALSE /\ captured' = FALSE
      /\ queue' = q /\ inbox' = {} /\ ui' = Dispatch!NoUi /\ job' = Dispatch!NoJob
         /\ toSup' = <<>> /\ last' = q
  BY DEF Dispatch!NewCore
<1>3. /\ Dispatch!NoUi \in Asks /\ Dispatch!NoUi.kind = "free" /\ Dispatch!NoUi.queued = <<>>
         /\ ~Dispatch!NoUi.acked
      /\ Dispatch!NoJob \in Jobs /\ Dispatch!NoJob.kind = "none"
         /\ Dispatch!NoJob.stage = "none" /\ Dispatch!NoJob.token = 0
  BY Bounds DEF Dispatch!NoUi, Asks, Dispatch!NoJob, Jobs
<1>4. toSup' \in Seq(Letters) /\ Dispatch!Elements(toSup') = {} /\ \A X, K : NoneAfter(toSup', X, K)
  BY <1>2, EmptyStream
<1>5. made \in Nat /\ made \in 0..MaxResults /\ made' \in 0..MaxResults /\ made <= made'
  <2>1. made \in 0..MaxResults
    BY <1>1 DEF Typed, CountTyped
  <2>2. made \in Nat
    BY <2>1, Bounds
  <2>3. QED
    BY <2>1, <2>2, Bounds
<1>6. /\ results' \subseteq Dispatch!Results /\ results \subseteq Dispatch!Results
         /\ claimed \subseteq Dispatch!Results
      /\ manifest' \in Manifests
  <2>1. results \subseteq Dispatch!Results /\ claimed \subseteq Dispatch!Results
        /\ manifest \in Manifests
    BY <1>1 DEF Typed, SupTyped
  <2>2. made < MaxResults => made + 1 \in Dispatch!Results
    BY <1>5, Bounds DEF Dispatch!Results
  <2>3. results' \subseteq Dispatch!Results
    BY <2>1, <2>2
  <2>4. QED
    BY <2>1, <2>3 DEF Manifests
<1>7. Typed'
  <2>1. core' \in Nat
    BY <1>1, <1>2 DEF Typed, CoreTyped
  <2>2. QED
    BY <1>1, <1>2, <1>3, <1>4, <1>5, <1>6, <2>1
       DEF Typed, SupTyped, CoreTyped, MailTyped, CountTyped
<1>8. PromptInv'
  <2>1. CleanIn(<<>>, typed, ran) /\ CleanIn(q, typed, ran)
    BY DEF Clean, CleanIn
  <2>2. manifest'.queue \in {q, manifest.queue}
    OBVIOUS
  <2>3. Queues'
    BY <1>1, <1>2, <1>3, <1>4, <2>1, <2>2 DEF PromptInv, Queues, Clean
  <2>4. ~Has(toCore', {"dispatch_ack"}) /\ ~Has(toSup', {"dispatch"})
    BY <1>4 DEF Has
  <2>5. NoneAfter(toCore', Receipts, {"dispatch_ack"})
    BY <2>4, HasNone DEF NoneAfter
  <2>6. IntentTravels' /\ AckTravels' /\ InHand'
    BY <1>2, <1>3, <1>4, <2>4, <2>5 DEF IntentTravels, AckTravels, InHand
  <2>7. QED
    BY <1>1, <2>3, <2>6 DEF PromptInv, Runs
<1>9. ResultInv'
  <2>1. Items'
    BY <1>2, <1>3, <1>4, <1>6 DEF Items
  <2>2. /\ manifest.results \subseteq results /\ manifest.claimed = claimed
        /\ results \cap claimed = {}
        /\ \A r \in results \cup claimed : r <= made /\ r \in Nat
    BY <1>1, <1>6, Bounds DEF ResultInv, Records
  <2>3. Records'
    <3>1. manifest'.results \subseteq results' /\ manifest'.claimed = claimed'
      BY <2>2
    <3>2. made + 1 \notin claimed
      BY <1>5, <2>2
    <3>3. results' \cap claimed' = {}
      BY <2>2, <3>2
    <3>4. \A r \in results' \cup claimed' : r <= made'
      BY <1>5, <2>2
    <3>5. QED
      BY <3>1, <3>3, <3>4 DEF Records
  <2>4. \A r : Mentioned(r)' => r \in results'
    BY <1>2, <1>3, <1>4 DEF Mentioned
  <2>5. Delivered'
    <3>1. \A r \in Dispatch!Results : /\ r \in results \/ r > made => callers[r] = {}
                                      /\ \E c \in 0..core : callers[r] \subseteq {c}
                                      /\ r \in Nat
      BY <1>1, Bounds DEF ResultInv, Delivered
    <3>2. \A r \in Dispatch!Results : Mentioned(r)' => r <= made' /\ r \in results'
      BY <2>3, <2>4 DEF Records
    <3>3. \A r \in Dispatch!Results : r \in results' \/ r > made' => callers[r] = {}
      BY <1>5, <3>1
    <3>4. \A c \in 0..core : c \in 0..core'
      BY <1>1, <1>2 DEF Typed, CoreTyped
    <3>5. QED
      BY <3>1, <3>2, <3>3, <3>4 DEF Delivered
  <2>6. ClaimTravels' /\ ReceiptTravels' /\ Calling'
    BY <1>2, <1>3, <1>4 DEF ClaimTravels, ReceiptTravels, Calling
  <2>7. 0 <= claims
    BY <1>1, Bounds DEF Typed, CountTyped
  <2>8. QED
    BY <1>2, <1>3, <2>1, <2>3, <2>5, <2>6, <2>7 DEF ResultInv
<1>10. QED
  BY <1>7, <1>8, <1>9

LEMMA ActivateStep == ASSUME DispatchInv, Dispatch!Activate PROVE DispatchInv'
<1>1. Typed /\ PromptInv /\ ResultInv /\ RecoveryInv /\ UpdateInv
  BY DEF DispatchInv
<1>2. /\ transition = "activating" /\ Dispatch!NewCore(last) /\ transition' = "reporting"
      /\ toCore' = Dispatch!ResumeMail /\ granted' = TRUE
      /\ UNCHANGED <<results, claimed, made, typed, claims, ran, callers, lost>>
      /\ \/ manifest' = [queue |-> last, results |-> results, claimed |-> claimed]
         \/ manifest' = manifest
  BY DEF Dispatch!Activate, Dispatch!Recorded, Dispatch!RecordFails
<1>3. last \in Seq(Dispatch!Prompts) /\ Clean(last) /\ manifest.results \subseteq results
      /\ lost \in BOOLEAN
  BY <1>1 DEF Typed, SupTyped, CountTyped, PromptInv, Queues, ResultInv, Records
<1>4. /\ toCore' \in Seq(Orders)
      /\ \A m \in Dispatch!Elements(toCore') :
            m.kind = "continue" \/ (m.kind = "update_result" /\ m.item \in results)
  BY <1>1, <1>2, Resumed
<1>5. transition' \in Dispatch!Transitions
  BY <1>2 DEF Dispatch!Transitions
<1>6. Typed' /\ PromptInv' /\ ResultInv'
  BY <1>2, <1>3, <1>4, <1>5, NewCoreStep
<1>7. RecoveryInv'
  BY <1>2 DEF RecoveryInv
<1>8. UpdateInv'
  <2> SUFFICES ASSUME ~lost'
               PROVE  alive' /\ Kept' /\ CaptureDrained' /\ Drained' /\ Capturing' /\ Capture'
    BY DEF UpdateInv
  <2>1. alive' /\ ~frozen' /\ queue' = last /\ ui'.kind = "free"
    BY <1>2 DEF Dispatch!NewCore, Dispatch!NoUi
  <2>2. Covers(last)
    BY <1>1, <1>2 DEF UpdateInv, Capture
  <2>3. Kept'
    BY <1>2, <2>1, <2>2 DEF Kept, Covers, Within
  <2>4. \A i \in 1..Len(toCore') : toCore'[i].kind # "capture"
    <3>1. ~Has(toCore', {"capture"})
      BY <1>4 DEF Has
    <3>2. QED
      BY <1>4, <3>1, HasNone
  <2>5. CaptureDrained'
    BY <2>1, <2>4 DEF CaptureDrained, CapturesDrained
  <2>6. QED
    BY <1>2, <2>1, <2>3, <2>5 DEF Drained, Capturing, Capture
<1>9. QED
  BY <1>6, <1>7, <1>8 DEF DispatchInv

LEMMA RestoreStep ==
  ASSUME DispatchInv, NEW q \in Seq(Dispatch!Prompts), Clean(q), Dispatch!RestoreCore(q),
         \/ made' = made /\ results' \subseteq results
         \/ made < MaxResults /\ made' = made + 1 /\ results' = results \cup {made + 1},
         claimed' = claimed, manifest.results \subseteq results',
         \/ manifest' = [queue |-> last', results |-> results', claimed |-> claimed']
         \/ manifest' = manifest,
         UNCHANGED <<typed, claims>>
  PROVE  DispatchInv'
<1>1. /\ Dispatch!NewCore(q) \/ Dispatch!NewCore(<<>>)
      /\ toCore' = <<Dispatch!Signal("activate"), Dispatch!Signal("drain")>>
      /\ granted' = FALSE /\ lost' = TRUE /\ transition' = "none" /\ UNCHANGED <<ran, callers>>
  BY DEF Dispatch!RestoreCore
<1>2. /\ Dispatch!Signal("activate") \in Orders /\ Dispatch!Signal("activate").kind = "activate"
      /\ Dispatch!Signal("drain") \in Orders /\ Dispatch!Signal("drain").kind = "drain"
  BY Signalled DEF Dispatch!ToCoreKinds
<1>3. /\ toCore' \in Seq(Orders) /\ Len(toCore') = 2
      /\ toCore'[1] = Dispatch!Signal("activate") /\ toCore'[2] = Dispatch!Signal("drain")
  BY <1>1, <1>2
<1>4. \A m \in Dispatch!Elements(toCore') : m.kind \in {"activate", "drain"}
  BY <1>1, <1>2 DEF Dispatch!Elements
<1>5. PICK p \in Seq(Dispatch!Prompts) : Clean(p) /\ Dispatch!NewCore(p)
  <2>1. <<>> \in Seq(Dispatch!Prompts) /\ Clean(<<>>)
    BY DEF Clean, CleanIn
  <2>2. QED
    BY <1>1, <2>1
<1>6. last' = p /\ ui' = Dispatch!NoUi /\ job' = Dispatch!NoJob
  BY <1>5 DEF Dispatch!NewCore
<1>7. transition' \in Dispatch!Transitions
  BY <1>1 DEF Dispatch!Transitions
<1>8. \A m \in Dispatch!Elements(toCore') : /\ m.kind \notin {"dispatch_ack", "claim_ack"}
                                            /\ m.kind = "update_result" => m.item \in results'
  BY <1>4
<1>9. \/ manifest' = [queue |-> p, results |-> results', claimed |-> claimed]
      \/ manifest' = manifest
  BY <1>6
<1>10. Typed' /\ PromptInv' /\ ResultInv'
  BY <1>1, <1>3, <1>5, <1>7, <1>8, <1>9, NewCoreStep
<1>11. RecoveryInv'
  <2>1. DrainFirst(toCore')
    <3>1. \A j \in 1..Len(toCore') : j = 1 \/ j = 2
      BY <1>3
    <3>2. /\ 2 \in 1..Len(toCore') /\ toCore'[2].kind = "drain"
          /\ \A j \in 1..Len(toCore') : /\ j > 2 => toCore'[j].kind \notin Opening
                                        /\ j < 2 => toCore'[j].kind # "dispatch_ack"
      BY <1>2, <1>3, <3>1
    <3>3. QED
      BY <3>2 DEF DrainFirst
  <2>2. QED
    BY <1>6, <2>1 DEF RecoveryInv, Dispatch!NoUi
<1>12. QED
  BY <1>1, <1>10, <1>11 DEF DispatchInv, UpdateInv

LEMMA RestoreSteps ==
  ASSUME DispatchInv, Dispatch!RecoverCrash \/ Dispatch!ForceRecovery \/ Dispatch!Restart
  PROVE  DispatchInv'
<1>1. /\ last \in Seq(Dispatch!Prompts) /\ Clean(last)
      /\ manifest.queue \in Seq(Dispatch!Prompts) /\ Clean(manifest.queue)
      /\ manifest.results \subseteq results /\ manifest.claimed = claimed
  BY DEF DispatchInv, Typed, SupTyped, Manifests, PromptInv, Queues, ResultInv, Records
<1>2. CASE Dispatch!RecoverCrash
  BY <1>1, <1>2, RestoreStep DEF Dispatch!RecoverCrash, Dispatch!Recorded, Dispatch!RecordFails
<1>3. CASE Dispatch!ForceRecovery
  <2>1. /\ Dispatch!RestoreCore(last) /\ UNCHANGED <<claimed, typed, claims>>
        /\ \/ UNCHANGED <<results, made>>
           \/ made < MaxResults /\ made' = made + 1 /\ results' = results \cup {made + 1}
        /\ \/ manifest' = [queue |-> last', results |-> results', claimed |-> claimed']
           \/ manifest' = manifest
    BY <1>3 DEF Dispatch!ForceRecovery, Dispatch!Recorded, Dispatch!RecordFails
  <2>2. manifest.results \subseteq results'
    BY <1>1, <2>1
  <2>3. QED
    BY <1>1, <2>1, <2>2, RestoreStep
<1>4. CASE Dispatch!Restart
  BY <1>1, <1>4, RestoreStep DEF Dispatch!Restart, Dispatch!Recorded, Dispatch!RecordFails
<1>5. QED
  BY <1>2, <1>3, <1>4

-----------------------------------------------------------------------------
(* The invariant.                                                          *)

LEMMA DispatchInit == Dispatch!Init => DispatchInv
<1> SUFFICES ASSUME Dispatch!Init PROVE DispatchInv
  OBVIOUS
<1> USE DEF Dispatch!Init
<1>1. /\ Dispatch!NoUi \in Asks /\ Dispatch!NoUi.kind = "free" /\ Dispatch!NoUi.queued = <<>>
         /\ ~Dispatch!NoUi.acked
      /\ Dispatch!NoJob \in Jobs /\ Dispatch!NoJob.kind = "none"
         /\ Dispatch!NoJob.stage = "none" /\ Dispatch!NoJob.token = 0
  BY Bounds DEF Dispatch!NoUi, Asks, Dispatch!NoJob, Jobs
<1>2. /\ Dispatch!Elements(<<>>) = {} /\ \A X, K : NoneAfter(<<>>, X, K)
      /\ \A K : ~Has(<<>>, K)
  BY EmptyStream, Silence
<1>3. Typed
  <2>1. /\ 0 \in 0..MaxPrompts /\ 0 \in 0..MaxResults /\ 0 \in 0..MaxClaims
    BY Bounds
  <2>2. manifest \in Manifests
    BY DEF Manifests
  <2>3. <<>> \in Seq(Dispatch!Prompts) /\ {} \subseteq Dispatch!Results
    OBVIOUS
  <2>4. SupTyped
    BY <2>2, <2>3 DEF SupTyped, Dispatch!Transitions
  <2>5. CoreTyped
    BY <1>1, <2>3 DEF CoreTyped
  <2>6. MailTyped
    BY DEF MailTyped
  <2>7. CountTyped
    BY <2>1 DEF CountTyped
  <2>8. QED
    BY <2>4, <2>5, <2>6, <2>7 DEF Typed
<1>4. PromptInv
  <2>1. CleanIn(<<>>, typed, ran)
    BY DEF CleanIn
  <2>2. Queues /\ InHand
    BY <1>1, <1>2, <2>1 DEF Queues, Clean, InHand
  <2>3. IntentTravels /\ AckTravels
    BY <1>1, <1>2 DEF IntentTravels, AckTravels
  <2>4. Runs
    BY Bounds DEF Runs
  <2>5. QED
    BY <2>2, <2>3, <2>4 DEF PromptInv
<1>5. ResultInv
  <2>1. Items /\ Records
    BY <1>1, <1>2 DEF Items, Records
  <2>2. \A r : ~Mentioned(r)
    BY <1>1, <1>2 DEF Mentioned
  <2>3. Delivered
    BY <2>2 DEF Delivered
  <2>4. ClaimTravels /\ ReceiptTravels /\ Calling
    BY <1>1, <1>2 DEF ClaimTravels, ReceiptTravels, Calling
  <2>5. QED
    BY <1>1, <2>1, <2>3, <2>4 DEF ResultInv
<1>6. RecoveryInv
  BY DEF RecoveryInv
<1>7. UpdateInv
  <2>1. Kept
    BY <1>1 DEF Kept
  <2>2. CaptureDrained
    BY DEF CaptureDrained, CapturesDrained
  <2>3. QED
    BY <2>1, <2>2 DEF UpdateInv, Drained, Capturing, Capture
<1>8. QED
  BY <1>3, <1>4, <1>5, <1>6, <1>7 DEF DispatchInv

LEMMA DispatchRests ==
  ASSUME DispatchInv,
         UNCHANGED <<Dispatch!supVars, manifest, Dispatch!streamVars, Dispatch!bridgeVars,
                     Dispatch!workVars, Dispatch!countVars, Dispatch!histVars>>
  PROVE  DispatchInv'
<1> USE DEF Dispatch!supVars, Dispatch!streamVars, Dispatch!bridgeVars, Dispatch!workVars,
       Dispatch!countVars, Dispatch!histVars
<1>1. job' \in {job, Dispatch!NoJob} /\ toSup' = toSup /\ toCore' = toCore /\ granted' = granted
      /\ transition' = transition
  OBVIOUS
<1>2. QED
  BY <1>1, QuietStep

LEMMA DispatchNext == ASSUME DispatchInv, Dispatch!Next PROVE DispatchInv'
<1>1. CASE Dispatch!Enter
  BY <1>1, EnterStep
<1>2. CASE Dispatch!Submit \/ Dispatch!TakePrompt \/ Dispatch!TakeReview
  BY <1>2, AskSteps
<1>3. CASE \/ Dispatch!RequestUpdate \/ Dispatch!RequestResume \/ Dispatch!SendIdle \/ Dispatch!FinishPrompt \/ Dispatch!FailReview
           \/ Dispatch!OnIdle \/ Dispatch!OnResumeQueue \/ Dispatch!NoticeCrash \/ Dispatch!Reject \/ Dispatch!DrainFails
  BY <1>3, QuietSteps
<1>4. CASE Dispatch!StartWork
  BY <1>4, StartWorkStep
<1>5. CASE Dispatch!Poll
  BY <1>5, PollStep
<1>6. CASE Dispatch!Undrained \/ Dispatch!Checkpoint \/ Dispatch!SendHandoff
  BY <1>6, UndrainedStep, CheckpointStep, SendHandoffStep
<1>7. CASE Dispatch!Claim \/ Dispatch!FinishReview
  BY <1>7, ClaimStep, FinishReviewStep
<1>8. CASE Dispatch!OnState \/ Dispatch!OnDispatch
  BY <1>8, OnStateStep, OnDispatchStep
<1>9. CASE Dispatch!OnClaim \/ Dispatch!OnFinished
  BY <1>9, OnClaimStep, OnFinishedStep
<1>10. CASE Dispatch!OnUpdate \/ Dispatch!Report
  BY <1>10, ResultSteps
<1>11. CASE Dispatch!StartDrain \/ Dispatch!CoreIdle \/ Dispatch!RecordCapture \/ Dispatch!Activate
  BY <1>11, StartDrainStep, CoreIdleStep, RecordCaptureStep, ActivateStep
<1>12. CASE Dispatch!Crash
  BY <1>12, CrashStep
<1>13. CASE Dispatch!RecoverCrash \/ Dispatch!ForceRecovery \/ Dispatch!Restart
  BY <1>13, RestoreSteps
<1>14. QED
  BY <1>1, <1>2, <1>3, <1>4, <1>5, <1>6, <1>7, <1>8, <1>9, <1>10, <1>11, <1>12, <1>13
     DEF Dispatch!Next, Dispatch!CoreStep, Dispatch!LoopStep, Dispatch!TaskStep

-----------------------------------------------------------------------------
(* What it says.                                                           *)

LEMMA ElementsWithin ==
  ASSUME NEW q \in Seq(Dispatch!Prompts), NEW p PROVE p \in Dispatch!Elements(q) <=> Within(p, q)
BY DEF Dispatch!Elements, Within

LEMMA RunsOnce == ASSUME DispatchInv PROVE Dispatch!RunAtMostOnce
<1> SUFFICES ASSUME NEW p \in Dispatch!Prompts
             PROVE  ran[p] <= 1
                   /\ (ran[p] > 0 => p \notin Dispatch!Elements(last) \cup Dispatch!Elements(manifest.queue))
  BY DEF Dispatch!RunAtMostOnce
<1>1. last \in Seq(Dispatch!Prompts) /\ manifest.queue \in Seq(Dispatch!Prompts) /\ Clean(last)
      /\ Clean(manifest.queue)
  BY DEF DispatchInv, Typed, SupTyped, Manifests, PromptInv, Queues
<1>2. ran[p] > 0 => ~Within(p, last) /\ ~Within(p, manifest.queue)
  BY <1>1 DEF Clean, CleanIn, Within
<1>3. QED
  BY <1>1, <1>2, ElementsWithin DEF DispatchInv, PromptInv, Runs

LEMMA DeliveredOnce == ASSUME DispatchInv PROVE Dispatch!ReviewNotReplayed
<1>1. ASSUME NEW r \in Dispatch!Results PROVE Cardinality(callers[r]) <= 1
  <2>1. PICK c \in 0..core : callers[r] \subseteq {c}
    BY DEF DispatchInv, ResultInv, Delivered
  <2>2. callers[r] = {} \/ callers[r] = {c}
    BY <2>1
  <2>3. Cardinality({}) = 0 /\ Cardinality({c}) = 1
    BY FS_EmptySet, FS_Singleton
  <2>4. QED
    BY <2>2, <2>3
<1>2. job.stage = "calling" => job.item \in manifest.claimed /\ job.item \notin manifest.results
  BY DEF DispatchInv, ResultInv, Calling, Held, Records
<1>3. QED
  BY <1>1, <1>2, SameCardinality DEF Dispatch!ReviewNotReplayed

LEMMA PromptsKept == ASSUME DispatchInv PROVE Dispatch!QueueKept
<1> SUFFICES ASSUME ~lost, NEW p \in 1..typed
             PROVE  ran[p] > 0 \/ p \in Dispatch!Elements(queue) \cup Dispatch!Elements(ui.queued)
  BY DEF Dispatch!QueueKept
<1>1. queue \in Seq(Dispatch!Prompts) /\ ui.queued \in Seq(Dispatch!Prompts)
  BY DEF DispatchInv, Typed, CoreTyped, Asks
<1>2. ran[p] > 0 \/ Within(p, queue) \/ Within(p, ui.queued)
  BY DEF DispatchInv, UpdateInv, Kept
<1>3. QED
  BY <1>1, <1>2, ElementsWithin

LEMMA RecoveredRests == ASSUME DispatchInv PROVE Dispatch!PausedAfterRecovery
BY DEF DispatchInv, RecoveryInv, Dispatch!PausedAfterRecovery, Dispatch!NoJob

LEMMA DispatchStutters == DispatchInv /\ UNCHANGED dispatchVars => DispatchInv'
BY DispatchRests
DEF dispatchVars, Dispatch!supVars, Dispatch!streamVars, Dispatch!bridgeVars,
    Dispatch!workVars, Dispatch!countVars, Dispatch!histVars

LEMMA DispatchInvariant == Spec => [](part = "dispatch" => DispatchInv)
<1>1. Init => (part = "dispatch" => DispatchInv)
  BY DispatchInit DEF Init
<1>2. (part = "dispatch" => DispatchInv) /\ [Next]_vars => (part = "dispatch" => DispatchInv)'
  <2> SUFFICES ASSUME part = "dispatch" => DispatchInv, [Next]_vars, part' = "dispatch"
               PROVE  DispatchInv'
    OBVIOUS
  <2>1. CASE UNCHANGED dispatchVars /\ part' = part
    BY <2>1, DispatchStutters
  <2>2. CASE Only("dispatch") /\ Dispatch!Next
    BY <2>2, DispatchNext DEF Only
  <2>3. QED
    BY <2>1, <2>2 DEF Next, Only, vars
<1>3. QED
  BY <1>1, <1>2, PTL DEF Spec

\* No queued prompt runs twice and no feedback is asked for twice or by two cores,
\* however often the core dies, is restarted or is recovered, because what begins is
\* on disk before it does (raychat_bootstrap/supervisor.py _dispatch,
\* _claim_update_result, _write_record).
THEOREM NothingReplayedCorrect == Spec => []NothingReplayed
<1>1. (part = "dispatch" => DispatchInv) => NothingReplayed
  BY RunsOnce, DeliveredOnce DEF NothingReplayed
<1>2. QED
  BY <1>1, DispatchInvariant, PTL

\* An update keeps every prompt that has not run, and a recovered core starts nothing
\* before it is told to continue (raychat/ui/controller.py _drain_queue;
\* raychat/core_bridge.py authorize_dispatch; raychat_bootstrap/supervisor.py _drain).
THEOREM QueueCorrect == Spec => []QueueKept
<1>1. (part = "dispatch" => DispatchInv) => QueueKept
  BY PromptsKept, RecoveredRests DEF QueueKept
<1>2. QED
  BY <1>1, DispatchInvariant, PTL
=============================================================================
