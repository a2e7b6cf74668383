----------------------------- MODULE HttpExchange -----------------------------
(***************************************************************************)
(* A question to the model over HTTP: the client (plugins/chat_completions     *)
(* /client.py), the retries of the prompt optimiser (optimize_chat_prompt.py    *)
(* RetryingChat, FailFastChat, ReflectionChat) and the capture of what went     *)
(* over the wire (raychat/http_debug.py, http_replay.py).                     *)
(*                                                                         *)
(* The server and the network may fail anywhere, so may the files of the        *)
(* capture.  A body is so many bytes; only a whole body parses.                *)
(***************************************************************************)
EXTENDS Integers, Sequences, SequencesExt

CONSTANTS
  Limit,        \* MAX_HTTP_BYTES
  Retries,
  MaxQuestions, \* questions asked in a behaviour
  MaxFaults     \* writes of the capture that fail

ExchangeAssumption ==
  Limit \in Nat \ {0} /\ {Retries, MaxQuestions, MaxFaults} \subseteq Nat

VARIABLES
  debug,        \* RAYCHAT_HTTP_DEBUG_DIR is set
  asker,        \* "task" or "reflection"
  step,         \* "idle", "open", "connect", "send", "wait", "read", "drain", "close"
  response,     \* what the server makes of the attempt, or Nothing
  got,          \* bytes of the body the client has consumed
  shut,         \* the response is closed: its end has been read
  trace,        \* the capture of the attempt
  failure,      \* how the attempt has failed so far, or "none"
  past,         \* history: the earlier attempts at this question
  outcome,      \* of the last question: "reply", "failed", or "none"
  latched,      \* ReflectionChat.failure is set
  questions, faults

exchange == <<step, response, got, shut, trace, failure>>
vars == <<debug, asker, exchange, past, outcome, latched, questions, faults>>

Nothing == [none |-> TRUE]

Framings == {"length", "chunked", "eof"}

\* A status, the framing and size of the body, how much of it arrives before the
\* connection breaks, and whether the text is a finished completion.
Responses ==
  {r \in [status : {"ok", "busy", "refused"}, framing : Framings, size : 0..(Limit + 2),
          arrives : 0..(Limit + 2), finished : BOOLEAN] :
     /\ r.arrives <= r.size
     /\ r.finished => r.status = "ok" /\ r.size > 0}

Whole(r)  == r.arrives = r.size
Usable(r) == r.status = "ok" /\ Whole(r) /\ r.finished /\ r.size <= Limit

NoTrace == [script |-> "none", sent |-> "no", complete |-> FALSE, closed |-> FALSE]

Init ==
  /\ debug \in BOOLEAN /\ asker \in {"task", "reflection"}
  /\ step = "idle" /\ response = Nothing /\ got = 0 /\ shut = FALSE /\ trace = NoTrace
  /\ failure = "none" /\ past = <<>> /\ outcome = "none" /\ latched = FALSE
  /\ questions = 0 /\ faults = 0

\* After a failed reflection every further one fails at once.
Ask ==
  /\ step = "idle" /\ questions < MaxQuestions /\ ~latched
  /\ questions' = questions + 1 /\ step' = "open"
  /\ past' = <<>> /\ outcome' = "none"
  /\ response' = Nothing /\ got' = 0 /\ shut' = FALSE /\ trace' = NoTrace /\ failure' = "none"
  /\ UNCHANGED <<debug, asker, latched, faults>>

AskLatched ==
  /\ step = "idle" /\ questions < MaxQuestions /\ latched
  /\ questions' = questions + 1 /\ outcome' = "failed"
  /\ UNCHANGED <<debug, asker, exchange, past, latched, faults>>

(***************************************************************************)
(* An attempt.  The capture has a command that repeats the request before the   *)
(* connection is made, and one with the bytes sent when they are.              *)
(***************************************************************************)
Noted(t)     == trace' = IF debug THEN t ELSE trace
FailsWith(f) == failure' = f /\ step' = "close"

Open ==
  /\ step = "open" /\ step' = "connect"
  /\ Noted([NoTrace EXCEPT !.script = "request"])
  /\ UNCHANGED <<debug, asker, response, got, shut, failure, past, outcome, latched, questions, faults>>

Connect ==
  /\ step = "connect"
  /\ \/ step' = "send" /\ UNCHANGED failure
     \/ FailsWith("connection")
  /\ UNCHANGED <<debug, asker, response, got, shut, trace, past, outcome, latched, questions, faults>>

Send ==
  /\ step = "send"
  /\ \/ step' = "wait" /\ Noted([trace EXCEPT !.sent = "yes", !.script = "sent"]) /\ UNCHANGED failure
     \/ FailsWith("connection") /\ Noted([trace EXCEPT !.sent = "attempt"])
  /\ UNCHANGED <<debug, asker, response, got, shut, past, outcome, latched, questions, faults>>

\* The head of the response; an empty body of known length is complete with it.
Respond(r) ==
  /\ step = "wait" /\ response' = r
  /\ shut' = (r.framing = "length" /\ r.size = 0)
  /\ Noted([trace EXCEPT !.complete = shut'])
  /\ step' = IF r.status = "ok" THEN "read" ELSE IF debug THEN "drain" ELSE "close"
  /\ failure' = IF r.status = "ok" THEN "none" ELSE r.status
  /\ UNCHANGED <<debug, asker, got, past, outcome, latched, questions, faults>>

\* There is none in time, or it makes no sense.
RespondNothing ==
  /\ step = "wait" /\ FailsWith("connection")
  /\ UNCHANGED <<debug, asker, response, got, shut, trace, past, outcome, latched, questions, faults>>

(***************************************************************************)
(* HTTPResponse.read(n): a body that breaks off raises only when it is chunked, *)
(* and the end of a body without length or chunks shows when nothing comes.     *)
(***************************************************************************)
Least(m, n) == IF m < n THEN m ELSE n

Reads(r, n) ==
  LET k == Least(n, r.arrives - got) IN
  [bytes  |-> k,
   raises |-> r.framing = "chunked" /\ ~Whole(r) /\ n > k,
   shuts  |-> CASE r.framing = "length"  -> k = 0 \/ got + k = r.size
                [] r.framing = "chunked" -> Whole(r) /\ n > k
                [] r.framing = "eof"     -> k = 0]

\* http_debug.py _record_complete.
Completes(r, bytes, closed) ==
  \/ r.framing = "length" /\ bytes = r.size
  \/ r.framing # "length" /\ closed

Consume(r, read) ==
  /\ got' = got + read.bytes
  /\ shut' = (shut \/ (read.shuts /\ ~read.raises))
  /\ Noted([trace EXCEPT !.complete = @ \/ (~read.raises /\ Completes(r, got', shut'))])

\* The client reads once, one byte more than the limit.
Read ==
  /\ step = "read" /\ step' = "close"
  /\ IF shut THEN UNCHANGED <<got, shut, trace, failure>>
     ELSE LET read == Reads(response, Limit + 1) IN
          /\ Consume(response, read)
          /\ failure' = IF read.raises THEN "connection" ELSE failure
  /\ UNCHANGED <<debug, asker, response, past, outcome, latched, questions, faults>>

\* With the capture on the body of an error is read to its end, whatever that is.
Drain ==
  /\ step = "drain"
  /\ IF shut THEN step' = "close" /\ UNCHANGED <<got, shut, trace>>
     ELSE LET read == Reads(response, Limit + 1) IN
          /\ Consume(response, read)
          /\ step' = IF read.raises \/ read.bytes = 0 THEN "close" ELSE "drain"
  /\ UNCHANGED <<debug, asker, response, failure, past, outcome, latched, questions, faults>>

(***************************************************************************)
(* The end of an attempt, and what becomes of the question.                    *)
(***************************************************************************)
Transient == {"connection", "busy"}

\* Planted error: a completion that was cut short is taken too.
ParsesUnfinished == response # Nothing /\ got = response.size /\ got <= Limit

Parses == response # Nothing /\ got = response.size /\ got <= Limit /\ response.finished

Verdict == IF failure # "none" THEN failure ELSE IF Parses THEN "reply" ELSE "unusable"

Ended(t) == [served |-> response, got |-> got, trace |-> t, verdict |-> Verdict, spoiled |-> FALSE]

Attempts == Len(past) + 1

Again(e) ==
  /\ past' = Append(past, e)
  /\ IF e.verdict \in Transient /\ Attempts <= Retries
     THEN step' = "open" /\ UNCHANGED <<outcome, latched>>
     ELSE /\ step' = "idle" /\ outcome' = IF e.verdict = "reply" THEN "reply" ELSE "failed"
          /\ latched' = (latched \/ (asker = "reflection" /\ e.verdict # "reply"))
  /\ response' = Nothing /\ got' = 0 /\ shut' = FALSE /\ trace' = NoTrace /\ failure' = "none"

Closed == [trace EXCEPT !.closed = debug /\ response # Nothing]

Close ==
  /\ step = "close" /\ Again(Ended(Closed))
  /\ UNCHANGED <<debug, asker, questions, faults>>

\* A reflection of nothing is a failure.
CloseEmpty ==
  /\ step = "close" /\ asker = "reflection" /\ Verdict = "reply"
  /\ Again([Ended(Closed) EXCEPT !.verdict = "unusable"])
  /\ UNCHANGED <<debug, asker, questions, faults>>

\* A file of the capture cannot be written: to the client the connection has failed;
\* when an error's body is drained nobody notices, when it is closed nobody expects it.
Spoil ==
  /\ debug /\ step # "idle" /\ faults < MaxFaults /\ faults' = faults + 1
  /\ IF step = "drain" THEN step' = "close" /\ UNCHANGED <<response, got, shut, trace, failure, past, outcome, latched>>
     ELSE Again([Ended(trace) EXCEPT !.spoiled = TRUE,
                  !.verdict = IF step = "close" /\ response # Nothing /\ response.status # "ok"
                              THEN "unusable" ELSE "connection"])
  /\ UNCHANGED <<debug, asker, questions>>

Next ==
  \/ Ask \/ AskLatched \/ Open \/ Connect \/ Send
  \/ \E r \in Responses : Respond(r)
  \/ RespondNothing \/ Read \/ Drain \/ Close \/ CloseEmpty \/ Spoil

Spec == Init /\ [][Next]_vars

(***************************************************************************)
(* Properties.                                                              *)
(***************************************************************************)
TypeOK ==
  /\ debug \in BOOLEAN /\ shut \in BOOLEAN /\ latched \in BOOLEAN
  /\ asker \in {"task", "reflection"}
  /\ step \in {"idle", "open", "connect", "send", "wait", "read", "drain", "close"}
  /\ response \in Responses \cup {Nothing} /\ got \in 0..(Limit + 2)
  /\ failure \in {"none", "connection", "busy", "refused"}
  /\ outcome \in {"reply", "failed", "none"}
  /\ Len(past) <= Retries + 1 /\ {questions, faults} \subseteq Nat

\* A reply is the whole text of a finished completion within the limit (client.py
\* __call__, _completed_text).
ReplyIsWhole == outcome = "reply" => Usable(Last(past).served)

\* An attempt is repeated only after a transient failure, and an answer that can be used
\* is not asked for again unless the capture failed with it (optimize_chat_prompt.py
\* RetryingChat; client.py _read).
RetriesJustified ==
  /\ \A n \in 1..(Len(past) - 1) :
       LET e == past[n] IN
       e.served # Nothing /\ ~e.spoiled =>
         e.served.status = "busy" \/ (e.served.status = "ok" /\ ~Whole(e.served))
  /\ step # "idle" /\ past # <<>> => Len(past) <= Retries

\* The capture calls a response complete only when all of it has been read, and one that
\* is closed incomplete broke off or was not read to its end; the end of a body without
\* length or chunks, or one over the limit, is not noticed by the client's only read
\* (http_debug.py _record_complete, close).
CaptureTrue ==
  debug => \A n \in DOMAIN past :
    LET t == past[n].trace
        r == past[n].served IN
    /\ t.complete => past[n].got = r.arrives /\ (r.framing = "eof" \/ Whole(r))
    /\ t.closed /\ ~t.complete /\ faults = 0 /\ Whole(r) /\ past[n].got = r.size
         => r.status = "ok" /\ (r.framing = "eof" \/ (r.framing = "chunked" /\ r.size > Limit))
    /\ t.sent = "yes" <=> t.script = "sent"
    /\ r # Nothing => t.sent = "yes"

ExchangeHonest == ReplyIsWhole /\ RetriesJustified /\ CaptureTrue
=============================================================================
