------------------------------ MODULE KeyDecoder ------------------------------
(***************************************************************************)
(* Keys from bytes (raychat/ui/terminal.py KeyDecoder).                       *)
(*                                                                         *)
(* What the terminal sends arrives in pieces of any size; partial sequences,   *)
(* characters and pastes wait for the next one.  Bytes stand for classes of     *)
(* them and sequences are shorter than the terminal's: the markers of a paste   *)
(* are three bytes long, a character two, a key three or four, a report of the   *)
(* mouse four.                                                             *)
(***************************************************************************)
EXTENDS Integers, Sequences, SequencesExt

CONSTANTS
  MaxPaste,      \* max_paste_bytes
  MaxEscape,     \* terminal.max_escape_bytes
  Bytes,         \* the classes of bytes sent
  MaxBytes       \* bound on bytes sent

DecoderAssumption == {MaxPaste, MaxEscape, MaxBytes} \subseteq Nat \ {0}

VARIABLES
  first,         \* the decoder at the start: new, or the one a core was handed
  decoder,       \* KeyDecoder's buffer, paste, in_paste, rejected and unicode decoder
  arrived,       \* bytes the terminal has delivered and nobody has read
  events,        \* history: what has been decoded
  sent,          \* history: all bytes sent
  cut            \* history: a CR was at the end of a read, an escape has expired, or
                 \* an unfinished sequence was too long to wait for its end

vars == <<first, decoder, arrived, events, sent, cut>>

(***************************************************************************)
(* Sequences.                                                              *)
(***************************************************************************)
PasteStart == <<"ESC", "[", "p">>
PasteEnd   == <<"ESC", "[", "q">>
Known      == {<<"ESC", "[", "A">>, <<"ESC", "[", "1", "A">>, <<"ESC", "O", "A">>}
Finals     == {"A", "M", "p", "q"}     \* of a control sequence, "[" too
Controls   == {"CR", "LF", "INT"}
Starts(s, t) == IsPrefix(t, s)
Event(kind, bytes) == <<kind, bytes>>

Idle == [buffer |-> <<>>, paste |-> <<>>, in |-> FALSE, rejected |-> FALSE, unicode |-> <<>>]

Skip(d, n) == [d EXCEPT !.buffer = SubSeq(@, n + 1, Len(@))]
First(s, P) == IF \E n \in DOMAIN s : s[n] \in P
               THEN CHOOSE n \in DOMAIN s : s[n] \in P /\ \A m \in 1..(n - 1) : s[m] \notin P
               ELSE 0

(***************************************************************************)
(* A step takes something from the front of the buffer: the decoder after it,   *)
(* the events, and whether to go on.                                          *)
(***************************************************************************)
Wait(d)    == [d |-> d, out |-> <<>>, go |-> FALSE]
Go(d, out) == [d |-> d, out |-> out, go |-> TRUE]

\* _append_paste, _finish_paste
Rejects(d, s) == ~d.rejected /\ Len(d.paste) + Len(s) > MaxPaste
Pasted(d, s) ==
  IF d.rejected THEN d
  ELSE IF Rejects(d, s) THEN [d EXCEPT !.paste = <<>>, !.rejected = TRUE]
  ELSE [d EXCEPT !.paste = @ \o s]
PasteError(d, s) == IF Rejects(d, s) THEN <<Event("error", <<>>)>> ELSE <<>>
Outside(d) == [d EXCEPT !.paste = <<>>, !.in = FALSE, !.rejected = FALSE]

\* Planted error: only the marker's first byte is waited for.
PartialByte(s) == IF s # <<>> /\ Last(s) = "ESC" THEN 1 ELSE 0

\* The longest end of s that may be the beginning of the closing marker.
Partial(s) ==
  LET ends == {n \in 1..(Len(PasteEnd) - 1) :
                 n <= Len(s) /\ SubSeq(s, Len(s) - n + 1, Len(s)) = SubSeq(PasteEnd, 1, n)}
  IN IF ends = {} THEN 0 ELSE CHOOSE n \in ends : \A m \in ends : m <= n

DrainPaste(d) ==
  LET b == d.buffer
      ends == {n \in 1..(Len(b) - Len(PasteEnd) + 1) : SubSeq(b, n, n + Len(PasteEnd) - 1) = PasteEnd}
      end == IF ends = {} THEN 0 ELSE CHOOSE n \in ends : \A m \in ends : n <= m
      int == First(b, {"INT"}) IN
  IF int > 0 /\ (end = 0 \/ int < end)
  THEN Go(Outside(Skip(d, int)), <<Event("interrupt", <<>>)>>)
  ELSE IF end > 0
  THEN LET s == SubSeq(b, 1, end - 1)
           p == Pasted(d, s) IN
       Go(Outside(Skip(d, end + Len(PasteEnd) - 1)),
          PasteError(d, s) \o (IF p.rejected THEN <<>> ELSE <<Event("paste", p.paste)>>))
  ELSE LET s == SubSeq(b, 1, Len(b) - Partial(b)) IN
       [Wait(Skip(Pasted(d, s), Len(s))) EXCEPT !.out = PasteError(d, s)]

\* _finish_unicode: a character that is cut off is replaced.
Replaced(d)  == IF d.unicode = <<>> THEN <<>> ELSE <<Event("text", <<"?">>)>>
Flushed(d) == [d EXCEPT !.unicode = <<>>]

Unknown(d, n) == Go(Skip(d, n), <<Event("unknown", SubSeq(d.buffer, 1, n))>>)

\* A control sequence given up unfinished.
Oversize(e) ==
  /\ e[1] = "unknown" /\ e[2][2] = "["
  /\ First(SubSeq(e[2], 3, Len(e[2])), Finals \cup {"["}) = 0

\* A report is ESC [ < and M, its numbers left out.
Mouse(b) == Len(b) >= 4 /\ b[4] = "M"

DrainUnknown(d) ==
  LET b == d.buffer
      final == First(SubSeq(b, 3, Len(b)), Finals \cup {"["}) IN
  CASE Len(b) = 1 -> Wait(d)
    [] Len(b) > 1 /\ b[2] = "[" ->
         IF final = 0 /\ Len(b) <= MaxEscape THEN Wait(d)
         ELSE Unknown(d, IF final = 0 THEN Len(b) ELSE final + 2)
    [] Len(b) > 1 /\ b[2] = "O" -> IF Len(b) < 3 THEN Wait(d) ELSE Unknown(d, 3)
    [] OTHER -> Go(Skip(d, 1), <<Event("escape", <<>>)>>)

DrainEscape(d) ==
  LET b == d.buffer
      matched == {s \in Known : Starts(b, s)} IN
  CASE Starts(b, PasteStart) -> Go([Skip(d, Len(PasteStart)) EXCEPT !.in = TRUE], <<>>)
    [] Starts(PasteStart, b) -> Wait(d)
    [] matched # {} ->
         LET s == CHOOSE s \in matched : TRUE IN Go(Skip(d, Len(s)), <<Event("key", s)>>)
    [] matched = {} /\ \E s \in Known : Starts(s, b) -> Wait(d)
    [] Starts(b, <<"ESC", "[", "<">>) /\ Mouse(b) -> Go(Skip(d, 4), <<Event("mouse", <<>>)>>)
    [] Starts(b, <<"ESC", "[", "<">>) /\ Len(b) <= MaxEscape /\ First(SubSeq(b, 4, Len(b)), {"M"}) = 0 -> Wait(d)
    [] OTHER -> DrainUnknown(d)

\* The incremental decoder: "lead" begins a character, "tail" ends it.
Characters(unicode, s) ==
  FoldLeft(LAMBDA r, b :
      LET bad == IF r.unicode # <<>> /\ b # "tail" THEN <<"?">> ELSE <<>>
          this == CASE b = "lead" -> <<>>
                    [] b = "tail" -> IF r.unicode = <<>> THEN <<"?">> ELSE <<"char">>
                    [] OTHER -> <<b>>
      IN [unicode |-> IF b = "lead" THEN <<b>> ELSE <<>>, text |-> r.text \o bad \o this],
    [unicode |-> unicode, text |-> <<>>], s)

DrainText(d) ==
  LET b == d.buffer
      stop == First(b, Controls \cup {"ESC"})
      n == IF stop = 0 THEN Len(b) ELSE stop - 1
      decoded == Characters(d.unicode, SubSeq(b, 1, n)) IN
  IF b[1] \in Controls
  THEN Go(Flushed(Skip(d, IF b[1] = "CR" /\ Len(b) > 1 /\ b[2] = "LF" THEN 2 ELSE 1)),
          Replaced(d) \o <<Event(IF b[1] = "INT" THEN "interrupt" ELSE "enter", <<>>)>>)
  ELSE Go([Skip(d, n) EXCEPT !.unicode = decoded.unicode],
          IF decoded.text = <<>> THEN <<>> ELSE <<Event("text", decoded.text)>>)

Drained(d) ==
  IF d.in THEN DrainPaste(d)
  ELSE IF d.buffer[1] = "ESC"
  THEN LET r == DrainEscape(Flushed(d)) IN [r EXCEPT !.out = Replaced(d) \o @]
  ELSE DrainText(d)

\* _drain: each round takes a byte at least, so as many rounds as bytes are enough.
Drain(d) ==
  FoldLeft(LAMBDA r, b :
      IF ~r.go \/ r.d.buffer = <<>> THEN r
      ELSE LET one == Drained(r.d) IN [one EXCEPT !.out = r.out \o @],
    Go(d, <<>>), d.buffer)

Feed(d, s) == Drain([d EXCEPT !.buffer = @ \o s])

\* What the application sees: text next to text is one text.
Joined(out, more) ==
  FoldLeft(LAMBDA sofar, e :
      IF sofar # <<>> /\ Last(sofar)[1] = "text" /\ e[1] = "text"
      THEN Append(Front(sofar), Event("text", Last(sofar)[2] \o e[2]))
      ELSE Append(sofar, e),
    out, more)

(***************************************************************************)
(* Reading.                                                                *)
(***************************************************************************)
\* restore_handoff: an update may have come in the middle of a paste.
Init ==
  /\ first \in {Idle, [Idle EXCEPT !.in = TRUE]} /\ decoder = first
  /\ arrived = <<>> /\ events = <<>> /\ sent = <<>> /\ cut = FALSE

Send(b) ==
  /\ Len(sent) < MaxBytes
  /\ sent' = Append(sent, b) /\ arrived' = Append(arrived, b)
  /\ UNCHANGED <<first, decoder, events, cut>>

\* feed: everything that has arrived.
Read ==
  /\ arrived # <<>> /\ arrived' = <<>>
  /\ LET r == Feed(decoder, arrived) IN
     /\ decoder' = r.d /\ events' = Joined(events, r.out)
     /\ cut' = (cut \/ Last(arrived) = "CR" \/ \E e \in ToSet(r.out) : Oversize(e))
  /\ UNCHANGED <<first, sent>>

\* expire_escape: nothing has followed a lone Escape for a while.
Expire ==
  /\ ~decoder.in /\ decoder.buffer = <<"ESC">>
  /\ decoder' = [Flushed(decoder) EXCEPT !.buffer = <<>>]
  /\ events' = Joined(events, Replaced(decoder) \o <<Event("escape", <<>>)>>)
  /\ cut' = TRUE
  /\ UNCHANGED <<first, arrived, sent>>

Next == (\E b \in Bytes : Send(b)) \/ Read \/ Expire

Spec == Init /\ [][Next]_vars

(***************************************************************************)
(* Properties.                                                              *)
(***************************************************************************)
TypeOK ==
  /\ Len(decoder.paste) <= MaxPaste
  /\ decoder.rejected => decoder.in /\ decoder.paste = <<>>
  /\ ~decoder.in => decoder.paste = <<>>

\* However the bytes are cut into reads, the keys are those of the bytes in one read:
\* nothing is lost, doubled or taken for a key in the middle of a paste (terminal.py _drain,
\* _drain_paste, _drain_escape).  Known limits, where cuts do matter: the LF of a CR at the
\* end of a read is another Enter, an Escape may expire, a control sequence longer than
\* max_escape_bytes is given up where a read ends and its rest is text, and an interrupt
\* that ends a paste too long may come before its notice.
CutsDoNotMatter ==
  (arrived = <<>> /\ ~cut) =>
    LET whole   == Feed(first, sent)
        Keys(s) == SelectSeq(s, LAMBDA e : e[1] # "error") IN
    /\ decoder = whole.d
    /\ Keys(events) = Keys(Joined(<<>>, whole.out))
    /\ "INT" \notin ToSet(sent) => events = Joined(<<>>, whole.out)
=============================================================================
