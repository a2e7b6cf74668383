---------------------------- MODULE ApprovalReview ----------------------------
(***************************************************************************)
(* What has to be seen before an approval can be given (raychat/ui/controller  *)
(* .py approval_page, _update_approval_review, _process_approval_key).         *)
(*                                                                         *)
(* An approval is a text of Units pieces.  A layout shows Pieces[layout] of    *)
(* them in a row and one row at a time, or it is too small to show any.  A     *)
(* frame takes a new size of the terminal, reads keys and draws.              *)
(***************************************************************************)
EXTENDS Naturals, Sequences

CONSTANTS
  Units,         \* the pieces of an approval's text
  Layouts,       \* sizes of the terminal
  Pieces,        \* how many pieces a row of each shows; 0: too small
  Distances,     \* rows a key or the wheel scrolls
  MaxApprovals, MaxTyped     \* bounds on approvals and on unread keys

ReviewAssumption ==
  /\ Units \in Nat \ {0} /\ Pieces \in [Layouts -> Nat] /\ Distances \subseteq Nat
  /\ MaxApprovals \in Nat /\ MaxTyped \in Nat

VARIABLES
  turn,          \* "size", "read", "draw"
  layout,        \* last_size
  focused,       \* this chat is the focused one
  picker,        \* a menu covers it
  pending,       \* an approval waits: "none", "valid", "invalid" (it cannot be shown whole)
  scroll, maximum, rendered, reviewed, until, valid, confirmed, unlock, drained, ready,
                 \* the approval_* fields of ChatView
  input,         \* keys typed and not read: whether each was typed after the review
  asks,
  shown,         \* history: the pieces that have been on the screen
  mixed,         \* history: the size changed while another chat was focused, or
                 \* focus fell back to this chat
  blind          \* history: an approval was given unseen or by keys typed too early

fields == <<scroll, maximum, rendered, reviewed, until, valid, confirmed, unlock, drained, ready>>
vars == <<turn, layout, focused, picker, pending, fields, input, asks, shown, mixed, blind>>

Init ==
  /\ turn = "size" /\ layout \in Layouts /\ focused = TRUE /\ picker = FALSE
  /\ pending = "none" /\ asks = 0
  /\ scroll = 0 /\ maximum = 0 /\ rendered = FALSE /\ reviewed = FALSE /\ until = 0
  /\ valid = FALSE /\ confirmed = "no" /\ unlock = "none" /\ drained = FALSE /\ ready = FALSE
  /\ input = <<>> /\ shown = {} /\ mixed = FALSE /\ blind = FALSE

Least(a, b)   == IF a < b THEN a ELSE b
Most(a, b)    == IF a > b THEN a ELSE b
Rows(l)       == (Units + Pieces[l] - 1) \div Pieces[l]
Row(l, r)     == {u \in 1..Units : (u - 1) \div Pieces[l] = r}
Paged         == pending # "none" /\ Pieces[layout] > 0

(***************************************************************************)
(* Resets.                                                                  *)
(***************************************************************************)
Unconfirmed ==
  /\ rendered' = FALSE /\ reviewed' = FALSE /\ confirmed' = "no" /\ unlock' = "none"
  /\ drained' = FALSE /\ ready' = FALSE
ResetReview == Unconfirmed /\ scroll' = 0 /\ until' = 0 /\ valid' = FALSE /\ UNCHANGED maximum

Ask ==
  /\ pending = "none" /\ asks < MaxApprovals /\ turn = "size"
  /\ asks' = asks + 1 /\ pending' \in {"valid", "invalid"}
  /\ ResetReview /\ shown' = {} /\ mixed' = FALSE
  /\ UNCHANGED <<turn, layout, focused, picker, input, blind>>

\* The task ends or is cancelled; a menu opens or closes.
Withdraw ==
  /\ pending # "none" /\ turn = "size" /\ pending' = "none"
  /\ UNCHANGED <<turn, layout, focused, picker, fields, input, asks, shown, mixed, blind>>
Menu ==
  /\ turn = "size" /\ picker' = ~ picker
  /\ UNCHANGED <<turn, layout, focused, pending, fields, input, asks, shown, mixed, blind>>

Leave ==
  /\ turn = "size" /\ focused /\ focused' = FALSE
  /\ UNCHANGED <<turn, layout, picker, pending, fields, input, asks, shown, mixed, blind>>
Activate ==
  /\ turn = "size" /\ focused' = TRUE /\ Unconfirmed
  /\ UNCHANGED <<turn, layout, picker, pending, scroll, maximum, until, valid, input, asks, shown,
                 mixed, blind>>
\* The focused child has gone: _sync_chats falls back to this chat as it is.
FallBack ==
  /\ turn = "size" /\ ~ focused /\ focused' = TRUE /\ mixed' = TRUE
  /\ UNCHANGED <<turn, layout, picker, pending, fields, input, asks, shown, blind>>

\* Planted error: a new size keeps the rows that were counted as seen.
ResizeReviewKept == Unconfirmed /\ UNCHANGED <<scroll, until, valid, maximum>>
ResizeReview == ResetReview

UpdateDimensions ==
  /\ turn = "size" /\ turn' = "read"
  /\ layout' \in Layouts
  /\ IF layout' # layout /\ focused /\ pending # "none" THEN ResizeReview ELSE UNCHANGED fields
  /\ mixed' = (mixed \/ (layout' # layout /\ ~ focused /\ pending # "none"))
  /\ UNCHANGED <<focused, picker, pending, input, asks, shown, blind>>

(***************************************************************************)
(* Keys.                                                                     *)
(***************************************************************************)
Keys == {"yes", "other", "enter", "no", "up", "down"}
Press ==
  /\ Len(input) < MaxTyped
  /\ \E k \in Keys : input' = Append(input, [key |-> k, late |-> drained /\ focused])
  /\ UNCHANGED <<turn, layout, focused, picker, pending, fields, asks, shown, mixed, blind>>

CanAccept ==
  rendered /\ reviewed /\ valid /\ ready /\ confirmed # "no" /\ scroll >= maximum

Resolved ==
  /\ pending' = "none" /\ rendered' = FALSE /\ reviewed' = FALSE /\ until' = 0
  /\ UNCHANGED <<scroll, maximum, valid, unlock, drained, ready>>

ReadKey == turn = "read" /\ input # <<>> /\ input' = Tail(input)
  /\ UNCHANGED <<turn, layout, focused, picker, asks, shown, mixed>>
Reviewing(k) == focused /\ ~ picker /\ pending # "none" /\ Head(input).key = k

Elsewhere ==
  /\ ReadKey /\ ~ (focused /\ ~ picker /\ pending # "none")
  /\ UNCHANGED <<pending, fields, blind>>

Deny ==
  /\ ReadKey /\ Reviewing("no") /\ Resolved /\ UNCHANGED <<confirmed, blind>>

Approve ==
  /\ ReadKey /\ Reviewing("enter") /\ ready /\ CanAccept
  /\ Resolved /\ UNCHANGED confirmed
  /\ blind' = (blind \/ (~ mixed /\ (shown # 1..Units \/ confirmed = "early" \/ pending = "invalid")))

Unaccepted ==
  /\ ReadKey /\ Reviewing("enter") /\ ~ (ready /\ CanAccept)
  /\ UNCHANGED <<pending, blind, fields>>

\* "yes" after "yes" is no prefix of it.
Confirm ==
  /\ ReadKey /\ \E k \in {"yes", "other"} : Reviewing(k)
  /\ confirmed' = IF ~ ready THEN confirmed
                  ELSE IF Head(input).key = "other" \/ confirmed # "no" THEN "no"
                  ELSE IF Head(input).late THEN "yes" ELSE "early"
  /\ UNCHANGED <<pending, blind, scroll, maximum, rendered, reviewed, until, valid, unlock, drained, ready>>

ScrolledDown(d) == Least(Least(maximum, until), scroll + d)
Scroll ==
  /\ ReadKey /\ \E k \in {"up", "down"} : Reviewing(k)
  /\ \E d \in Distances :
       scroll' = IF Head(input).key = "down" THEN ScrolledDown(d) ELSE Most(scroll, d) - d
  /\ confirmed' = "no"
  /\ UNCHANGED <<pending, blind, maximum, rendered, reviewed, until, valid, unlock, drained, ready>>

\* Planted error: the elapsed delay alone makes early keys count.
UnlocksAtOnce(empty) == TRUE
Unlocks(empty) == empty

\* A read that found nothing, with no partial key in the decoder, ends the keys
\* that were typed before the review was complete.
EndRead ==
  /\ turn = "read" /\ turn' = "draw"
  /\ \/ UNCHANGED drained
     \/ /\ focused /\ pending # "none" /\ reviewed /\ ~ drained /\ unlock = "elapsed"
        /\ Unlocks(input = <<>>) /\ drained' = TRUE
  /\ UNCHANGED <<layout, focused, picker, pending, scroll, maximum, rendered, reviewed, until, valid,
                 confirmed, unlock, ready, input, asks, shown, mixed, blind>>

Elapse ==
  /\ unlock = "waiting" /\ unlock' = "elapsed"
  /\ UNCHANGED <<turn, layout, focused, picker, pending, scroll, maximum, rendered, reviewed, until,
                 valid, confirmed, drained, ready, input, asks, shown, mixed, blind>>

(***************************************************************************)
(* Drawing.                                                                 *)
(***************************************************************************)
Frontier(start) == IF start <= until THEN Most(until, start + 1) ELSE until

Draw ==
  /\ turn = "draw" /\ turn' = "size"
  /\ IF focused /\ ~ picker /\ Paged
     THEN LET start == Least(scroll, Rows(layout) - 1) IN
       /\ scroll' = start /\ maximum' = Rows(layout) - 1 /\ valid' = (pending = "valid")
       /\ rendered' = TRUE /\ until' = Frontier(start) /\ reviewed' = (until' >= Rows(layout))
       /\ unlock' = IF reviewed' /\ unlock = "none" THEN "waiting" ELSE unlock
       /\ drained' = (drained /\ ~ (reviewed' /\ unlock = "none"))
       /\ ready' = (ready \/ (reviewed' /\ reviewed /\ drained /\ unlock = "elapsed"))
       /\ shown' = shown \cup Row(layout, start)
       /\ UNCHANGED confirmed
     ELSE UNCHANGED <<fields, shown>>
  /\ UNCHANGED <<layout, focused, picker, pending, input, asks, mixed, blind>>

Next ==
  \/ Ask \/ Withdraw \/ Menu \/ Leave \/ Activate \/ FallBack \/ UpdateDimensions
  \/ Press \/ Elsewhere \/ Deny \/ Approve \/ Unaccepted \/ Confirm \/ Scroll \/ EndRead \/ Elapse
  \/ Draw

Spec == Init /\ [][Next]_vars

(***************************************************************************)
(* Properties                                                                *)
(***************************************************************************)
TypeOK ==
  /\ turn \in {"size", "read", "draw"} /\ layout \in Layouts
  /\ {focused, picker, rendered, reviewed, valid, drained, ready, mixed, blind} \subseteq BOOLEAN
  /\ pending \in {"none", "valid", "invalid"} /\ asks \in 0..MaxApprovals
  /\ scroll \in 0..Units /\ maximum \in 0..Units /\ until \in 0..Units
  /\ confirmed \in {"no", "yes", "early"} /\ unlock \in {"none", "waiting", "elapsed"}
  /\ Len(input) <= MaxTyped /\ shown \subseteq 1..Units

\* An approval is given only after every piece of it was on the screen, and by keys
\* typed after the last piece was (approval_can_accept, approval_scroll_down,
\* _update_dimensions, _unlock_review).
ApprovedWasSeen == ~ blind
=============================================================================
