--------------------------- MODULE InterfaceProofs ---------------------------
(***************************************************************************)
(* What the proof system shows of two parts of MCInterface, for every value    *)
(* of the constants: an approval is given only by someone who has seen all of  *)
(* it; a chat keeps every message once and in order, cancels the job a double  *)
(* Escape was meant for, and shows what its workers do.  Each theorem rests on *)
(* an inductive invariant of its part, which is a conjunction of named facts;  *)
(* a step of another part leaves it alone.                                     *)
(***************************************************************************)
EXTENDS MCInterface, Integers, Sequences, FiniteSets, FiniteSetTheorems, FunctionTheorems,
        SequenceTheorems, TLAPS

-----------------------------------------------------------------------------
(* The review of an approval (ApprovalReview).                               *)

Typings == [key : Review!Keys, late : BOOLEAN]

\* The row of a layout that shows a piece, and how many rows there are.
RowOf  == [l \in Layouts |-> [u \in 1..Units |-> (u - 1) \div TwoWide[l]]]
Height == [l \in Layouts |-> Review!Rows(l)]

Marks ==
  /\ focused \in BOOLEAN /\ reviewPicker \in BOOLEAN /\ mixed \in BOOLEAN
  /\ rendered \in BOOLEAN /\ reviewed \in BOOLEAN /\ valid \in BOOLEAN
  /\ drained \in BOOLEAN /\ ready \in BOOLEAN
Measures ==
  /\ layout \in Layouts /\ scroll \in Nat /\ maximum \in Nat /\ until \in Nat
Phases ==
  /\ reviewTurn \in {"size", "read", "draw"} /\ pending \in {"none", "valid", "invalid"}
  /\ confirmed \in {"no", "yes", "early"} /\ unlock \in {"none", "waiting", "elapsed"}
ReviewTyped == Marks /\ Measures /\ Phases

\* Every row above the frontier was on the screen, in this layout; a review is
\* complete when no row is below it; what is drawn as valid is the approval.
Covered ==
  pending # "none" =>
    /\ ~ mixed => /\ \A u \in 1..Units : RowOf[layout][u] < until => u \in shown
                  /\ reviewed => until >= Height[layout]
    /\ valid => pending = "valid"

\* Once the keys that were typed before the end of the review are read, every
\* unread key was typed after it, and only such keys confirm.
Unhurried ==
  /\ ready => drained
  /\ drained => unlock = "elapsed"
  /\ ~ mixed /\ focused /\ drained => \A i \in 1..Len(input) : input[i].late
  /\ ~ mixed => confirmed # "early"

Awaited  == input \in Seq(Typings)
Onscreen == shown \subseteq 1..Units

ReviewInv == ReviewTyped /\ Awaited /\ Onscreen /\ Covered /\ Unhurried /\ ~ blind

LEMMA RowsOfLayout ==
  ASSUME NEW l \in Layouts
  PROVE  /\ Review!Rows(l) = Height[l] /\ Height[l] \in Nat /\ Height[l] > 0
         /\ \A u \in 1..Units : RowOf[l][u] \in Nat /\ RowOf[l][u] < Height[l]
         /\ \A r : Review!Row(l, r) = {u \in 1..Units : RowOf[l][u] = r}
         /\ TwoWide[l] > 0
<1>1. Units \in Nat \ {0} /\ TwoWide[l] \in {1, 2}
  BY ReviewAssumed DEF Review!ReviewAssumption, TwoWide
<1>2. Height[l] = (Units + TwoWide[l] - 1) \div TwoWide[l] /\ Review!Rows(l) = Height[l]
  BY DEF Height, Review!Rows
<1>3. \A u \in 1..Units : RowOf[l][u] = (u - 1) \div TwoWide[l]
  BY DEF RowOf
<1>4. Height[l] \in Nat /\ Height[l] > 0
  BY <1>1, <1>2
<1>5. \A u \in 1..Units : RowOf[l][u] \in Nat /\ RowOf[l][u] < Height[l]
  BY <1>1, <1>2, <1>3
<1>6. \A r : Review!Row(l, r) = {u \in 1..Units : RowOf[l][u] = r}
  BY <1>3 DEF Review!Row
<1>7. QED
  BY <1>1, <1>2, <1>4, <1>5, <1>6

LEMMA ReviewStarts == Review!Init => ReviewInv
<1>1. Review!Init => Awaited /\ Onscreen
  BY DEF Review!Init, Awaited, Onscreen
<1>2. Review!Init => Marks
  BY DEF Review!Init, Marks
<1>3. Review!Init => Measures
  BY DEF Review!Init, Measures
<1>4. Review!Init => Phases
  BY DEF Review!Init, Phases
<1>5. Review!Init => Covered
  BY DEF Review!Init, Covered
<1>6. Review!Init => Unhurried
  BY DEF Review!Init, Unhurried
<1>7. QED
  BY <1>1, <1>2, <1>3, <1>4, <1>5, <1>6 DEF Review!Init, ReviewInv, ReviewTyped

\* The frontier moves down one row at most, to the row that is drawn.
LEMMA FrontierMoves ==
  ASSUME NEW r \in Nat, until \in Nat
  PROVE  /\ Review!Frontier(r) \in Nat
         /\ \A n \in Nat : n < Review!Frontier(r) => n < until \/ n = r
BY DEF Review!Frontier, Review!Most

LEMMA ReviewStep == ReviewInv /\ Review!Next => ReviewInv'
<1> SUFFICES ASSUME ReviewTyped, Awaited, Onscreen, Covered, Unhurried, ~ blind, Review!Next
             PROVE  ReviewInv'
  BY DEF ReviewInv
<1>0. layout \in Layouts /\ \A l \in Layouts : \A u \in 1..Units : ~ (RowOf[l][u] < 0)
  BY RowsOfLayout DEF ReviewTyped, Marks, Measures, Phases
<1>1. CASE Review!Ask
  <2>1. ReviewTyped'
    <3>1. Marks'
      BY <1>1, <1>0 DEF Review!Ask, Review!ResetReview, Review!Unconfirmed, Marks, ReviewTyped
    <3>2. Measures'
      BY <1>1, <1>0 DEF Review!Ask, Review!ResetReview, Review!Unconfirmed, Measures, ReviewTyped
    <3>3. Phases'
      BY <1>1, <1>0 DEF Review!Ask, Review!ResetReview, Review!Unconfirmed, Phases, ReviewTyped
    <3>4. QED
      BY <3>1, <3>2, <3>3 DEF ReviewTyped
  <2>2. Covered'
    BY <1>1, <1>0 DEF Review!Ask, Review!ResetReview, Review!Unconfirmed, Covered
  <2>3. Unhurried'
    BY <1>1, <1>0 DEF Review!Ask, Review!ResetReview, Review!Unconfirmed, Unhurried
  <2>4. ~ blind' /\ input' = input /\ (shown' \in {shown, {}})
    BY <1>1, <1>0 DEF Review!Ask, Review!ResetReview, Review!Unconfirmed
  <2>5. QED
    BY <2>1, <2>2, <2>3, <2>4 DEF ReviewInv, Awaited, Onscreen
<1>2. CASE Review!Withdraw \/ Review!Menu \/ Review!Leave
  <2>1. ReviewTyped'
    <3>1. Marks'
      BY <1>2 DEF Review!Withdraw, Review!Menu, Review!Leave, Review!fields, Marks, ReviewTyped
    <3>2. Measures'
      BY <1>2 DEF Review!Withdraw, Review!Menu, Review!Leave, Review!fields, Measures, ReviewTyped
    <3>3. Phases'
      BY <1>2 DEF Review!Withdraw, Review!Menu, Review!Leave, Review!fields, Phases, ReviewTyped
    <3>4. QED
      BY <3>1, <3>2, <3>3 DEF ReviewTyped
  <2>2. Covered'
    BY <1>2 DEF Review!Withdraw, Review!Menu, Review!Leave, Review!fields, Covered
  <2>3. Unhurried'
    BY <1>2 DEF Review!Withdraw, Review!Menu, Review!Leave, Review!fields, Unhurried
  <2>4. ~ blind' /\ input' = input /\ (shown' \in {shown, {}})
    BY <1>2 DEF Review!Withdraw, Review!Menu, Review!Leave, Review!fields
  <2>5. QED
    BY <2>1, <2>2, <2>3, <2>4 DEF ReviewInv, Awaited, Onscreen
<1>3. CASE Review!Activate \/ Review!FallBack
  <2>1. ReviewTyped'
    <3>1. Marks'
      BY <1>3 DEF Review!Activate, Review!FallBack,
         Review!Unconfirmed, Review!fields, Marks, ReviewTyped
    <3>2. Measures'
      BY <1>3 DEF Review!Activate, Review!FallBack,
         Review!Unconfirmed, Review!fields, Measures, ReviewTyped
    <3>3. Phases'
      BY <1>3 DEF Review!Activate, Review!FallBack,
         Review!Unconfirmed, Review!fields, Phases, ReviewTyped
    <3>4. QED
      BY <3>1, <3>2, <3>3 DEF ReviewTyped
  <2>2. Covered'
    BY <1>3 DEF Review!Activate, Review!FallBack,
         Review!Unconfirmed, Review!fields, Covered
  <2>3. Unhurried'
    BY <1>3 DEF Review!Activate, Review!FallBack,
         Review!Unconfirmed, Review!fields, Unhurried
  <2>4. ~ blind' /\ input' = input /\ (shown' \in {shown, {}})
    BY <1>3 DEF Review!Activate, Review!FallBack, Review!Unconfirmed, Review!fields
  <2>5. QED
    BY <2>1, <2>2, <2>3, <2>4 DEF ReviewInv, Awaited, Onscreen
<1>4. CASE Review!UpdateDimensions
  <2>1. ReviewTyped'
    <3>1. Marks'
      BY <1>4, <1>0 DEF Review!UpdateDimensions, Review!ResizeReview, Review!ResetReview,
         Review!Unconfirmed, Review!fields, Marks, ReviewTyped
    <3>2. Measures'
      BY <1>4, <1>0 DEF Review!UpdateDimensions, Review!ResizeReview, Review!ResetReview,
         Review!Unconfirmed, Review!fields, Measures, ReviewTyped
    <3>3. Phases'
      BY <1>4, <1>0 DEF Review!UpdateDimensions, Review!ResizeReview, Review!ResetReview,
         Review!Unconfirmed, Review!fields, Phases, ReviewTyped
    <3>4. QED
      BY <3>1, <3>2, <3>3 DEF ReviewTyped
  <2>2. Covered'
    <3>1. CASE layout' # layout /\ focused /\ pending # "none"
      BY <1>0, <1>4, <3>1 DEF Review!UpdateDimensions, Review!ResizeReview,
         Review!ResetReview, Review!Unconfirmed, Covered
    <3>2. CASE layout' = layout
      BY <1>4, <3>2 DEF Review!UpdateDimensions, Review!fields, Covered
    <3>3. CASE layout' # layout /\ ~ (focused /\ pending # "none")
      BY <1>4, <3>3 DEF Review!UpdateDimensions, Review!fields, Covered
    <3>4. QED
      BY <3>1, <3>2, <3>3
  <2>3. Unhurried'
    BY <1>4, <1>0 DEF Review!UpdateDimensions, Review!ResizeReview, Review!ResetReview,
         Review!Unconfirmed, Review!fields, Unhurried
  <2>4. ~ blind' /\ input' = input /\ (shown' \in {shown, {}})
    BY <1>4, <1>0 DEF Review!UpdateDimensions, Review!ResizeReview, Review!ResetReview,
         Review!Unconfirmed, Review!fields
  <2>5. QED
    BY <2>1, <2>2, <2>3, <2>4 DEF ReviewInv, Awaited, Onscreen
<1>5. CASE Review!Press
  <2>1. PICK k \in Review!Keys :
          input' = Append(input, [key |-> k, late |-> drained /\ focused])
    BY <1>5 DEF Review!Press
  <2>2. Awaited'
    <3> DEFINE typing == [key |-> k, late |-> drained /\ focused]
    <3>1. typing \in Typings
      BY DEF Typings, ReviewTyped, Marks, Measures, Phases
    <3> HIDE DEF typing
    <3>2. input' = Append(input, typing)
      BY <2>1 DEF typing
    <3>3. QED
      BY <3>1, <3>2 DEF Awaited
  <2>3. \A i \in 1..Len(input') :
          \/ i \in 1..Len(input) /\ input'[i] = input[i]
          \/ input'[i].late = (drained /\ focused)
    BY <2>1 DEF Awaited
  <2>4. Unhurried'
    BY <1>5, <2>3 DEF Unhurried, Review!Press, Review!fields
  <2>5. ReviewTyped' /\ Covered' /\ ~ blind'
    BY <1>5 DEF ReviewTyped, Marks, Measures, Phases, Covered, Review!Press, Review!fields
  <2>6. QED
    BY <1>5, <2>2, <2>4, <2>5 DEF ReviewInv, Onscreen, Review!Press
<1>6. CASE Review!Elsewhere \/ Review!Deny \/ Review!Approve \/ Review!Unaccepted
            \/ Review!Confirm \/ Review!Scroll
  <2>0. Review!ReadKey
    BY <1>6 DEF Review!Elsewhere, Review!Deny, Review!Approve, Review!Unaccepted,
       Review!Confirm, Review!Scroll
  <2>1. input # <<>> /\ input' = Tail(input)
    BY <2>0 DEF Review!ReadKey
  <2>2. Awaited' /\ Head(input) = input[1]
    BY <2>1 DEF Awaited
  <2>3. 1 \in 1..Len(input)
    BY <2>1, EmptySeq DEF Awaited
  <2>4. \A i \in 1..Len(input') : i + 1 \in 1..Len(input) /\ input'[i] = input[i + 1]
    BY <2>1 DEF Awaited
  <2>5. ~ mixed /\ focused /\ drained =>
          /\ \A i \in 1..Len(input') : input'[i].late
          /\ Head(input).late
    BY <2>2, <2>3, <2>4 DEF Unhurried
  <2>6. UNCHANGED <<reviewTurn, layout, focused, reviewPicker, approvals, shown, mixed>>
    BY <2>0 DEF Review!ReadKey
  <2>7. CASE Review!Elsewhere
    <3>10. ReviewTyped'
      <4>1. Marks'
        BY <2>5, <2>6, <2>7 DEF Review!Elsewhere, Review!fields, Marks, ReviewTyped
      <4>2. Measures'
        BY <2>5, <2>6, <2>7 DEF Review!Elsewhere, Review!fields, Measures, ReviewTyped
      <4>3. Phases'
        BY <2>5, <2>6, <2>7 DEF Review!Elsewhere, Review!fields, Phases, ReviewTyped
      <4>4. QED
        BY <4>1, <4>2, <4>3 DEF ReviewTyped
    <3>20. Covered'
      BY <2>5, <2>6, <2>7 DEF Review!Elsewhere, Review!fields, Covered
    <3>30. Unhurried'
      BY <2>5, <2>6, <2>7 DEF Review!Elsewhere, Review!fields, Unhurried
    <3>40. ~ blind'
      BY <2>5, <2>6, <2>7 DEF Review!Elsewhere, Review!fields
    <3>50. QED
      BY <3>10, <3>20, <3>30, <3>40, <2>2, <2>6 DEF ReviewInv, Awaited, Onscreen
  <2>8. CASE Review!Deny
    <3>10. ReviewTyped'
      <4>1. Marks'
        BY <2>5, <2>6, <2>8 DEF Review!Deny, Review!Resolved, Marks, ReviewTyped
      <4>2. Measures'
        BY <2>5, <2>6, <2>8 DEF Review!Deny, Review!Resolved, Measures, ReviewTyped
      <4>3. Phases'
        BY <2>5, <2>6, <2>8 DEF Review!Deny, Review!Resolved, Phases, ReviewTyped
      <4>4. QED
        BY <4>1, <4>2, <4>3 DEF ReviewTyped
    <3>20. Covered'
      BY <2>5, <2>6, <2>8 DEF Review!Deny, Review!Resolved, Covered
    <3>30. Unhurried'
      BY <2>5, <2>6, <2>8 DEF Review!Deny, Review!Resolved, Unhurried
    <3>40. ~ blind'
      BY <2>5, <2>6, <2>8 DEF Review!Deny, Review!Resolved
    <3>50. QED
      BY <3>10, <3>20, <3>30, <3>40, <2>2, <2>6 DEF ReviewInv, Awaited, Onscreen
  <2>9. CASE Review!Unaccepted
    <3>10. ReviewTyped'
      <4>1. Marks'
        BY <2>5, <2>6, <2>9 DEF Review!Unaccepted, Review!fields, Marks, ReviewTyped
      <4>2. Measures'
        BY <2>5, <2>6, <2>9 DEF Review!Unaccepted, Review!fields, Measures, ReviewTyped
      <4>3. Phases'
        BY <2>5, <2>6, <2>9 DEF Review!Unaccepted, Review!fields, Phases, ReviewTyped
      <4>4. QED
        BY <4>1, <4>2, <4>3 DEF ReviewTyped
    <3>20. Covered'
      BY <2>5, <2>6, <2>9 DEF Review!Unaccepted, Review!fields, Covered
    <3>30. Unhurried'
      BY <2>5, <2>6, <2>9 DEF Review!Unaccepted, Review!fields, Unhurried
    <3>40. ~ blind'
      BY <2>5, <2>6, <2>9 DEF Review!Unaccepted, Review!fields
    <3>50. QED
      BY <3>10, <3>20, <3>30, <3>40, <2>2, <2>6 DEF ReviewInv, Awaited, Onscreen
  <2>10. CASE Review!Confirm
    <3>1. focused /\ pending # "none"
      BY <2>10 DEF Review!Confirm, Review!Reviewing
    <3>2. ~ mixed => confirmed' # "early"
      BY <2>5, <2>10, <3>1 DEF Review!Confirm, Unhurried
    <3>10. ReviewTyped'
      <4>1. Marks'
        BY <2>5, <2>6, <2>10, <3>2 DEF Review!Confirm, Marks, ReviewTyped
      <4>2. Measures'
        BY <2>5, <2>6, <2>10, <3>2 DEF Review!Confirm, Measures, ReviewTyped
      <4>3. Phases'
        BY <2>5, <2>6, <2>10, <3>2 DEF Review!Confirm, Phases, ReviewTyped
      <4>4. QED
        BY <4>1, <4>2, <4>3 DEF ReviewTyped
    <3>20. Covered'
      BY <2>5, <2>6, <2>10, <3>2 DEF Review!Confirm, Covered
    <3>30. Unhurried'
      BY <2>5, <2>6, <2>10, <3>2 DEF Review!Confirm, Unhurried
    <3>40. ~ blind'
      BY <2>5, <2>6, <2>10, <3>2 DEF Review!Confirm
    <3>50. QED
      BY <3>10, <3>20, <3>30, <3>40, <2>2, <2>6 DEF ReviewInv, Awaited, Onscreen
  <2>11. CASE Review!Scroll
    <3>1. PICK d \in Distances : scroll' = IF Head(input).key = "down"
            THEN Review!ScrolledDown(d) ELSE Review!Most(scroll, d) - d
      BY <2>11 DEF Review!Scroll
    <3>2. d \in Nat
      BY ReviewAssumed DEF Review!ReviewAssumption
    <3>3. scroll' \in Nat
      BY <3>1, <3>2 DEF Review!ScrolledDown, Review!Least, Review!Most, ReviewTyped, Marks, Measures, Phases
    <3>10. ReviewTyped'
      <4>1. Marks'
        BY <2>5, <2>6, <2>11, <3>3 DEF Review!Scroll, Marks, ReviewTyped
      <4>2. Measures'
        BY <2>5, <2>6, <2>11, <3>3 DEF Review!Scroll, Measures, ReviewTyped
      <4>3. Phases'
        BY <2>5, <2>6, <2>11, <3>3 DEF Review!Scroll, Phases, ReviewTyped
      <4>4. QED
        BY <4>1, <4>2, <4>3 DEF ReviewTyped
    <3>20. Covered'
      BY <2>5, <2>6, <2>11, <3>3 DEF Review!Scroll, Covered
    <3>30. Unhurried'
      BY <2>5, <2>6, <2>11, <3>3 DEF Review!Scroll, Unhurried
    <3>40. ~ blind'
      BY <2>5, <2>6, <2>11, <3>3 DEF Review!Scroll
    <3>50. QED
      BY <3>10, <3>20, <3>30, <3>40, <2>2, <2>6 DEF ReviewInv, Awaited, Onscreen
  <2>12. CASE Review!Approve
    <3>1. focused /\ pending # "none" /\ ready /\ reviewed /\ valid
      BY <2>12 DEF Review!Approve, Review!Reviewing, Review!CanAccept
    <3>2. ASSUME ~ mixed
          PROVE  shown = 1..Units
      <4>1. until >= Height[layout] /\ layout \in Layouts /\ until \in Nat
        BY <3>1, <3>2 DEF Covered, ReviewTyped, Marks, Measures, Phases
      <4>2. \A u \in 1..Units : RowOf[layout][u] < until
        BY <4>1, RowsOfLayout
      <4>3. \A u \in 1..Units : u \in shown
        BY <3>1, <3>2, <4>2 DEF Covered
      <4>4. QED
        BY <4>3 DEF Onscreen
    <3>3. ~ blind'
      BY <2>12, <3>1, <3>2 DEF Review!Approve, Covered, Unhurried
    <3>10. ReviewTyped'
      <4>1. Marks'
        BY <2>5, <2>6, <2>12, <3>3 DEF Review!Approve, Review!Resolved, Marks, ReviewTyped
      <4>2. Measures'
        BY <2>5, <2>6, <2>12, <3>3 DEF Review!Approve, Review!Resolved, Measures, ReviewTyped
      <4>3. Phases'
        BY <2>5, <2>6, <2>12, <3>3 DEF Review!Approve, Review!Resolved, Phases, ReviewTyped
      <4>4. QED
        BY <4>1, <4>2, <4>3 DEF ReviewTyped
    <3>20. Covered'
      BY <2>5, <2>6, <2>12, <3>3 DEF Review!Approve, Review!Resolved, Covered
    <3>30. Unhurried'
      BY <2>5, <2>6, <2>12, <3>3 DEF Review!Approve, Review!Resolved, Unhurried
    <3>50. QED
      BY <3>10, <3>20, <3>30, <3>3, <2>2, <2>6 DEF ReviewInv, Awaited, Onscreen
  <2>13. QED
    BY <1>6, <2>7, <2>8, <2>9, <2>10, <2>11, <2>12
<1>7. CASE Review!EndRead
  <2>0. input = <<>> => Len(input) = 0
    OBVIOUS
  <2>1. ReviewTyped'
    <3>1. Marks'
      BY <1>7, <2>0 DEF Review!EndRead, Review!Unlocks, Marks, ReviewTyped
    <3>2. Measures'
      BY <1>7, <2>0 DEF Review!EndRead, Review!Unlocks, Measures, ReviewTyped
    <3>3. Phases'
      BY <1>7, <2>0 DEF Review!EndRead, Review!Unlocks, Phases, ReviewTyped
    <3>4. QED
      BY <3>1, <3>2, <3>3 DEF ReviewTyped
  <2>2. Covered'
    BY <1>7, <2>0 DEF Review!EndRead, Review!Unlocks, Covered
  <2>3. Unhurried'
    BY <1>7, <2>0 DEF Review!EndRead, Review!Unlocks, Unhurried
  <2>4. ~ blind' /\ input' = input /\ (shown' \in {shown, {}})
    BY <1>7, <2>0 DEF Review!EndRead, Review!Unlocks
  <2>5. QED
    BY <2>1, <2>2, <2>3, <2>4 DEF ReviewInv, Awaited, Onscreen
<1>8. CASE Review!Elapse
  <2>1. ReviewTyped'
    <3>1. Marks'
      BY <1>8 DEF Review!Elapse, Marks, ReviewTyped
    <3>2. Measures'
      BY <1>8 DEF Review!Elapse, Measures, ReviewTyped
    <3>3. Phases'
      BY <1>8 DEF Review!Elapse, Phases, ReviewTyped
    <3>4. QED
      BY <3>1, <3>2, <3>3 DEF ReviewTyped
  <2>2. Covered'
    BY <1>8 DEF Review!Elapse, Covered
  <2>3. Unhurried'
    BY <1>8 DEF Review!Elapse, Unhurried
  <2>4. ~ blind' /\ input' = input /\ (shown' \in {shown, {}})
    BY <1>8 DEF Review!Elapse
  <2>5. QED
    BY <2>1, <2>2, <2>3, <2>4 DEF ReviewInv, Awaited, Onscreen
<1>9. CASE Review!Draw
  <2>1. UNCHANGED <<layout, focused, reviewPicker, pending, input, approvals, mixed, blind>>
        /\ reviewTurn' = "size"
    BY <1>9 DEF Review!Draw
  <2>2. CASE ~ (focused /\ ~ reviewPicker /\ Review!Paged)
    <3>1. UNCHANGED <<Review!fields, shown>>
      BY <1>9, <2>2 DEF Review!Draw
    <3>10. ReviewTyped'
      <4>1. Marks'
        BY <2>1, <3>1 DEF Review!fields, Marks, ReviewTyped
      <4>2. Measures'
        BY <2>1, <3>1 DEF Review!fields, Measures, ReviewTyped
      <4>3. Phases'
        BY <2>1, <3>1 DEF Review!fields, Phases, ReviewTyped
      <4>4. QED
        BY <4>1, <4>2, <4>3 DEF ReviewTyped
    <3>20. Covered'
      BY <2>1, <3>1 DEF Review!fields, Covered
    <3>30. Unhurried'
      BY <2>1, <3>1 DEF Review!fields, Unhurried
    <3>40. ~ blind' /\ input' = input /\ shown' = shown
      BY <2>1, <3>1 DEF Review!fields
    <3>50. QED
      BY <3>10, <3>20, <3>30, <3>40 DEF ReviewInv, Awaited, Onscreen
  <2>3. CASE focused /\ ~ reviewPicker /\ Review!Paged
    <3> DEFINE r == Review!Least(scroll, Review!Rows(layout) - 1)
    <3>1. /\ scroll' = r /\ maximum' = Review!Rows(layout) - 1
          /\ valid' = (pending = "valid") /\ rendered' = TRUE
          /\ until' = Review!Frontier(r) /\ reviewed' = (until' >= Review!Rows(layout))
          /\ unlock' = IF reviewed' /\ unlock = "none" THEN "waiting" ELSE unlock
          /\ drained' = (drained /\ ~ (reviewed' /\ unlock = "none"))
          /\ ready' = (ready \/ (reviewed' /\ reviewed /\ drained /\ unlock = "elapsed"))
          /\ shown' = shown \cup Review!Row(layout, r)
          /\ confirmed' = confirmed
      BY <1>9, <2>3 DEF Review!Draw
    <3>2. layout \in Layouts /\ scroll \in Nat /\ until \in Nat
      BY DEF ReviewTyped, Marks, Measures, Phases
    <3>3. Review!Rows(layout) = Height[layout] /\ Height[layout] - 1 \in Nat
      BY <3>2, RowsOfLayout
    <3>4. r \in Nat
      BY <3>2, <3>3 DEF Review!Least
    <3> HIDE DEF r
    <3>5. until' \in Nat /\ \A n \in Nat : n < until' => n < until \/ n = r
      BY <3>1, <3>2, <3>4, FrontierMoves
    <3>6. shown' = shown \cup {u \in 1..Units : RowOf[layout][u] = r}
      BY <3>1, <3>2, RowsOfLayout
    <3>7. ASSUME pending # "none", ~ mixed
          PROVE  \A u \in 1..Units : RowOf[layout][u] < until' => u \in shown'
      <4>1. \A u \in 1..Units : RowOf[layout][u] \in Nat
        BY <3>2, RowsOfLayout
      <4>2. \A u \in 1..Units : RowOf[layout][u] < until => u \in shown
        BY <3>7 DEF Covered
      <4>3. QED
        BY <3>5, <3>6, <4>1, <4>2
    <3>8. Covered'
      BY <2>1, <3>1, <3>3, <3>7 DEF Covered
    <3>9. Unhurried'
      BY <2>1, <3>1 DEF Unhurried, ReviewTyped, Marks, Measures, Phases, Marks, Measures, Phases
    <3>10. ReviewTyped'
      BY <2>1, <3>1, <3>3, <3>4, <3>5 DEF ReviewTyped, Marks, Measures, Phases
    <3>11. Onscreen'
      BY <3>6 DEF Onscreen
    <3>12. QED
      BY <2>1, <3>8, <3>9, <3>10, <3>11 DEF ReviewInv, Awaited
  <2>4. QED
    BY <2>2, <2>3
<1>10. QED
  BY <1>1, <1>2, <1>3, <1>4, <1>5, <1>6, <1>7, <1>8, <1>9
  DEF Review!Next

LEMMA ReviewStutters == ReviewInv /\ UNCHANGED reviewVars => ReviewInv'
BY DEF ReviewInv, ReviewTyped, Marks, Measures, Phases, Awaited, Onscreen, Covered, Unhurried, reviewVars

LEMMA ReviewInvariant == Spec => [](part = "review" => ReviewInv)
<1>1. Init => (part = "review" => ReviewInv)
  BY ReviewStarts DEF Init
<1>2. (part = "review" => ReviewInv) /\ [Next]_vars => (part = "review" => ReviewInv)'
  <2> SUFFICES ASSUME part = "review" => ReviewInv, [Next]_vars, part' = "review"
               PROVE  ReviewInv'
    OBVIOUS
  <2>1. CASE UNCHANGED reviewVars /\ part' = part
    BY <2>1, ReviewStutters
  <2>2. CASE Only("review") /\ Review!Next
    BY <2>2, ReviewStep DEF Only
  <2>3. QED
    BY <2>1, <2>2 DEF Next, Only, vars
<1>3. QED
  BY <1>1, <1>2, PTL DEF Spec

\* Nobody gives an approval without having had every piece of it on the screen, or by
\* keys typed before the last piece was there, whatever is scrolled, resized or left
\* meanwhile (raychat/ui/controller.py approval_can_accept, _update_approval_review,
\* _unlock_review).
THEOREM ApprovalsInformed == Spec => []ApprovedWasSeen
<1>1. (part = "review" => ReviewInv) => ApprovedWasSeen
  BY DEF ReviewInv, ApprovedWasSeen, Review!ApprovedWasSeen
<1>2. QED
  BY <1>1, ReviewInvariant, PTL

-----------------------------------------------------------------------------
(* Sequences of a chat (ChatFrontend).                                       *)

LEMMA Members == ASSUME NEW S, NEW s \in Seq(S)
                 PROVE  /\ Len(s) \in Nat /\ DOMAIN s = 1..Len(s)
                        /\ \A i \in 1..Len(s) : s[i] \in S
                        /\ Chat!Elements(s) \subseteq S
                        /\ \A x : x \in Chat!Elements(s) <=> \E i \in 1..Len(s) : s[i] = x
<1>1. Len(s) \in Nat /\ DOMAIN s = 1..Len(s) /\ \A i \in 1..Len(s) : s[i] \in S
  OBVIOUS
<1>2. QED
  BY <1>1 DEF Chat!Elements

LEMMA Appended ==
  ASSUME NEW S, NEW s \in Seq(S), NEW x \in S
  PROVE  /\ Append(s, x) \in Seq(S) /\ Len(Append(s, x)) = Len(s) + 1 /\ Len(s) \in Nat
         /\ \A i \in 1..Len(s) : Append(s, x)[i] = s[i] /\ i \in 1..Len(Append(s, x))
         /\ Append(s, x)[Len(s) + 1] = x
         /\ \A i \in 1..Len(Append(s, x)) : i \in 1..Len(s) \/ i = Len(s) + 1
         /\ Chat!Elements(Append(s, x)) = Chat!Elements(s) \cup {x}
<1>1. /\ Append(s, x) \in Seq(S) /\ Len(Append(s, x)) = Len(s) + 1 /\ Len(s) \in Nat
      /\ Append(s, x)[Len(s) + 1] = x
  OBVIOUS
<1>2. \A i \in 1..Len(s) : Append(s, x)[i] = s[i]
  OBVIOUS
<1>3. /\ \A i \in 1..Len(s) : i \in 1..Len(Append(s, x))
      /\ \A i \in 1..Len(Append(s, x)) : i \in 1..Len(s) \/ i = Len(s) + 1
      /\ Len(s) + 1 \in 1..Len(Append(s, x))
  BY <1>1
<1>4. ASSUME NEW y PROVE y \in Chat!Elements(Append(s, x)) <=> y \in Chat!Elements(s) \cup {x}
  <2>1. ASSUME y \in Chat!Elements(Append(s, x)) PROVE y \in Chat!Elements(s) \cup {x}
    <3>1. PICK i \in 1..Len(Append(s, x)) : Append(s, x)[i] = y
      BY <1>1, <2>1, Members
    <3>2. QED
      BY <1>1, <1>2, <1>3, <3>1, Members
  <2>2. ASSUME y \in Chat!Elements(s) PROVE y \in Chat!Elements(Append(s, x))
    <3>1. PICK i \in 1..Len(s) : s[i] = y
      BY <2>2, Members
    <3>2. QED
      BY <1>1, <1>2, <1>3, <3>1, Members
  <2>3. x \in Chat!Elements(Append(s, x))
    BY <1>1, <1>3, Members
  <2>4. QED
    BY <2>1, <2>2, <2>3
<1>5. QED
  BY <1>1, <1>2, <1>3, <1>4

LEMMA Tailed ==
  ASSUME NEW S, NEW s \in Seq(S), s # <<>>
  PROVE  /\ Tail(s) \in Seq(S) /\ Len(Tail(s)) = Len(s) - 1 /\ Len(Tail(s)) \in Nat
         /\ 1 \in 1..Len(s) /\ s[1] = Head(s) /\ Head(s) \in S
         /\ \A i \in 1..Len(Tail(s)) : i + 1 \in 1..Len(s) /\ Tail(s)[i] = s[i + 1]
         /\ \A i \in 1..Len(s) : i # 1 => i - 1 \in 1..Len(Tail(s)) /\ Tail(s)[i - 1] = s[i]
         /\ Chat!Elements(s) = {Head(s)} \cup Chat!Elements(Tail(s))
<1>1. /\ Tail(s) \in Seq(S) /\ Len(Tail(s)) = Len(s) - 1 /\ Len(Tail(s)) \in Nat
      /\ 1 \in 1..Len(s) /\ s[1] = Head(s) /\ Head(s) \in S /\ Len(s) \in Nat
  OBVIOUS
<1>2. \A i \in 1..Len(Tail(s)) : i + 1 \in 1..Len(s) /\ Tail(s)[i] = s[i + 1]
  OBVIOUS
<1>3. \A i \in 1..Len(s) : i # 1 => i - 1 \in 1..Len(Tail(s)) /\ i - 1 + 1 = i
  BY <1>1
<1>4. \A i \in 1..Len(s) : i # 1 => i - 1 \in 1..Len(Tail(s)) /\ Tail(s)[i - 1] = s[i]
  BY <1>2, <1>3
<1>5. ASSUME NEW x, x \in Chat!Elements(s) PROVE x = Head(s) \/ x \in Chat!Elements(Tail(s))
  <2>1. PICK i \in 1..Len(s) : s[i] = x
    BY <1>5, Members
  <2>2. CASE i = 1
    BY <1>1, <2>1, <2>2
  <2>3. CASE i # 1
    BY <1>1, <1>4, <2>1, <2>3, Members
  <2>4. QED
    BY <2>2, <2>3
<1>6. ASSUME NEW x, x \in Chat!Elements(Tail(s)) PROVE x \in Chat!Elements(s)
  <2>1. PICK i \in 1..Len(Tail(s)) : Tail(s)[i] = x
    BY <1>1, <1>6, Members
  <2>2. QED
    BY <1>2, <2>1, Members
<1>7. Head(s) \in Chat!Elements(s)
  BY <1>1, Members
<1>8. QED
  BY <1>1, <1>2, <1>4, <1>5, <1>6, <1>7

-----------------------------------------------------------------------------
(* The messages of a chat: each is kept, once and in order.                  *)

Messages == [entry : Nat, text : {"", "text", "edited"}]
TextTyped ==
  /\ items \in Seq(Messages) /\ selected \in Nat /\ editor \in {"", "text", "edited"}
  /\ entered \in Nat /\ sent \in Seq(Nat)
  /\ IsFiniteSet(dropped) /\ dropped \subseteq Nat
  /\ \A n \in DOMAIN edits : edits[n] \in {"", "text", "edited"}
\* A message is queued, sent or dropped, and every number handed out is one.
Placed ==
  /\ \A n \in Nat : n \in 1..entered <=>
       n \in Chat!Waiting \/ n \in Chat!Elements(sent) \/ n \in dropped
  /\ \A i \in 1..Len(items) : items[i].entry \notin dropped
  /\ \A i \in 1..Len(sent) : sent[i] \notin dropped
\* What was sent comes before what waits.
InOrder ==
  /\ \A i, j \in 1..Len(items) : i < j => items[i].entry < items[j].entry
  /\ \A i, j \in 1..Len(sent) : i < j => sent[i] < sent[j]
  /\ \A i \in 1..Len(items) : \A j \in 1..Len(sent) : sent[j] < items[i].entry
Edited ==
  /\ \A i \in 1..Len(items) : items[i].text # ""
  /\ selected <= Len(items) /\ DOMAIN edits \subseteq Chat!Waiting
  /\ selected = 0 => edits = <<>>
  /\ chatPicker => items = <<>>
Counted == Len(items) + Len(sent) + Cardinality(dropped) = entered
TextInv == TextTyped /\ Placed /\ InOrder /\ Edited /\ Counted

\* The messages of a queue.
LEMMA EntriesOf ==
  ASSUME NEW s \in Seq(Messages)
  PROVE  /\ Len(s) \in Nat /\ DOMAIN s = 1..Len(s)
         /\ \A i \in 1..Len(s) : s[i] \in Messages /\ s[i].entry \in Nat
         /\ \A n : n \in {s[i].entry : i \in DOMAIN s} <=> \E i \in 1..Len(s) : s[i].entry = n
<1>1. Len(s) \in Nat /\ DOMAIN s = 1..Len(s) /\ \A i \in 1..Len(s) : s[i] \in Messages
  OBVIOUS
<1>2. QED
  BY <1>1 DEF Messages

LEMMA WaitingIs ==
  ASSUME TextTyped
  PROVE  /\ Len(items) \in Nat /\ Len(sent) \in Nat
         /\ \A i \in 1..Len(items) : items[i] \in Messages /\ items[i].entry \in Nat
         /\ \A n : n \in Chat!Waiting <=> \E i \in 1..Len(items) : items[i].entry = n
         /\ \A n : n \in Chat!Elements(sent) <=> \E i \in 1..Len(sent) : sent[i] = n
         /\ \A i \in 1..Len(sent) : sent[i] \in Nat
<1>1. items \in Seq(Messages) /\ sent \in Seq(Nat)
  BY DEF TextTyped
<1>2. QED
  BY <1>1, EntriesOf, Members DEF Chat!Waiting

LEMMA EnqueueKeeps ==
  ASSUME TextInv, Chat!Enqueue, UNCHANGED <<selected, edits, editor, sent, dropped>>,
         ~ chatPicker'
  PROVE  TextInv'
<1> DEFINE m == [entry |-> entered + 1, text |-> "text"]
<1>1. TextTyped /\ Placed /\ InOrder /\ Edited /\ Counted
  BY DEF TextInv
<1>2. entered \in Nat /\ items \in Seq(Messages) /\ entered' = entered + 1
  BY <1>1 DEF TextTyped, Chat!Enqueue
<1>3. m \in Messages /\ m.entry = entered + 1 /\ m.text # ""
  <2>1. entered + 1 \in Nat /\ m.entry = entered + 1 /\ m.text = "text"
    BY <1>2
  <2>2. m \in [entry : Nat, text : {"", "text", "edited"}]
    BY <2>1
  <2>3. QED
    BY <2>1, <2>2 DEF Messages
<1>4. items' = Append(items, m)
  BY DEF Chat!Enqueue
<1> HIDE DEF m
<1>5. /\ items' \in Seq(Messages) /\ Len(items') = Len(items) + 1 /\ Len(items) \in Nat
      /\ \A i \in 1..Len(items) : items'[i] = items[i] /\ i \in 1..Len(items')
      /\ items'[Len(items) + 1] = m /\ Len(items) + 1 \in 1..Len(items')
      /\ \A i \in 1..Len(items') : i \in 1..Len(items) \/ i = Len(items) + 1
  <2>1. /\ Append(items, m) \in Seq(Messages) /\ Len(Append(items, m)) = Len(items) + 1
        /\ Len(items) \in Nat
        /\ \A i \in 1..Len(items) : Append(items, m)[i] = items[i]
              /\ i \in 1..Len(Append(items, m))
        /\ Append(items, m)[Len(items) + 1] = m
        /\ \A i \in 1..Len(Append(items, m)) : i \in 1..Len(items) \/ i = Len(items) + 1
    BY <1>2, <1>3, Appended
  <2>2. Len(items) + 1 \in 1..(Len(items) + 1)
    BY <2>1
  <2>3. QED
    BY <1>4, <2>1, <2>2
<1>6. TextTyped'
  <2>1. entered + 1 \in Nat
    BY <1>2
  <2>2. \A n \in DOMAIN edits' : edits'[n] \in {"", "text", "edited"}
    BY <1>1 DEF TextTyped
  <2>3. QED
    BY <1>1, <1>2, <1>5, <2>1, <2>2 DEF TextTyped
<1>7. \A n : n \in Chat!Waiting' <=> n \in Chat!Waiting \/ n = entered + 1
  <2>1. \A n : n \in Chat!Waiting' <=> \E i \in 1..Len(items') : items'[i].entry = n
    BY <1>5, EntriesOf DEF Chat!Waiting
  <2>2. QED
    BY <1>1, <1>3, <1>5, <2>1, WaitingIs
<1>8. /\ \A n \in Chat!Waiting : n \in 1..entered
      /\ \A n \in Chat!Elements(sent) : n \in 1..entered
      /\ \A i \in 1..Len(items) : items[i].entry \in 1..entered
      /\ \A i \in 1..Len(sent) : sent[i] \in 1..entered
      /\ \A n \in dropped : n # entered + 1
  <2>1. /\ \A n \in Chat!Waiting : n \in 1..entered
        /\ \A n \in Chat!Elements(sent) : n \in 1..entered
    BY <1>1, WaitingIs DEF Placed
  <2>2. /\ \A i \in 1..Len(items) : items[i].entry \in Chat!Waiting
        /\ \A i \in 1..Len(sent) : sent[i] \in Chat!Elements(sent)
    BY <1>1, WaitingIs
  <2>3. entered + 1 \notin 1..entered /\ entered + 1 \in Nat
    BY <1>2
  <2>4. \A n \in dropped : n # entered + 1
    BY <1>1, <2>3 DEF Placed
  <2>5. QED
    BY <2>1, <2>2, <2>4
<1>9. Placed'
  <2>1. \A n \in Nat : n \in 1..entered' <=> n \in 1..entered \/ n = entered + 1
    BY <1>2
  <2>2. \A i \in 1..Len(items') : items'[i].entry \notin dropped
    BY <1>1, <1>3, <1>5, <1>8 DEF Placed
  <2>3. QED
    BY <1>1, <1>7, <2>1, <2>2 DEF Placed
<1>10. InOrder'
  <2>1. ASSUME NEW i \in 1..Len(items'), NEW j \in 1..Len(items'), i < j
        PROVE  items'[i].entry < items'[j].entry
    <3>1. CASE j \in 1..Len(items)
      <4>1. i \in 1..Len(items)
        BY <1>5, <2>1, <3>1
      <4>2. QED
        BY <1>1, <1>5, <2>1, <3>1, <4>1 DEF InOrder
    <3>2. CASE j = Len(items) + 1
      <4>1. i \in 1..Len(items)
        BY <1>5, <2>1, <3>2
      <4>2. items[i].entry \in 1..entered /\ items'[i] = items[i] /\ items'[j].entry = entered + 1
        BY <1>3, <1>5, <1>8, <3>2, <4>1
      <4>3. QED
        BY <1>2, <4>2
    <3>3. QED
      BY <1>5, <3>1, <3>2
  <2>2. ASSUME NEW i \in 1..Len(items'), NEW j \in 1..Len(sent)
        PROVE  sent[j] < items'[i].entry
    <3>1. CASE i \in 1..Len(items)
      BY <1>1, <1>5, <3>1 DEF InOrder
    <3>2. CASE i = Len(items) + 1
      <4>1. sent[j] \in 1..entered /\ items'[i].entry = entered + 1
        BY <1>3, <1>5, <1>8, <3>2
      <4>2. QED
        BY <1>2, <4>1
    <3>3. QED
      BY <1>5, <3>1, <3>2
  <2>3. QED
    BY <1>1, <2>1, <2>2 DEF InOrder
<1>11. Edited'
  <2>1. selected <= Len(items')
    <3>1. selected \in Nat /\ selected <= Len(items)
      BY <1>1 DEF Edited, TextTyped
    <3>2. QED
      BY <1>5, <3>1
  <2>2. \A i \in 1..Len(items') : items'[i].text # ""
    BY <1>1, <1>3, <1>5 DEF Edited
  <2>3. QED
    BY <1>1, <1>7, <2>1, <2>2 DEF Edited
<1>12. Counted'
  <2>1. Cardinality(dropped) \in Nat
    BY <1>1, FS_CardinalityType DEF TextTyped
  <2>2. Len(sent) \in Nat
    BY <1>1, WaitingIs
  <2>3. QED
    BY <1>1, <1>2, <1>5, <2>1, <2>2 DEF Counted
<1>13. QED
  BY <1>6, <1>9, <1>10, <1>11, <1>12 DEF TextInv

LEMMA NoMessages == /\ Len(<<>>) = 0 /\ DOMAIN <<>> = {}
                    /\ \A s : s = <<>> => /\ {s[i].entry : i \in DOMAIN s} = {} /\ Len(s) = 0
                                          /\ \A i : i \notin 1..Len(s)
                    /\ \A S : <<>> \in Seq(S)
OBVIOUS

\* A text goes straight to the worker when no message waits.
LEMMA SendKeeps ==
  ASSUME TextInv, items = <<>>, items' = items, entered' = entered + 1,
         sent' = Append(sent, entered'), UNCHANGED <<selected, edits, editor, dropped>>
  PROVE  TextInv'
<1>1. TextTyped /\ Placed /\ InOrder /\ Edited /\ Counted
  BY DEF TextInv
<1>2. entered \in Nat /\ sent \in Seq(Nat) /\ entered + 1 \in Nat /\ Len(items) = 0
      /\ Chat!Waiting = {} /\ Chat!Waiting' = {} /\ Len(items') = 0
      /\ \A i : i \notin 1..Len(items')
  <2>1. entered \in Nat /\ sent \in Seq(Nat)
    BY <1>1 DEF TextTyped
  <2>2. Chat!Waiting = {} /\ Chat!Waiting' = {} /\ Len(items) = 0 /\ Len(items') = 0
    BY NoMessages DEF Chat!Waiting
  <2>3. \A i : i \notin 1..Len(items')
    BY NoMessages
  <2>4. QED
    BY <2>1, <2>2, <2>3
<1>3. /\ sent' \in Seq(Nat) /\ Len(sent') = Len(sent) + 1 /\ Len(sent) \in Nat
      /\ \A i \in 1..Len(sent) : sent'[i] = sent[i] /\ i \in 1..Len(sent')
      /\ sent'[Len(sent) + 1] = entered + 1
      /\ \A i \in 1..Len(sent') : i \in 1..Len(sent) \/ i = Len(sent) + 1
      /\ Chat!Elements(sent') = Chat!Elements(sent) \cup {entered + 1}
  BY <1>2, Appended
<1>4. TextTyped'
  <2>1. \A n \in DOMAIN edits' : edits'[n] \in {"", "text", "edited"}
    BY <1>1 DEF TextTyped
  <2>2. QED
    BY <1>1, <1>2, <1>3, <2>1 DEF TextTyped
<1>5. /\ \A n \in Chat!Elements(sent) : n \in 1..entered
      /\ \A i \in 1..Len(sent) : sent[i] \in Chat!Elements(sent)
      /\ \A n \in dropped : n # entered + 1
  <2>1. entered + 1 \notin 1..entered /\ entered + 1 \in Nat /\ Chat!Elements(sent) \subseteq Nat
    BY <1>2, Members
  <2>2. \A i \in 1..Len(sent) : sent[i] \in Chat!Elements(sent)
    BY <1>2, Members
  <2>3. QED
    BY <1>1, <2>1, <2>2 DEF Placed
<1>6. Placed'
  <2>1. \A n \in Nat : n \in 1..entered' <=> n \in 1..entered \/ n = entered + 1
    BY <1>2
  <2>2. \A i \in 1..Len(sent') : sent'[i] \notin dropped
    BY <1>1, <1>3, <1>5 DEF Placed
  <2>3. QED
    BY <1>1, <1>2, <1>3, <2>1, <2>2 DEF Placed
<1>7. InOrder'
  <2>1. ASSUME NEW i \in 1..Len(sent'), NEW j \in 1..Len(sent'), i < j
        PROVE  sent'[i] < sent'[j]
    <3>1. i \in 1..Len(sent)
      BY <1>3, <2>1
    <3>2. CASE j \in 1..Len(sent)
      BY <1>1, <1>3, <2>1, <3>1, <3>2 DEF InOrder
    <3>3. CASE j = Len(sent) + 1
      <4>1. sent[i] \in 1..entered
        BY <1>5, <3>1
      <4>2. QED
        BY <1>2, <1>3, <3>1, <3>3, <4>1
    <3>4. QED
      BY <1>3, <3>2, <3>3
  <2>2. QED
    BY <1>2, <2>1 DEF InOrder
<1>8. Edited'
  BY <1>1, <1>2 DEF Edited
<1>9. Counted'
  <2>1. Cardinality(dropped) \in Nat
    BY <1>1, FS_CardinalityType DEF TextTyped
  <2>2. Len(items) + Len(sent) + Cardinality(dropped) = entered
    BY <1>1 DEF Counted
  <2>3. Len(items') + Len(sent') + Cardinality(dropped) = entered'
    BY <1>2, <1>3, <2>1, <2>2
  <2>4. QED
    BY <2>3 DEF Counted
<1>10. QED
  BY <1>4, <1>6, <1>7, <1>8, <1>9 DEF TextInv

\* The message at the head of the queue goes to the worker.
LEMMA ShiftKeeps ==
  ASSUME TextInv, items # <<>>, items' = Tail(items), sent' = Append(sent, Head(items).entry),
         selected = 0, UNCHANGED <<selected, edits, editor, dropped, entered, chatPicker>>
  PROVE  TextInv'
<1>1. TextTyped /\ Placed /\ InOrder /\ Edited /\ Counted
  BY DEF TextInv
<1>2. items \in Seq(Messages) /\ sent \in Seq(Nat) /\ entered \in Nat
  BY <1>1 DEF TextTyped
<1>3. /\ items' \in Seq(Messages) /\ Len(items') = Len(items) - 1 /\ Len(items') \in Nat
      /\ 1 \in 1..Len(items) /\ items[1] = Head(items)
      /\ \A i \in 1..Len(items') : i + 1 \in 1..Len(items) /\ items'[i] = items[i + 1]
      /\ \A i \in 1..Len(items) : i # 1 => i - 1 \in 1..Len(items') /\ items'[i - 1] = items[i]
  BY <1>2, Tailed
<1> DEFINE h == Head(items).entry
<1>4. h \in Nat /\ h = items[1].entry /\ h \in Chat!Waiting
  BY <1>1, <1>3, WaitingIs
<1>5. sent' = Append(sent, h)
  OBVIOUS
<1> HIDE DEF h
<1>6. /\ sent' \in Seq(Nat) /\ Len(sent') = Len(sent) + 1 /\ Len(sent) \in Nat
      /\ \A i \in 1..Len(sent) : sent'[i] = sent[i] /\ i \in 1..Len(sent')
      /\ sent'[Len(sent) + 1] = h
      /\ \A i \in 1..Len(sent') : i \in 1..Len(sent) \/ i = Len(sent) + 1
      /\ Chat!Elements(sent') = Chat!Elements(sent) \cup {h}
  <2>1. ASSUME NEW x \in Nat
        PROVE  /\ Append(sent, x) \in Seq(Nat) /\ Len(Append(sent, x)) = Len(sent) + 1
               /\ Len(sent) \in Nat
               /\ \A i \in 1..Len(sent) : Append(sent, x)[i] = sent[i]
                     /\ i \in 1..Len(Append(sent, x))
               /\ Append(sent, x)[Len(sent) + 1] = x
               /\ \A i \in 1..Len(Append(sent, x)) : i \in 1..Len(sent) \/ i = Len(sent) + 1
               /\ Chat!Elements(Append(sent, x)) = Chat!Elements(sent) \cup {x}
    BY <1>2, Appended
  <2>2. QED
    BY <1>4, <1>5, <2>1
<1>7. TextTyped'
  <2>1. \A n \in DOMAIN edits' : edits'[n] \in {"", "text", "edited"}
    BY <1>1 DEF TextTyped
  <2>2. QED
    BY <1>1, <1>2, <1>3, <1>6, <2>1 DEF TextTyped
<1>8. \A n : n \in Chat!Waiting <=> n \in Chat!Waiting' \/ n = h
  <2>1. \A n : n \in Chat!Waiting' <=> \E i \in 1..Len(items') : items'[i].entry = n
    BY <1>3, EntriesOf DEF Chat!Waiting
  <2>2. \A n : n \in Chat!Waiting <=> \E i \in 1..Len(items) : items[i].entry = n
    BY <1>1, WaitingIs
  <2>3. ASSUME NEW n, n \in Chat!Waiting PROVE n \in Chat!Waiting' \/ n = h
    <3>1. PICK i \in 1..Len(items) : items[i].entry = n
      BY <2>2, <2>3
    <3>2. CASE i = 1
      BY <1>4, <3>1, <3>2
    <3>3. CASE i # 1
      BY <1>3, <2>1, <3>1, <3>3
    <3>4. QED
      BY <3>2, <3>3
  <2>4. ASSUME NEW n, n \in Chat!Waiting' PROVE n \in Chat!Waiting
    <3>1. PICK i \in 1..Len(items') : items'[i].entry = n
      BY <2>1, <2>4
    <3>2. QED
      BY <1>3, <2>2, <3>1
  <2>5. QED
    BY <1>4, <2>3, <2>4
<1>9. Placed'
  <2>1. h \notin dropped
    BY <1>1, <1>3, <1>4 DEF Placed
  <2>2. \A i \in 1..Len(items') : items'[i].entry \notin dropped
    BY <1>1, <1>3 DEF Placed
  <2>3. \A i \in 1..Len(sent') : sent'[i] \notin dropped
    BY <1>1, <1>6, <2>1 DEF Placed
  <2>4. QED
    BY <1>1, <1>6, <1>8, <2>2, <2>3 DEF Placed
<1>10. InOrder'
  <2>1. ASSUME NEW i \in 1..Len(items'), NEW j \in 1..Len(items'), i < j
        PROVE  items'[i].entry < items'[j].entry
    <3>1. /\ i + 1 \in 1..Len(items) /\ items'[i] = items[i + 1] /\ i + 1 < j + 1
          /\ j + 1 \in 1..Len(items) /\ items'[j] = items[j + 1]
      BY <1>3, <2>1
    <3>2. QED
      BY <1>1, <3>1 DEF InOrder
  <2>2. \A i \in 1..Len(items') : h < items'[i].entry
    <3> SUFFICES ASSUME NEW i \in 1..Len(items') PROVE h < items'[i].entry
      OBVIOUS
    <3>1. /\ i + 1 \in 1..Len(items) /\ items'[i] = items[i + 1] /\ 1 < i + 1
          /\ 1 \in 1..Len(items)
      BY <1>3
    <3>2. QED
      BY <1>1, <1>4, <3>1 DEF InOrder
  <2>3. \A i \in 1..Len(sent) : sent[i] < h
    BY <1>1, <1>3, <1>4 DEF InOrder
  <2>4. ASSUME NEW i \in 1..Len(sent'), NEW j \in 1..Len(sent'), i < j
        PROVE  sent'[i] < sent'[j]
    <3>1. i \in 1..Len(sent)
      BY <1>6, <2>4
    <3>2. CASE j \in 1..Len(sent)
      BY <1>1, <1>6, <2>4, <3>1, <3>2 DEF InOrder
    <3>3. CASE j = Len(sent) + 1
      BY <1>6, <2>3, <3>1, <3>3
    <3>4. QED
      BY <1>6, <3>2, <3>3
  <2>5. ASSUME NEW i \in 1..Len(items'), NEW j \in 1..Len(sent')
        PROVE  sent'[j] < items'[i].entry
    <3>1. i + 1 \in 1..Len(items) /\ items'[i] = items[i + 1]
      BY <1>3
    <3>2. CASE j \in 1..Len(sent)
      BY <1>1, <1>6, <3>1, <3>2 DEF InOrder
    <3>3. CASE j = Len(sent) + 1
      BY <1>6, <2>2, <3>3
    <3>4. QED
      BY <1>6, <3>2, <3>3
  <2>6. QED
    BY <2>1, <2>4, <2>5 DEF InOrder
<1>11. Edited'
  <2>1. edits' = <<>> /\ DOMAIN edits' = {} /\ selected' = 0
    BY <1>1, NoMessages DEF Edited
  <2>2. ASSUME NEW i \in 1..Len(items') PROVE items'[i].text # ""
    <3>1. i + 1 \in 1..Len(items) /\ items'[i] = items[i + 1]
      BY <1>3
    <3>2. QED
      BY <1>1, <3>1 DEF Edited
  <2>3. ~ chatPicker'
    BY <1>1 DEF Edited
  <2>4. selected' <= Len(items') /\ DOMAIN edits' \subseteq Chat!Waiting'
    BY <1>3, <2>1
  <2>5. QED
    BY <2>1, <2>2, <2>3, <2>4 DEF Edited
<1>12. Counted'
  <2>1. Cardinality(dropped) \in Nat
    BY <1>1, FS_CardinalityType DEF TextTyped
  <2>2. Len(items) \in Nat
    BY <1>2
  <2>3. Len(items) + Len(sent) + Cardinality(dropped) = entered
    BY <1>1 DEF Counted
  <2>4. Len(items') + Len(sent') + Cardinality(dropped) = entered
    BY <1>3, <1>6, <2>1, <2>2, <2>3
  <2>5. QED
    BY <2>4 DEF Counted
<1>13. QED
  BY <1>7, <1>9, <1>10, <1>11, <1>12 DEF TextInv

\* As many entries as messages.
LEMMA WaitingCounted ==
  ASSUME TextInv
  PROVE  IsFiniteSet(Chat!Waiting) /\ Cardinality(Chat!Waiting) = Len(items)
<1> DEFINE f == [i \in 1..Len(items) |-> items[i].entry]
<1>1. TextTyped /\ InOrder
  BY DEF TextInv
<1>2. Len(items) \in Nat /\ \A i \in 1..Len(items) : items[i].entry \in Nat
  BY <1>1, WaitingIs
<1>3. \A n : n \in Chat!Waiting <=> \E i \in 1..Len(items) : items[i].entry = n
  BY <1>1, WaitingIs
<1>4. f \in [1..Len(items) -> Chat!Waiting]
  BY <1>3
<1>5. \A i, j \in 1..Len(items) : f[i] = f[j] => i = j
  <2> SUFFICES ASSUME NEW i \in 1..Len(items), NEW j \in 1..Len(items), i # j
               PROVE  f[i] # f[j]
    OBVIOUS
  <2>1. i < j \/ j < i
    BY <1>2
  <2>2. QED
    BY <1>1, <1>2, <2>1 DEF InOrder
<1>6. \A n \in Chat!Waiting : \E i \in 1..Len(items) : f[i] = n
  BY <1>3
<1>7. f \in Bijection(1..Len(items), Chat!Waiting)
  BY <1>4, <1>5, <1>6, Fun_IsBij
<1>8. ExistsBijection(1..Len(items), Chat!Waiting)
  BY <1>7 DEF ExistsBijection
<1>9. IsFiniteSet(1..Len(items)) /\ Cardinality(1..Len(items)) = Len(items)
  <2>1. IsFiniteSet(1..Len(items)) /\ Cardinality(1..Len(items)) =
          IF 1 > Len(items) THEN 0 ELSE Len(items) - 1 + 1
    BY <1>2, FS_Interval
  <2>2. QED
    BY <1>2, <2>1
<1>10. QED
  BY <1>8, <1>9, FS_Bijection

LEMMA EmptyKeeps ==
  ASSUME TextInv, Chat!Emptied, UNCHANGED <<entered, sent, chatPicker>>
  PROVE  TextInv'
<1>1. TextTyped /\ Placed /\ InOrder /\ Edited /\ Counted
  BY DEF TextInv
<1>2. /\ items' = <<>> /\ selected' = 0 /\ edits' = <<>> /\ editor' = "" /\ Len(items') = 0
      /\ \A i : i \notin 1..Len(items')
      /\ dropped' = dropped \cup Chat!Waiting /\ Chat!Waiting' = {}
  <2>1. items' = <<>> /\ selected' = 0 /\ edits' = <<>> /\ editor' = ""
    BY DEF Chat!Emptied, Chat!Closed
  <2>2. dropped' = dropped \cup Chat!Waiting
    BY DEF Chat!Emptied, Chat!Waiting
  <2>3. Chat!Waiting' = {} /\ Len(items') = 0 /\ \A i : i \notin 1..Len(items')
    BY <2>1, NoMessages DEF Chat!Waiting
  <2>4. QED
    BY <2>1, <2>2, <2>3
<1>3. IsFiniteSet(Chat!Waiting) /\ Cardinality(Chat!Waiting) = Len(items) /\ IsFiniteSet(dropped)
  BY <1>1, WaitingCounted DEF TextTyped
<1>4. \A n \in Chat!Waiting : n \notin dropped
  BY <1>1, WaitingIs DEF Placed
<1>5. IsFiniteSet(dropped') /\ Cardinality(dropped') = Cardinality(dropped) + Len(items)
  <2>1. dropped \cap Chat!Waiting = {}
    BY <1>4
  <2>2. /\ IsFiniteSet(dropped \cup Chat!Waiting)
        /\ Cardinality(dropped \cup Chat!Waiting) =
             Cardinality(dropped) + Cardinality(Chat!Waiting)
               - Cardinality(dropped \cap Chat!Waiting)
    BY <1>3, FS_Union
  <2>3. Cardinality({}) = 0 /\ Cardinality(dropped) \in Nat /\ Len(items) \in Nat
    <3>1. Cardinality(dropped) \in Nat
      BY <1>3, FS_CardinalityType
    <3>2. QED
      BY <1>1, <3>1, FS_EmptySet, WaitingIs
  <2>4. Cardinality(dropped \cap Chat!Waiting) = 0
    BY <2>1, <2>3
  <2>5. Cardinality(dropped \cup Chat!Waiting) = Cardinality(dropped) + Len(items)
    BY <1>3, <2>2, <2>3, <2>4
  <2>6. QED
    BY <1>2, <2>2, <2>5
<1>6. TextTyped'
  <2>1. items' \in Seq(Messages) /\ 0 \in Nat
        /\ \A n \in DOMAIN edits' : edits'[n] \in {"", "text", "edited"}
    BY <1>2, NoMessages
  <2>2. dropped' \subseteq Nat
    BY <1>1, <1>2, WaitingIs DEF TextTyped
  <2>3. QED
    BY <1>1, <1>2, <1>5, <2>1, <2>2 DEF TextTyped
<1>7. Placed'
  <2>1. \A i \in 1..Len(sent) : sent[i] \notin Chat!Waiting
    <3> SUFFICES ASSUME NEW i \in 1..Len(sent), sent[i] \in Chat!Waiting PROVE FALSE
      OBVIOUS
    <3>1. PICK j \in 1..Len(items) : items[j].entry = sent[i]
      BY <1>1, WaitingIs
    <3>2. sent[i] < sent[i] /\ sent[i] \in Nat
      BY <1>1, <3>1, WaitingIs DEF InOrder
    <3>3. QED
      BY <3>2
  <2>2. QED
    BY <1>1, <1>2, <2>1 DEF Placed
<1>8. InOrder'
  BY <1>1, <1>2 DEF InOrder
<1>9. Edited'
  <2>1. DOMAIN edits' = {}
    BY <1>2, NoMessages
  <2>2. selected' <= Len(items')
    <3>1. selected' = 0 /\ Len(items') = 0
      BY <1>2
    <3>2. QED
      BY <3>1
  <2>3. QED
    BY <1>2, <2>1, <2>2 DEF Edited
<1>10. Counted'
  <2>1. Cardinality(dropped) \in Nat /\ Len(items) \in Nat /\ Len(sent) \in Nat
    BY <1>1, <1>3, FS_CardinalityType, WaitingIs
  <2>2. Len(items) + Len(sent) + Cardinality(dropped) = entered
    BY <1>1 DEF Counted
  <2>3. 0 + Len(sent) + Cardinality(dropped') = entered
    BY <1>5, <2>1, <2>2
  <2>4. QED
    BY <1>2, <2>3 DEF Counted
<1>11. QED
  BY <1>6, <1>7, <1>8, <1>9, <1>10 DEF TextInv

LEMMA Within == ASSUME NEW n \in Nat
                PROVE  /\ 0 <= n
                       /\ \A k : k = 0 => k \in Nat /\ k <= n
                       /\ \A k : k \in 1..n => k \in Nat /\ k <= n /\ k # 0
                       /\ \A m \in Nat : 1..m = 1..n => m = n
OBVIOUS

\* What is remembered of the messages that were edited.
LEMMA RememberedIs ==
  ASSUME TextInv
  PROVE  /\ DOMAIN Chat!Remembered \subseteq Chat!Waiting
         /\ \A n \in DOMAIN Chat!Remembered : Chat!Remembered[n] \in {"", "text", "edited"}
<1>1. TextTyped /\ Edited
  BY DEF TextInv
<1>2. CASE selected = 0
  BY <1>1, <1>2 DEF TextTyped, Edited, Chat!Remembered, Chat!Editing
<1>3. CASE selected # 0
  <2>1. selected \in 1..Len(items)
    <3>1. selected \in Nat /\ selected <= Len(items) /\ Len(items) \in Nat
      BY <1>1, WaitingIs DEF TextTyped, Edited
    <3>2. QED
      BY <1>3, <3>1
  <2>2. items[selected].entry \in Chat!Waiting
    BY <1>1, <2>1, WaitingIs
  <2>3. Chat!Remembered = [n \in DOMAIN edits \cup {items[selected].entry} |->
                        IF n = items[selected].entry THEN editor ELSE edits[n]]
    BY <1>3 DEF Chat!Remembered, Chat!Editing
  <2>4. /\ DOMAIN edits \subseteq Chat!Waiting /\ editor \in {"", "text", "edited"}
        /\ \A n \in DOMAIN edits : edits[n] \in {"", "text", "edited"}
    BY <1>1 DEF TextTyped, Edited
  <2>5. QED
    BY <2>2, <2>3, <2>4
<1>4. QED
  BY <1>2, <1>3

LEMMA RetypeKeeps ==
  ASSUME TextInv, selected # 0, editor' \in {"", "text", "edited"},
         UNCHANGED <<items, selected, edits, Chat!textVars, chatPicker>>
  PROVE  TextInv'
<1>1. TextTyped /\ Placed /\ InOrder /\ Edited /\ Counted
  BY DEF TextInv
<1>2. TextTyped'
  BY <1>1 DEF TextTyped, Chat!textVars
<1>3. Placed' /\ InOrder' /\ Counted'
  BY <1>1 DEF Placed, InOrder, Counted, Chat!Waiting, Chat!textVars
<1>4. Edited'
  BY <1>1 DEF Edited, Chat!Waiting
<1>5. QED
  BY <1>2, <1>3, <1>4 DEF TextInv

\* Another message is opened, or the transaction stays open; texts are remembered.
LEMMA RecallKeeps ==
  ASSUME TextInv, edits' = Chat!Remembered,
         selected' \in 1..Len(items) \/ (selected' = selected /\ selected # 0),
         editor' \in {"", "text", "edited"}, UNCHANGED <<items, Chat!textVars, chatPicker>>
  PROVE  TextInv'
<1>1. TextTyped /\ Placed /\ InOrder /\ Edited /\ Counted
  BY DEF TextInv
<1>2. Len(items) \in Nat
  BY <1>1, WaitingIs
<1>3. selected' \in Nat /\ selected' <= Len(items) /\ selected' # 0
  <2>1. selected \in Nat /\ selected <= Len(items)
    BY <1>1 DEF TextTyped, Edited
  <2>2. CASE selected' \in 1..Len(items)
    BY <1>2, <2>2, Within
  <2>3. CASE selected' = selected /\ selected # 0
    BY <2>1, <2>3
  <2>4. QED
    BY <2>2, <2>3
<1>4. /\ DOMAIN edits' \subseteq Chat!Waiting /\ Chat!Waiting' = Chat!Waiting
      /\ \A n \in DOMAIN edits' : edits'[n] \in {"", "text", "edited"}
  BY RememberedIs DEF Chat!Waiting
<1>5. TextTyped'
  BY <1>1, <1>3, <1>4 DEF TextTyped, Chat!textVars
<1>6. Placed' /\ InOrder' /\ Counted'
  BY <1>1, <1>4 DEF Placed, InOrder, Counted, Chat!textVars
<1>7. Edited'
  BY <1>1, <1>3, <1>4 DEF Edited
<1>8. QED
  BY <1>5, <1>6, <1>7 DEF TextInv

\* The edits are committed: every message keeps its place.
LEMMA CommitKeeps ==
  ASSUME TextInv, \A n \in DOMAIN Chat!Remembered : Chat!Remembered[n] # "",
         items' = Chat!Committed, Chat!Closed,
         UNCHANGED <<Chat!textVars, chatPicker>>
  PROVE  TextInv'
<1>1. TextTyped /\ Placed /\ InOrder /\ Edited /\ Counted
  BY DEF TextInv
<1>2. /\ items \in Seq(Messages) /\ Len(items) \in Nat /\ DOMAIN items = 1..Len(items)
      /\ \A i \in 1..Len(items) : items[i] \in Messages
  <2>1. items \in Seq(Messages)
    BY <1>1 DEF TextTyped
  <2>2. QED
    BY <2>1, EntriesOf
<1>3. ASSUME NEW i \in 1..Len(items)
      PROVE  LET m == [items[i] EXCEPT !.text = Chat!Text(i, Chat!Remembered)]
             IN  m \in Messages /\ m.entry = items[i].entry /\ m.text # ""
  <2>1. Chat!Text(i, Chat!Remembered) \in {"", "text", "edited"}
        /\ Chat!Text(i, Chat!Remembered) # ""
    <3>1. CASE items[i].entry \in DOMAIN Chat!Remembered
      <4>1. Chat!Text(i, Chat!Remembered) = Chat!Remembered[items[i].entry]
        BY <3>1 DEF Chat!Text
      <4>2. QED
        BY <3>1, <4>1, RememberedIs
    <3>2. CASE items[i].entry \notin DOMAIN Chat!Remembered
      <4>1. Chat!Text(i, Chat!Remembered) = items[i].text
        BY <3>2 DEF Chat!Text
      <4>2. items[i].text \in {"", "text", "edited"} /\ items[i].text # ""
        BY <1>1, <1>2 DEF Messages, Edited
      <4>3. QED
        BY <4>1, <4>2
    <3>3. QED
      BY <3>1, <3>2
  <2> DEFINE t == Chat!Text(i, Chat!Remembered)
  <2>2. t \in {"", "text", "edited"} /\ t # ""
    BY <2>1
  <2> HIDE DEF t
  <2>3. items[i] \in [entry : Nat, text : {"", "text", "edited"}]
    BY <1>2 DEF Messages
  <2>4. /\ [items[i] EXCEPT !.text = t] \in [entry : Nat, text : {"", "text", "edited"}]
        /\ [items[i] EXCEPT !.text = t].entry = items[i].entry
        /\ [items[i] EXCEPT !.text = t].text = t
    BY <2>2, <2>3
  <2>5. QED
    BY <2>2, <2>4 DEF Messages, t
<1>4. items' = [i \in 1..Len(items) |-> [items[i] EXCEPT !.text = Chat!Text(i, Chat!Remembered)]]
  BY <1>2 DEF Chat!Committed
<1>5. /\ DOMAIN items' = 1..Len(items) /\ Len(items') = Len(items)
      /\ \A i \in 1..Len(items) : /\ items'[i] \in Messages /\ items'[i].entry = items[i].entry
                                  /\ items'[i].text # ""
      /\ items' \in Seq(Messages)
  <2>1. /\ DOMAIN items' = 1..Len(items)
        /\ \A i \in 1..Len(items) : /\ items'[i] \in Messages /\ items'[i].entry = items[i].entry
                                    /\ items'[i].text # ""
    BY <1>3, <1>4
  <2>2. items' \in [1..Len(items) -> Messages]
    BY <1>3, <1>4
  <2>3. items' \in Seq(Messages)
    BY <1>2, <2>2, SeqDef
  <2>4. Len(items') = Len(items)
    <3>1. Len(items') \in Nat /\ DOMAIN items' = 1..Len(items')
      BY <2>3, LenProperties
    <3>2. 1..Len(items') = 1..Len(items)
      BY <2>1, <3>1
    <3>3. Len(items) \in Nat
      BY <1>2
    <3>4. QED
      BY <3>1, <3>2, <3>3, Within
  <2>5. QED
    BY <2>1, <2>3, <2>4
<1>6. Chat!Waiting' = Chat!Waiting
  BY <1>2, <1>5 DEF Chat!Waiting
<1>7. selected' = 0 /\ edits' = <<>> /\ DOMAIN edits' = {} /\ editor' = ""
  BY NoMessages DEF Chat!Closed
<1>8. TextTyped'
  BY <1>1, <1>5, <1>7 DEF TextTyped, Chat!textVars
<1>9. Placed' /\ InOrder' /\ Counted'
  BY <1>1, <1>5, <1>6 DEF Placed, InOrder, Counted, Chat!textVars
<1>10. Edited'
  <2>1. chatPicker' => items' = <<>>
    <3>1. ASSUME chatPicker' PROVE items' = <<>>
      <4>1. Len(items') = 0
        BY <1>1, <1>5, <3>1, NoMessages DEF Edited
      <4>2. QED
        BY <1>5, <4>1, EmptySeq
    <3>2. QED
      BY <3>1
  <2>2. selected' <= Len(items') /\ DOMAIN edits' \subseteq Chat!Waiting'
    <3>1. selected' = 0 /\ Len(items') = Len(items) /\ Len(items) \in Nat
      BY <1>2, <1>5, <1>7
    <3>2. QED
      BY <1>7, <3>1, Within
  <2>3. \A i \in 1..Len(items') : items'[i].text # ""
    BY <1>5
  <2>4. QED
    BY <1>7, <2>1, <2>2, <2>3 DEF Edited
<1>11. QED
  BY <1>8, <1>9, <1>10 DEF TextInv

\* An edit that is given up, like a step that edits nothing, leaves the messages alone.
LEMMA TextRests ==
  ASSUME TextInv, UNCHANGED <<items, Chat!textVars>>, UNCHANGED Chat!editVars \/ Chat!Closed,
         chatPicker' => chatPicker \/ items = <<>>
  PROVE  TextInv'
<1>1. TextTyped /\ Placed /\ InOrder /\ Edited /\ Counted
  BY DEF TextInv
<1>2. Placed' /\ InOrder' /\ Counted'
  BY <1>1 DEF Placed, InOrder, Counted, Chat!Waiting, Chat!textVars
<1>3. CASE UNCHANGED Chat!editVars
  BY <1>1, <1>2, <1>3 DEF TextInv, TextTyped, Edited, Chat!Waiting, Chat!textVars, Chat!editVars
<1>4. CASE Chat!Closed
  <2>1. selected' = 0 /\ edits' = <<>> /\ DOMAIN edits' = {} /\ editor' = ""
    BY <1>4, NoMessages DEF Chat!Closed
  <2>2. Len(items) \in Nat
    BY <1>1, WaitingIs
  <2>3. TextTyped'
    BY <1>1, <2>1 DEF TextTyped, Chat!textVars
  <2>4. Edited'
    <3>1. selected' <= Len(items)
      BY <2>1, <2>2, Within
    <3>2. chatPicker' => items = <<>>
      BY <1>1 DEF Edited
    <3>3. QED
      BY <1>1, <2>1, <3>1, <3>2 DEF Edited
  <2>5. QED
    BY <1>2, <2>3, <2>4 DEF TextInv
<1>5. QED
  BY <1>3, <1>4

LEMMA TextStarts == ASSUME Chat!Init PROVE TextInv
<1>1. /\ items = <<>> /\ selected = 0 /\ edits = <<>> /\ editor = "" /\ chatPicker = FALSE
      /\ entered = 0 /\ sent = <<>> /\ dropped = {}
  BY DEF Chat!Init
<1>2. Len(items) = 0 /\ Len(sent) = 0 /\ DOMAIN edits = {} /\ Chat!Waiting = {}
      /\ Chat!Elements(sent) = {}
  BY <1>1, NoMessages DEF Chat!Waiting, Chat!Elements
<1>3. \A n : n \notin 1..entered /\ n \notin 1..Len(items) /\ n \notin 1..Len(sent)
  <2>1. entered = 0
    BY <1>1
  <2>2. \A n : n \notin 1..0
    OBVIOUS
  <2>3. QED
    BY <1>2, <2>1, <2>2
<1>4. IsFiniteSet(dropped) /\ Cardinality(dropped) = 0
  BY <1>1, FS_EmptySet
<1>5. TextTyped
  BY <1>1, <1>2, <1>4, NoMessages DEF TextTyped
<1>6. Placed /\ InOrder
  BY <1>1, <1>2, <1>3 DEF Placed, InOrder
<1>7. Edited
  <2>1. selected = 0 /\ Len(items) = 0
    BY <1>1, <1>2
  <2>2. selected <= Len(items)
    BY <2>1
  <2>3. QED
    BY <1>1, <1>2, <1>3, <2>2 DEF Edited
<1>8. Counted
  <2>1. entered = 0
    BY <1>1
  <2>2. QED
    BY <1>2, <1>4, <2>1 DEF Counted
<1>9. QED
  BY <1>5, <1>6, <1>7, <1>8 DEF TextInv

LEMMA TextWorks == ASSUME TextInv, Chat!WorkersNext PROVE TextInv'
<1>1. UNCHANGED <<items, Chat!editVars, chatPicker, Chat!textVars>>
  BY DEF Chat!WorkersNext, Chat!Take, Chat!Interrupt, Chat!Done, Chat!Complete, Chat!Fail,
         Chat!Retire, Chat!Restored, Chat!Result, Chat!Ask, Chat!Answered, Chat!Proceed,
         Chat!WorkerStep
<1>2. QED
  BY <1>1, TextRests

LEMMA TextHandles ==
  ASSUME TextInv,
         Chat!IgnoreEvent \/ Chat!ShowProgress \/ Chat!ShowApproval \/ Chat!FinishJob
         \/ Chat!HandleCommandEvent
  PROVE  TextInv'
<1>1. UNCHANGED <<items, Chat!editVars, chatPicker, Chat!textVars>>
  BY DEF Chat!IgnoreEvent, Chat!ShowProgress, Chat!ShowApproval, Chat!FinishJob,
         Chat!HandleCommandEvent, Chat!Handling
<1>2. QED
  BY <1>1, TextRests

LEMMA TextDrains ==
  ASSUME TextInv,
         Chat!DrainNothing \/ Chat!DrainRefused \/ Chat!DrainReview \/ Chat!DrainMessage
         \/ Chat!NextFrame
  PROVE  TextInv'
<1>1. CASE Chat!DrainNothing \/ Chat!DrainRefused \/ Chat!DrainReview \/ Chat!NextFrame
  <2>1. UNCHANGED <<items, Chat!editVars, chatPicker, Chat!textVars>>
    BY <1>1 DEF Chat!DrainNothing, Chat!DrainRefused, Chat!DrainReview, Chat!NextFrame,
                Chat!FrameKeys, Chat!Refused, Chat!textVars
  <2>2. QED
    BY <2>1, TextRests
<1>2. CASE Chat!DrainMessage
  BY <1>2, ShiftKeeps DEF Chat!DrainMessage, Chat!MessageDue, Chat!FrameKeys, Chat!editVars
<1>3. QED
  BY <1>1, <1>2

LEMMA TextSubmits ==
  ASSUME TextInv, Chat!EnterTask \/ Chat!Choose PROVE TextInv'
<1>1. items = <<>> /\ UNCHANGED <<Chat!editVars, dropped>> /\ ~ chatPicker' /\ Chat!SubmitTask
  <2>1. CASE Chat!EnterTask
    BY <2>1 DEF Chat!EnterTask, Chat!Enter, Chat!InSession, Chat!BusyInput
  <2>2. CASE Chat!Choose
    BY <2>2 DEF Chat!Choose, Chat!Enter, TextInv, Edited
  <2>3. QED
    BY <2>1, <2>2
<1>2. CASE entered' = entered + 1 /\ sent' = Append(sent, entered') /\ UNCHANGED items
  BY <1>1, <1>2, SendKeeps DEF Chat!editVars
<1>3. CASE Chat!Enqueue /\ UNCHANGED sent
  BY <1>1, <1>3, EnqueueKeeps DEF Chat!editVars
<1>4. QED
  BY <1>1, <1>2, <1>3 DEF Chat!SubmitTask

LEMMA TextEdits ==
  ASSUME TextInv, Chat!EditText \/ Chat!OpenMessage \/ Chat!SaveEdits PROVE TextInv'
<1>1. CASE Chat!EditText
  <2>1. /\ selected # 0 /\ editor' \in {"", "text", "edited"}
        /\ UNCHANGED <<items, selected, edits, Chat!textVars, chatPicker>>
    BY <1>1 DEF Chat!EditText, Chat!Editing, Chat!Untouched, Chat!textVars
  <2>2. QED
    BY <2>1, RetypeKeeps
<1>2. CASE Chat!OpenMessage
  <2>1. PICK i \in DOMAIN items : Chat!Opened(i)
    BY <1>2 DEF Chat!OpenMessage
  <2>2. TextTyped /\ Edited
    BY DEF TextInv
  <2>3. /\ DOMAIN items = 1..Len(items)
        /\ \A j \in 1..Len(items) : items[j].text \in {"", "text", "edited"}
    BY <2>2, EntriesOf DEF TextTyped, Messages
  <2>4. editor' \in {"", "text", "edited"}
    <3>1. editor' = IF items[i].entry \in DOMAIN Chat!Remembered
                    THEN Chat!Remembered[items[i].entry] ELSE items[i].text
      BY <2>1 DEF Chat!Opened, Chat!Text
    <3>2. QED
      BY <2>1, <2>3, <3>1, RememberedIs
  <2>5. edits' = Chat!Remembered /\ selected' \in 1..Len(items)
    BY <2>1, <2>3 DEF Chat!Opened
  <2>6. UNCHANGED <<items, Chat!textVars, chatPicker>>
    BY <1>2 DEF Chat!OpenMessage, Chat!Untouched, Chat!textVars
  <2>7. QED
    BY <2>4, <2>5, <2>6, RecallKeeps
<1>3. CASE Chat!SaveEdits
  <2>1. UNCHANGED <<Chat!textVars, chatPicker>> /\ selected # 0
    BY <1>3 DEF Chat!SaveEdits, Chat!Untouched, Chat!textVars, Chat!Editing
  <2>2. CASE edits' = Chat!Remembered /\ UNCHANGED <<items, selected, editor>>
    <3>1. editor' \in {"", "text", "edited"}
      BY <2>2 DEF TextInv, TextTyped
    <3>2. QED
      BY <2>1, <2>2, <3>1, RecallKeeps
  <2>3. CASE (\A n \in DOMAIN Chat!Remembered : Chat!Remembered[n] # "")
                /\ items' = Chat!Committed /\ Chat!Closed
    BY <2>1, <2>3, CommitKeeps
  <2>4. QED
    BY <1>3, <2>2, <2>3 DEF Chat!SaveEdits
<1>4. QED
  BY <1>1, <1>2, <1>3

LEMMA TextKeys == ASSUME TextInv, Chat!KeysNext PROVE TextInv'
<1>1. CASE Chat!EditText \/ Chat!OpenMessage \/ Chat!SaveEdits
  BY <1>1, TextEdits
<1>2. CASE Chat!EnterTask \/ Chat!Choose
  BY <1>2, TextSubmits
<1>3. CASE Chat!EnterPaused \/ Chat!EnterQueued
  <2>1. Chat!Enqueue /\ UNCHANGED <<selected, edits, editor, sent, dropped>> /\ ~ chatPicker'
    BY <1>3 DEF Chat!EnterPaused, Chat!EnterQueued, Chat!Enter, Chat!InSession, Chat!Untouched,
                Chat!editVars
  <2>2. QED
    BY <2>1, EnqueueKeeps
<1>4. CASE Chat!EnterCommand
  <2>1. UNCHANGED <<Chat!editVars, sent, dropped, chatPicker>> /\ ~ chatPicker
    BY <1>4 DEF Chat!EnterCommand, Chat!Enter
  <2>2. CASE UNCHANGED <<items, entered>>
    BY <2>1, <2>2, TextRests DEF Chat!textVars
  <2>3. CASE Chat!Enqueue
    BY <2>1, <2>3, EnqueueKeeps DEF Chat!editVars
  <2>4. QED
    BY <1>4, <2>2, <2>3 DEF Chat!EnterCommand
<1>5. CASE Chat!CancelCommand \/ Chat!CancelJob
  <2>1. Chat!Emptied /\ UNCHANGED <<entered, sent, chatPicker>>
    BY <1>5 DEF Chat!CancelCommand, Chat!CancelJob, Chat!DoubleEscape
  <2>2. QED
    BY <2>1, EmptyKeeps
<1>6. CASE Chat!OpenPicker
  <2>1. items = <<>> /\ UNCHANGED <<items, Chat!editVars, Chat!textVars>>
    BY <1>6 DEF Chat!OpenPicker, Chat!Enter, Chat!BusyInput, Chat!textVars
  <2>2. QED
    BY <2>1, TextRests
<1>7. CASE Chat!EnterClear \/ Chat!ChooseLate \/ Chat!Approve \/ Chat!CancelNothing
           \/ Chat!RequestQuit
  <2>1. UNCHANGED <<items, Chat!editVars, Chat!textVars, chatPicker>>
    BY <1>7 DEF Chat!EnterClear, Chat!ChooseLate, Chat!Approve, Chat!CancelNothing,
                Chat!RequestQuit, Chat!Enter, Chat!DoubleEscape, Chat!textVars
  <2>2. QED
    BY <2>1, TextRests
<1>8. CASE Chat!Escape
  <2>1. UNCHANGED <<items, Chat!textVars>> /\ ~ chatPicker'
        /\ (UNCHANGED Chat!editVars \/ Chat!Closed)
    BY <1>8 DEF Chat!Escape
  <2>2. QED
    BY <2>1, TextRests
<1>9. QED
  BY <1>1, <1>2, <1>3, <1>4, <1>5, <1>6, <1>7, <1>8 DEF Chat!KeysNext

LEMMA TextKept == ASSUME TextInv, Chat!Next PROVE TextInv'
BY TextWorks, TextHandles, TextDrains, TextKeys DEF Chat!Next

LEMMA CountsAlike == ASSUME NEW S PROVE Chat!Cardinality(S) = Cardinality(S)
BY DEF Chat!Cardinality, Cardinality

LEMMA TextHonest == ASSUME TextInv PROVE Chat!QueueHonest
<1>1. TextTyped /\ Placed /\ InOrder /\ Edited /\ Counted
  BY DEF TextInv
<1>2. /\ Len(items) \in Nat /\ Len(sent) \in Nat /\ selected \in Nat
      /\ DOMAIN items = 1..Len(items) /\ DOMAIN sent = 1..Len(sent)
      /\ \A n \in Chat!Waiting : n \in Nat
      /\ \A n \in Chat!Elements(sent) : \E i \in 1..Len(sent) : sent[i] = n
  <2>1. items \in Seq(Messages) /\ sent \in Seq(Nat) /\ selected \in Nat
    BY <1>1 DEF TextTyped
  <2>2. QED
    BY <1>1, <2>1, EntriesOf, Members, WaitingIs
<1>3. Chat!Waiting \cup Chat!Elements(sent) \cup dropped = 1..entered
  <2>1. \A n \in Chat!Elements(sent) : n \in Nat
    BY <1>1, <1>2, WaitingIs
  <2>2. \A n \in 1..entered : n \in Nat
    OBVIOUS
  <2>3. \A n \in dropped : n \in Nat
    BY <1>1 DEF TextTyped
  <2>4. QED
    BY <1>1, <1>2, <2>1, <2>2, <2>3 DEF Placed
<1>4. \A i \in DOMAIN items : items[i].text # ""
         /\ \A n \in Chat!Elements(sent) : n < items[i].entry
  BY <1>1, <1>2 DEF InOrder, Edited
<1>5. selected \in 0..Len(items) /\ DOMAIN edits \subseteq Chat!Waiting
  <2>1. selected <= Len(items) /\ DOMAIN edits \subseteq Chat!Waiting
    BY <1>1 DEF Edited
  <2>2. QED
    BY <1>2, <2>1
<1>6. /\ Len(items) + Len(sent) + Cardinality(dropped) = entered
      /\ \A i, j \in DOMAIN items : i < j => items[i].entry < items[j].entry
      /\ \A i, j \in DOMAIN sent : i < j => sent[i] < sent[j]
  BY <1>1, <1>2 DEF InOrder, Counted
<1>7. QED
  BY <1>3, <1>4, <1>5, <1>6, CountsAlike DEF Chat!QueueHonest

-----------------------------------------------------------------------------
(* The double Escape.                                                        *)

\* The jobs an armed Escape remembers are those in hand.
Armed == escape # Chat!Unarmed /\ ~ failed =>
           escape = [w \in Chat!Workers |-> IF w = Chat!Agent THEN activeJob ELSE commandJob]
EscapeInv == Armed /\ cancelled = [w \in Chat!Workers |-> cancelled[w]]

LEMMA EscapeStarts == ASSUME Chat!Init PROVE EscapeInv
BY DEF Chat!Init, EscapeInv, Armed

LEMMA ArmedRests ==
  ASSUME EscapeInv, UNCHANGED <<activeJob, commandJob, Chat!escapeVars>> \/ Chat!Disarm
  PROVE  Armed'
BY DEF EscapeInv, Armed, Chat!Disarm, Chat!escapeVars

LEMMA EscapeWorks == ASSUME EscapeInv, Chat!WorkersNext PROVE EscapeInv' /\ Chat!CancelsItsJob
<1>1. UNCHANGED <<activeJob, commandJob, Chat!escapeVars>>
  BY DEF Chat!WorkersNext, Chat!Take, Chat!Interrupt, Chat!Done, Chat!Complete, Chat!Fail,
         Chat!Retire, Chat!Restored, Chat!Result, Chat!Ask, Chat!Answered, Chat!Proceed,
         Chat!WorkerStep, Chat!viewVars
<1>2. CASE UNCHANGED cancelled
  BY <1>1, <1>2, ArmedRests DEF EscapeInv, Chat!CancelsItsJob
<1>3. CASE \E w \in Chat!Workers : Chat!Retire(w)
  <2>1. PICK w \in Chat!Workers : cancelled' = [cancelled EXCEPT ![w] = @ \ {running[w]}]
    BY <1>3 DEF Chat!Retire
  <2>2. /\ \A v \in Chat!Workers : cancelled'[v] \subseteq cancelled[v]
        /\ cancelled' = [v \in Chat!Workers |-> cancelled'[v]]
    BY <2>1 DEF EscapeInv
  <2>3. QED
    BY <1>1, <2>2, ArmedRests DEF EscapeInv, Chat!CancelsItsJob
<1>4. QED
  BY <1>2, <1>3 DEF Chat!WorkersNext, Chat!Take, Chat!Interrupt, Chat!Done, Chat!Complete,
                    Chat!Fail, Chat!Restored, Chat!Result, Chat!Ask, Chat!Answered, Chat!Proceed

LEMMA EscapeHandles ==
  ASSUME EscapeInv,
         Chat!IgnoreEvent \/ Chat!ShowProgress \/ Chat!ShowApproval \/ Chat!FinishJob
         \/ Chat!HandleCommandEvent
  PROVE  EscapeInv' /\ Chat!CancelsItsJob
<1>1. UNCHANGED cancelled
  BY DEF Chat!IgnoreEvent, Chat!ShowProgress, Chat!ShowApproval, Chat!FinishJob,
         Chat!HandleCommandEvent, Chat!Handling
<1>2. ASSUME Chat!IgnoreEvent \/ Chat!ShowProgress \/ Chat!ShowApproval PROVE Armed'
  BY <1>2, ArmedRests DEF Chat!IgnoreEvent, Chat!ShowProgress, Chat!ShowApproval, Chat!viewVars
<1>3. ASSUME Chat!FinishJob PROVE Armed'
  <2>1. CASE Chat!Disarm
    BY <2>1, ArmedRests
  <2>2. CASE failed' = (escape # Chat!Unarmed /\ Head(events[Chat!Agent]).kind = "error")
             /\ UNCHANGED escape
              /\ Head(events[Chat!Agent]).kind = "error"
    BY <2>2 DEF Armed
  <2>3. Head(events[Chat!Agent]).kind \in Chat!Ends
    BY <1>3 DEF Chat!FinishJob
  <2>4. CASE Chat!EndsGesture(Head(events[Chat!Agent]).kind)
    BY <1>3, <2>1, <2>4 DEF Chat!FinishJob
  <2>5. CASE ~ Chat!EndsGesture(Head(events[Chat!Agent]).kind)
    <3>1. Head(events[Chat!Agent]).kind = "error"
      BY <2>3, <2>5 DEF Chat!EndsGesture, Chat!Ends
    <3>2. QED
      BY <1>3, <2>2, <2>5, <3>1 DEF Chat!FinishJob
  <2>6. QED
    BY <2>4, <2>5
<1>4. ASSUME Chat!HandleCommandEvent PROVE Armed'
  <2>1. UNCHANGED <<activeJob, commandJob, Chat!escapeVars>> \/ Chat!Disarm
    BY <1>4 DEF Chat!HandleCommandEvent, Chat!viewVars
  <2>2. QED
    BY <2>1, ArmedRests
<1>5. Armed'
  BY <1>2, <1>3, <1>4
<1>6. QED
  BY <1>1, <1>5 DEF EscapeInv, Chat!CancelsItsJob

LEMMA EscapeDrains ==
  ASSUME EscapeInv,
         Chat!DrainNothing \/ Chat!DrainRefused \/ Chat!DrainReview \/ Chat!DrainMessage
         \/ Chat!NextFrame
  PROVE  EscapeInv' /\ Chat!CancelsItsJob
<1>1. UNCHANGED <<cancelled, commandJob, Chat!escapeVars>>
  BY DEF Chat!DrainNothing, Chat!DrainRefused, Chat!DrainReview, Chat!DrainMessage,
         Chat!NextFrame, Chat!FrameKeys, Chat!Begin, Chat!Submit, Chat!workerVars, Chat!viewVars
<1>2. CASE UNCHANGED activeJob
  BY <1>1, <1>2, ArmedRests DEF EscapeInv, Chat!CancelsItsJob
<1>3. CASE Chat!Idle
  <2>1. escape # Chat!Unarmed => failed
    BY <1>3 DEF Chat!Idle, EscapeInv, Armed, Chat!Unarmed
  <2>2. QED
    BY <1>1, <2>1 DEF EscapeInv, Armed, Chat!CancelsItsJob, Chat!escapeVars
<1>4. QED
  BY <1>2, <1>3 DEF Chat!DrainNothing, Chat!DrainRefused, Chat!DrainReview, Chat!DrainMessage,
                    Chat!NextFrame, Chat!MessageDue, Chat!viewVars

LEMMA EscapeKeys == ASSUME EscapeInv, Chat!KeysNext PROVE EscapeInv' /\ Chat!CancelsItsJob
<1>1. CASE Chat!Disarm /\ UNCHANGED cancelled
  BY <1>1, ArmedRests DEF EscapeInv, Chat!CancelsItsJob
<1>2. CASE Chat!EditText \/ Chat!OpenMessage \/ Chat!SaveEdits \/ Chat!EnterQueued
           \/ Chat!EnterTask \/ Chat!OpenPicker \/ Chat!EnterClear
           \/ Chat!Choose \/ Chat!ChooseLate \/ Chat!EnterCommand \/ Chat!Approve
           \/ Chat!CancelNothing
  <2>1. CASE Chat!EditText \/ Chat!OpenMessage \/ Chat!SaveEdits \/ Chat!EnterQueued
             \/ Chat!OpenPicker \/ Chat!EnterClear
             \/ Chat!ChooseLate \/ Chat!Approve \/ Chat!CancelNothing
    BY <1>1, <2>1 DEF Chat!EditText, Chat!OpenMessage, Chat!SaveEdits, Chat!EnterQueued,
                      Chat!OpenPicker, Chat!EnterClear, Chat!ChooseLate, Chat!Approve,
                      Chat!CancelNothing, Chat!Enter, Chat!DoubleEscape, Chat!Untouched,
                      Chat!Respond, Chat!workerVars
  <2>2. CASE Chat!EnterTask \/ Chat!Choose \/ Chat!EnterCommand
    BY <1>1, <2>2 DEF Chat!EnterTask, Chat!Choose, Chat!EnterCommand, Chat!Enter, Chat!SubmitTask,
                      Chat!Begin, Chat!Submit, Chat!workerVars
  <2>3. QED
    BY <1>2, <2>1, <2>2
<1>3. CASE Chat!EnterPaused \/ Chat!RequestQuit
  <2>1. UNCHANGED <<cancelled, activeJob, commandJob, Chat!escapeVars>>
    BY <1>3 DEF Chat!EnterPaused, Chat!RequestQuit, Chat!Untouched, Chat!Respond, Chat!workerVars,
                Chat!viewVars
  <2>2. QED
    BY <2>1, ArmedRests DEF EscapeInv, Chat!CancelsItsJob
<1>4. CASE Chat!Escape
  <2>1. UNCHANGED <<cancelled, activeJob, commandJob>> /\ Chat!FirstEscape
    BY <1>4 DEF Chat!Escape, Chat!Respond, Chat!workerVars
  <2>2. QED
    BY <2>1 DEF EscapeInv, Chat!CancelsItsJob, Armed, Chat!FirstEscape
<1>5. CASE Chat!CancelCommand \/ Chat!CancelJob
  <2>1. Chat!Disarm /\ escape # Chat!Unarmed
    BY <1>5 DEF Chat!CancelCommand, Chat!CancelJob, Chat!DoubleEscape
  <2>2. CASE UNCHANGED cancelled
    BY <1>1, <2>1, <2>2
  <2>3. CASE Chat!CancelCommand /\ Chat!Cancel(Chat!Command, commandJob)
    <3>1. cancelled' = [cancelled EXCEPT ![Chat!Command] = @ \cup {commandJob}]
      BY <2>3 DEF Chat!Cancel
    <3>2. /\ \A w \in Chat!Workers : w # Chat!Command => cancelled'[w] = cancelled[w]
          /\ cancelled'[Chat!Command] = cancelled[Chat!Command] \cup {commandJob}
          /\ cancelled' = [w \in Chat!Workers |-> cancelled'[w]]
      BY <3>1 DEF EscapeInv, Chat!Workers
    <3>3. ~ failed => escape[Chat!Command] = commandJob
      BY <2>1 DEF EscapeInv, Armed, Chat!Workers, Chat!Agent, Chat!Command
    <3>4. Chat!CancelsItsJob
      BY <3>2, <3>3 DEF Chat!CancelsItsJob
    <3>5. QED
      BY <2>1, <3>2, <3>4, ArmedRests DEF EscapeInv
  <2>4. CASE Chat!CancelJob /\ Chat!Cancel(Chat!Agent, activeJob)
    <3>1. cancelled' = [cancelled EXCEPT ![Chat!Agent] = @ \cup {activeJob}]
      BY <2>4 DEF Chat!Cancel
    <3>2. /\ \A w \in Chat!Workers : w # Chat!Agent => cancelled'[w] = cancelled[w]
          /\ cancelled'[Chat!Agent] = cancelled[Chat!Agent] \cup {activeJob}
          /\ cancelled' = [w \in Chat!Workers |-> cancelled'[w]]
      BY <3>1 DEF EscapeInv, Chat!Workers
    <3>3. ~ failed => escape[Chat!Agent] = activeJob
      BY <2>1 DEF EscapeInv, Armed, Chat!Workers, Chat!Agent, Chat!Command
    <3>4. Chat!CancelsItsJob
      BY <3>2, <3>3 DEF Chat!CancelsItsJob
    <3>5. QED
      BY <2>1, <3>2, <3>4, ArmedRests DEF EscapeInv
  <2>5. QED
    BY <1>5, <2>2, <2>3, <2>4 DEF Chat!CancelCommand, Chat!CancelJob, Chat!workerVars
<1>6. QED
  BY <1>2, <1>3, <1>4, <1>5 DEF Chat!KeysNext

LEMMA EscapeKept == ASSUME EscapeInv, Chat!Next PROVE EscapeInv' /\ Chat!CancelsItsJob
BY EscapeWorks, EscapeHandles, EscapeDrains, EscapeKeys DEF Chat!Next

-----------------------------------------------------------------------------
(* The events of a worker, and the job the chat shows.                       *)

Stages == {"idle", "working", "asking", "acting", "replied", "finishing", "ended"}
Kinds  == {"approval_required", "session_restored", "result", "done"} \cup Chat!Ends
Events == [kind : Kinds, job : Nat \ {0}, id : Nat]

ViewTyped ==
  /\ quitting \in BOOLEAN /\ startedIdle \in BOOLEAN
  /\ phase \in {"idle", "running", "approval", "stopping", "done", "error"}
  /\ activeJob \in Nat /\ commandJob \in Nat /\ approval \in Nat
WorkTyped ==
  /\ commands \in [Chat!Workers -> Seq(Nat)] /\ running \in [Chat!Workers -> Nat]
  /\ stage \in [Chat!Workers -> Stages] /\ cancelled \in [Chat!Workers -> SUBSET Nat]
  /\ submitted \in [Chat!Workers -> Nat] /\ events \in [Chat!Workers -> Seq(Events)]
  /\ asked \in Nat /\ asks \in Nat /\ answer \in {"none", "yes", "no"}

\* The events of a job come in the order of its stages.
Rank == [k \in Kinds |->
           CASE k = "approval_required" -> 1 [] k \in {"session_restored", "result"} -> 2
             [] k = "done" -> 3 [] k \in Chat!Ends -> 4]
Reached == [s \in Stages |->
           CASE s \in {"idle", "working"} -> 0 [] s \in {"asking", "acting"} -> 1
             [] s = "replied" -> 2 [] s = "finishing" -> 3 [] s = "ended" -> 4]

Has(s, n, k) == \E i \in 1..Len(s) : s[i].job = n /\ s[i].kind = k
Named(s, n, a) == \A i \in 1..Len(s) : s[i].job = n => s[i].id = a
Asking(s) == \A i \in 1..Len(s) : s[i].kind = "approval_required" => s[i].id # 0
Rising(s) ==
  \A i, j \in 1..Len(s) : i < j /\ s[i].job = s[j].job => Rank[s[i].kind] < Rank[s[j].kind]
Once(s) == \A i, j \in 1..Len(s) : i < j => s[i] # s[j] \/ s[i] = Chat!Reset

\* What a worker will publish of a job depends on what it has published.
Running(w) ==
  /\ stage[w] = "idle" <=> running[w] = Chat!NoJob
  /\ running[w] <= submitted[w]
  /\ \A k \in Kinds : Has(events[w], running[w], k) => Rank[k] <= Reached[stage[w]]
Waits(w) ==
  /\ Once(commands[w])
  /\ \A n \in Chat!Elements(commands[w]) : n <= submitted[w]
  /\ \A n \in Chat!Elements(commands[w]) \ {Chat!Reset} :
       running[w] # n /\ \A k \in Kinds : ~ Has(events[w], n, k)
Published(w) ==
  /\ Rising(events[w]) /\ Asking(events[w])
  /\ \A n \in Nat : \A k \in Kinds :
       Has(events[w], n, k) => /\ n <= submitted[w]
                               /\ w = Chat!Command => k \in {"done"} \cup Chat!Ends
WorkersInv == WorkTyped /\ \A w \in Chat!Workers : Running(w) /\ Waits(w) /\ Published(w)

Queued(n) == n \in Chat!Elements(commands[Chat!Agent])
AtWork(n) == running[Chat!Agent] = n /\ stage[Chat!Agent] # "ended"

\* Until the end of a job of the conversation the chat waits for it.
Due(w, n) ==
  \/ n \in Chat!Elements(commands[w])
  \/ running[w] = n /\ stage[w] # "ended"
  \/ \E k \in Chat!Ends : Has(events[w], n, k)
Awaits ==
  /\ \A n \in Nat \ {0} : Queued(n) \/ AtWork(n) => activeJob = n
  /\ activeJob # Chat!NoJob => Due(Chat!Agent, activeJob)
  /\ commandJob # Chat!NoJob => Due(Chat!Command, commandJob)

Shown ==
  /\ phase \in Chat!Busy => activeJob # Chat!NoJob \/ (commandJob # Chat!NoJob /\ startedIdle)
  /\ phase = "approval" <=> approval # 0
  /\ phase = "stopping" =>
       activeJob \in cancelled[Chat!Agent] \/ activeJob \notin Chat!Accepted(Chat!Agent)
Fresh(n) == Queued(n) \/ (running[Chat!Agent] = n /\ stage[Chat!Agent] = "working")
Completing(w, n) == Has(events[w], n, "completed") \/ (running[w] = n /\ stage[w] = "finishing")
ShownActive(n) ==
  /\ Fresh(n) => phase \in {"running", "stopping"}
  /\ Has(events[Chat!Agent], n, "approval_required") => phase \in Chat!Busy
  /\ Has(events[Chat!Agent], n, "session_restored") =>
       approval = 0 /\ ~ Has(events[Chat!Agent], n, "approval_required")
  /\ phase = "done" =>
       /\ ~ Queued(n) /\ \A k \in Kinds \ Chat!Ends : ~ Has(events[Chat!Agent], n, k)
       /\ running[Chat!Agent] = n => stage[Chat!Agent] \in {"finishing", "ended"}
  /\ Completing(Chat!Agent, n) =>
       Has(events[Chat!Agent], n, "done") \/ phase \in {"done", "stopping"}
ShownCommand(n) ==
  /\ activeJob = Chat!NoJob
  /\ Completing(Chat!Command, n) => Has(events[Chat!Command], n, "done") \/ phase = "done"
ShownApproval(n) ==
  /\ Named(events[Chat!Agent], n, asked)
  /\ answer = "none" => approval = asked \/ Has(events[Chat!Agent], n, "approval_required")
ChatShown ==
  ~ quitting =>
    /\ Shown
    /\ activeJob # Chat!NoJob => ShownActive(activeJob)
    /\ commandJob # Chat!NoJob /\ startedIdle => ShownCommand(commandJob)
    /\ stage[Chat!Agent] = "asking" /\ running[Chat!Agent] \notin cancelled[Chat!Agent] =>
         ShownApproval(running[Chat!Agent])

ChatInv == ViewTyped /\ WorkersInv /\ Awaits /\ ChatShown

\* The order of the kinds of events, and of the stages.
LEMMA Ranks ==
  /\ Rank["approval_required"] = 1 /\ Rank["session_restored"] = 2 /\ Rank["result"] = 2
  /\ Rank["done"] = 3 /\ Rank["completed"] = 4 /\ Rank["error"] = 4 /\ Rank["cancelled"] = 4
  /\ \A k \in Kinds : Rank[k] \in 1..4 /\ (Rank[k] = 4 => k \in Chat!Ends)
  /\ Chat!Ends \subseteq Kinds /\ \A k \in Chat!Ends : Rank[k] = 4
  /\ {"approval_required", "session_restored", "result", "done", "completed", "error",
      "cancelled"} \subseteq Kinds
<1>1. /\ Rank["approval_required"] = 1 /\ Rank["session_restored"] = 2 /\ Rank["result"] = 2
      /\ Rank["done"] = 3 /\ Rank["completed"] = 4 /\ Rank["error"] = 4 /\ Rank["cancelled"] = 4
  BY DEF Rank, Kinds, Chat!Ends
<1>2. \A k \in Kinds :
        k \in {"approval_required", "session_restored", "result", "done", "completed", "error",
               "cancelled"}
  BY DEF Kinds, Chat!Ends
<1>3. QED
  BY <1>1, <1>2 DEF Kinds, Chat!Ends

LEMMA Stagings ==
  /\ Reached["idle"] = 0 /\ Reached["working"] = 0 /\ Reached["asking"] = 1
  /\ Reached["acting"] = 1
  /\ Reached["replied"] = 2 /\ Reached["finishing"] = 3 /\ Reached["ended"] = 4
  /\ \A s \in Stages : Reached[s] \in 0..4
BY DEF Reached, Stages

LEMMA EventsOf ==
  ASSUME NEW s \in Seq(Events)
  PROVE  /\ Len(s) \in Nat
         /\ \A i \in 1..Len(s) :
              /\ s[i] \in Events /\ s[i].kind \in Kinds /\ s[i].job \in Nat \ {0}
              /\ s[i].id \in Nat
         /\ \A n, k : Has(s, n, k) => n \in Nat \ {0} /\ k \in Kinds
<1>1. Len(s) \in Nat /\ \A i \in 1..Len(s) : s[i] \in Events
  OBVIOUS
<1>2. QED
  BY <1>1 DEF Events, Has

\* An event is published after the events of its job.
LEMMA PublishedAfter ==
  ASSUME NEW s \in Seq(Events), NEW e \in Events
  PROVE  /\ Append(s, e) \in Seq(Events)
         /\ \A n, k : Has(Append(s, e), n, k) <=> Has(s, n, k) \/ (n = e.job /\ k = e.kind)
         /\ Rising(s) /\ (\A k \in Kinds : Has(s, e.job, k) => Rank[k] < Rank[e.kind])
              => Rising(Append(s, e))
         /\ Asking(s) /\ (e.kind = "approval_required" => e.id # 0) => Asking(Append(s, e))
<1> DEFINE t == Append(s, e)
<1>1. /\ t \in Seq(Events) /\ Len(t) = Len(s) + 1 /\ Len(s) \in Nat
      /\ \A i \in 1..Len(s) : t[i] = s[i] /\ i \in 1..Len(t)
      /\ t[Len(s) + 1] = e /\ Len(s) + 1 \in 1..Len(t)
      /\ \A i \in 1..Len(t) : i \in 1..Len(s) \/ i = Len(s) + 1
  <2>1. /\ t \in Seq(Events) /\ Len(t) = Len(s) + 1 /\ Len(s) \in Nat
        /\ \A i \in 1..Len(s) : t[i] = s[i] /\ i \in 1..Len(t)
        /\ t[Len(s) + 1] = e
        /\ \A i \in 1..Len(t) : i \in 1..Len(s) \/ i = Len(s) + 1
    BY Appended
  <2>2. Len(s) + 1 \in 1..Len(t)
    BY <2>1
  <2>3. QED
    BY <2>1, <2>2
<1> HIDE DEF t
<1>2. \A n, k : Has(t, n, k) <=> Has(s, n, k) \/ (n = e.job /\ k = e.kind)
  BY <1>1 DEF Has
<1>3. ASSUME Rising(s), \A k \in Kinds : Has(s, e.job, k) => Rank[k] < Rank[e.kind]
      PROVE  Rising(t)
  <2> SUFFICES ASSUME NEW i \in 1..Len(t), NEW j \in 1..Len(t), i < j, t[i].job = t[j].job
               PROVE  Rank[t[i].kind] < Rank[t[j].kind]
    BY DEF Rising
  <2>1. i \in 1..Len(s)
    BY <1>1
  <2>2. CASE j \in 1..Len(s)
    BY <1>1, <1>3, <2>1, <2>2 DEF Rising
  <2>3. CASE j = Len(s) + 1
    <3>1. t[j] = e /\ t[i] = s[i] /\ s[i].kind \in Kinds
      BY <1>1, <2>1, <2>3, EventsOf
    <3>2. Has(s, e.job, s[i].kind)
      BY <2>1, <3>1 DEF Has
    <3>3. QED
      BY <1>3, <3>1, <3>2
  <2>4. QED
    BY <1>1, <2>2, <2>3
<1>4. Asking(s) /\ (e.kind = "approval_required" => e.id # 0) => Asking(t)
  BY <1>1 DEF Asking
<1>5. QED
  BY <1>1, <1>2, <1>3, <1>4 DEF t

\* The events of a job that are left come after the first.
LEMMA ConsumedBefore ==
  ASSUME NEW s \in Seq(Events), s # <<>>
  PROVE  /\ Tail(s) \in Seq(Events) /\ Head(s) \in Events
         /\ \A n, k : Has(s, n, k) <=> Has(Tail(s), n, k) \/ (n = Head(s).job /\ k = Head(s).kind)
         /\ Rising(s) =>
              /\ Rising(Tail(s))
              /\ \A k \in Kinds : Has(Tail(s), Head(s).job, k) => Rank[Head(s).kind] < Rank[k]
         /\ Asking(s) => Asking(Tail(s)) /\ (Head(s).kind = "approval_required" => Head(s).id # 0)
         /\ \A n, a : Named(s, n, a) =>
              Named(Tail(s), n, a) /\ (Head(s).job = n => Head(s).id = a)
<1> DEFINE t == Tail(s)
<1>1. /\ t \in Seq(Events) /\ Len(t) = Len(s) - 1 /\ Len(t) \in Nat
      /\ 1 \in 1..Len(s) /\ s[1] = Head(s) /\ Head(s) \in Events
      /\ \A i \in 1..Len(t) : i + 1 \in 1..Len(s) /\ t[i] = s[i + 1]
      /\ \A i \in 1..Len(s) : i # 1 => i - 1 \in 1..Len(t) /\ t[i - 1] = s[i]
  BY Tailed
<1> HIDE DEF t
<1>2. ASSUME NEW n, NEW k
      PROVE  Has(s, n, k) <=> Has(t, n, k) \/ (n = Head(s).job /\ k = Head(s).kind)
  <2>1. ASSUME Has(s, n, k) PROVE Has(t, n, k) \/ (n = Head(s).job /\ k = Head(s).kind)
    <3>1. PICK i \in 1..Len(s) : s[i].job = n /\ s[i].kind = k
      BY <2>1 DEF Has
    <3>2. CASE i = 1
      BY <1>1, <3>1, <3>2
    <3>3. CASE i # 1
      BY <1>1, <3>1, <3>3 DEF Has
    <3>4. QED
      BY <3>2, <3>3
  <2>2. ASSUME Has(t, n, k) PROVE Has(s, n, k)
    BY <1>1, <2>2 DEF Has
  <2>3. ASSUME n = Head(s).job, k = Head(s).kind PROVE Has(s, n, k)
    BY <1>1, <2>3 DEF Has
  <2>4. QED
    BY <2>1, <2>2, <2>3
<1>3. ASSUME Rising(s)
      PROVE  /\ Rising(t)
             /\ \A k \in Kinds : Has(t, Head(s).job, k) => Rank[Head(s).kind] < Rank[k]
  <2>1. \A i, j \in 1..Len(s) : i < j /\ s[i].job = s[j].job => Rank[s[i].kind] < Rank[s[j].kind]
    BY <1>3 DEF Rising
  <2>2. Rising(t)
    <3> SUFFICES ASSUME NEW i \in 1..Len(t), NEW j \in 1..Len(t), i < j, t[i].job = t[j].job
                 PROVE  Rank[t[i].kind] < Rank[t[j].kind]
      BY DEF Rising
    <3>1. i + 1 \in 1..Len(s) /\ j + 1 \in 1..Len(s) /\ t[i] = s[i + 1] /\ t[j] = s[j + 1]
      BY <1>1
    <3>2. i + 1 < j + 1
      BY <1>1
    <3>3. QED
      BY <2>1, <3>1, <3>2
  <2>3. ASSUME NEW k, Has(t, Head(s).job, k) PROVE Rank[Head(s).kind] < Rank[k]
    <3>1. PICK i \in 1..Len(t) : t[i].job = Head(s).job /\ t[i].kind = k
      BY <2>3 DEF Has
    <3>2. i + 1 \in 1..Len(s) /\ t[i] = s[i + 1] /\ 1 < i + 1
      BY <1>1
    <3>3. QED
      BY <1>1, <2>1, <3>1, <3>2
  <2>4. QED
    BY <2>2, <2>3
<1>4. Asking(s) => Asking(t) /\ (Head(s).kind = "approval_required" => Head(s).id # 0)
  BY <1>1 DEF Asking
<1>5. \A n, a : Named(s, n, a) => Named(t, n, a) /\ (Head(s).job = n => Head(s).id = a)
  BY <1>1 DEF Named
<1>6. QED
  BY <1>1, <1>2, <1>3, <1>4, <1>5 DEF t

\* A job waits in a queue once.
LEMMA OnceAppended ==
  ASSUME NEW s \in Seq(Nat), NEW x \in Nat, Once(s), x \notin Chat!Elements(s) \/ x = Chat!Reset
  PROVE  Once(Append(s, x))
<1>1. /\ Len(Append(s, x)) = Len(s) + 1 /\ Len(s) \in Nat
      /\ \A i \in 1..Len(s) : Append(s, x)[i] = s[i] /\ s[i] \in Chat!Elements(s)
      /\ Append(s, x)[Len(s) + 1] = x
      /\ \A i \in 1..Len(Append(s, x)) : i \in 1..Len(s) \/ i = Len(s) + 1
  BY Appended, Members
<1> SUFFICES ASSUME NEW i \in 1..Len(Append(s, x)), NEW j \in 1..Len(Append(s, x)), i < j
             PROVE  Append(s, x)[i] # Append(s, x)[j] \/ Append(s, x)[i] = Chat!Reset
  BY DEF Once
<1>2. i \in 1..Len(s)
  BY <1>1
<1>3. CASE j \in 1..Len(s)
  BY <1>1, <1>2, <1>3 DEF Once
<1>4. CASE j = Len(s) + 1
  BY <1>1, <1>2, <1>4
<1>5. QED
  BY <1>1, <1>3, <1>4

LEMMA OnceTaken ==
  ASSUME NEW s \in Seq(Nat), s # <<>>, Once(s)
  PROVE  Once(Tail(s)) /\ (Head(s) # Chat!Reset => Head(s) \notin Chat!Elements(Tail(s)))
<1> DEFINE t == Tail(s)
<1>1. /\ t \in Seq(Nat) /\ Len(t) \in Nat
      /\ 1 \in 1..Len(s) /\ s[1] = Head(s)
      /\ \A i \in 1..Len(t) : i + 1 \in 1..Len(s) /\ t[i] = s[i + 1]
  BY Tailed
<1> HIDE DEF t
<1>2. \A i, j \in 1..Len(t) : i < j => i + 1 < j + 1
  BY <1>1
<1>3. Once(t)
  BY <1>1, <1>2 DEF Once
<1>4. ASSUME Head(s) # Chat!Reset, Head(s) \in Chat!Elements(t) PROVE FALSE
  <2>1. PICK i \in 1..Len(t) : t[i] = Head(s)
    BY <1>1, <1>4, Members
  <2>2. 1 < i + 1
    BY <1>1
  <2>3. QED
    BY <1>1, <1>4, <2>1, <2>2 DEF Once
<1>5. QED
  BY <1>3, <1>4 DEF t

-----------------------------------------------------------------------------
(* The workers.                                                              *)

LEMMA WorkersStart == ASSUME Chat!Init PROVE WorkersInv
<1>1. /\ commands = [w \in Chat!Workers |-> <<>>] /\ running = [w \in Chat!Workers |-> Chat!NoJob]
      /\ stage = [w \in Chat!Workers |-> "idle"] /\ cancelled = [w \in Chat!Workers |-> {}]
      /\ submitted = [w \in Chat!Workers |-> 0] /\ events = [w \in Chat!Workers |-> <<>>]
      /\ asked = 0 /\ asks = 0 /\ answer = "none"
  BY DEF Chat!Init
<1>2. /\ \A S : <<>> \in Seq(S) /\ \A i : i \notin 1..Len(<<>>)
      /\ Chat!Elements(<<>>) = {}
  BY DEF Chat!Elements
<1>3. WorkTyped
  BY <1>1, <1>2 DEF WorkTyped, Stages, Chat!NoJob
<1>4. ASSUME NEW w \in Chat!Workers PROVE Running(w) /\ Waits(w) /\ Published(w)
  <2>1. /\ commands[w] = <<>> /\ events[w] = <<>> /\ stage[w] = "idle" /\ running[w] = Chat!NoJob
        /\ submitted[w] = 0
    BY <1>1
  <2>2. Once(<<>>) /\ Rising(<<>>) /\ Asking(<<>>) /\ \A n, k : ~ Has(<<>>, n, k)
    BY <1>2 DEF Once, Rising, Asking, Has
  <2>3. QED
    BY <1>2, <2>1, <2>2 DEF Running, Waits, Published, Chat!NoJob
<1>5. QED
  BY <1>3, <1>4 DEF WorkersInv

\* An event that comes after those of its stage keeps the order.
LEMMA PublishKeeps ==
  ASSUME WorkersInv, NEW w \in Chat!Workers, NEW kind \in Kinds, NEW s \in Stages \ {"idle"},
         Chat!Publish(w, kind), Chat!To(w, s),
         UNCHANGED <<commands, running, cancelled, submitted>>,
         asked' \in Nat, asks' \in Nat, answer' \in {"none", "yes", "no"},
         kind = "approval_required" => asked' # 0,
         stage[w] # "idle", Reached[stage[w]] < Rank[kind], Rank[kind] <= Reached[s],
         w = Chat!Command => kind \in {"done"} \cup Chat!Ends
  PROVE  /\ WorkersInv' /\ running[w] # 0
         /\ stage'[w] = s
         /\ \A v \in Chat!Workers \ {w} : stage'[v] = stage[v] /\ events'[v] = events[v]
         /\ \A n, k : Has(events'[w], n, k) <=>
              Has(events[w], n, k) \/ (n = running[w] /\ k = kind)
         /\ events'[w] = Append(events[w], [kind |-> kind, job |-> running[w], id |-> asked'])
<1> DEFINE e == [kind |-> kind, job |-> running[w], id |-> asked']
<1>1. WorkTyped /\ \A v \in Chat!Workers : Running(v) /\ Waits(v) /\ Published(v)
  BY DEF WorkersInv
<1>2. events[w] \in Seq(Events) /\ running[w] \in Nat \ {0} /\ stage[w] \in Stages
      /\ submitted[w] \in Nat
  BY <1>1 DEF WorkTyped, Running, Chat!NoJob
<1>3. e \in Events /\ e.job = running[w] /\ e.kind = kind /\ e.id = asked'
  BY <1>2 DEF Events
<1>4. /\ stage' = [stage EXCEPT ![w] = s] /\ events' = [events EXCEPT ![w] = Append(@, e)]
      /\ stage'[w] = s /\ events'[w] = Append(events[w], e)
      /\ \A v \in Chat!Workers \ {w} : stage'[v] = stage[v] /\ events'[v] = events[v]
  BY <1>1 DEF Chat!Publish, Chat!To, WorkTyped
<1> HIDE DEF e
<1>5. \A k \in Kinds : Has(events[w], running[w], k) => Rank[k] < Rank[kind]
  <2> SUFFICES ASSUME NEW k \in Kinds, Has(events[w], running[w], k) PROVE Rank[k] < Rank[kind]
    OBVIOUS
  <2>1. Rank[k] <= Reached[stage[w]]
    BY <1>1 DEF Running
  <2>2. Rank[k] \in Nat /\ Rank[kind] \in Nat /\ Reached[stage[w]] \in Nat
    BY <1>2, Ranks, Stagings
  <2>3. QED
    BY <2>1, <2>2
<1>6. /\ events'[w] \in Seq(Events)
      /\ \A n, k : Has(events'[w], n, k) <=> Has(events[w], n, k) \/ (n = running[w] /\ k = kind)
      /\ Rising(events'[w]) /\ Asking(events'[w])
  <2>1. /\ Append(events[w], e) \in Seq(Events)
        /\ \A n, k : Has(Append(events[w], e), n, k) <=>
             Has(events[w], n, k) \/ (n = e.job /\ k = e.kind)
        /\ Rising(events[w])
             /\ (\A k \in Kinds : Has(events[w], e.job, k) => Rank[k] < Rank[e.kind]) =>
             Rising(Append(events[w], e))
        /\ Asking(events[w]) /\ (e.kind = "approval_required" => e.id # 0) =>
             Asking(Append(events[w], e))
    BY <1>2, <1>3, PublishedAfter
  <2>2. Rising(events[w]) /\ Asking(events[w])
    BY <1>1 DEF Published
  <2>3. QED
    BY <1>3, <1>4, <1>5, <2>1, <2>2
<1>7. WorkTyped'
  <2>1. events' \in [Chat!Workers -> Seq(Events)] /\ stage' \in [Chat!Workers -> Stages]
    BY <1>1, <1>4, <1>6 DEF WorkTyped
  <2>2. QED
    BY <1>1, <2>1 DEF WorkTyped
<1>8. Running(w)' /\ Waits(w)' /\ Published(w)'
  <2>1. Running(w)'
    <3>1. \A k \in Kinds : Has(events'[w], running[w], k) => Rank[k] <= Reached[s]
      <4> SUFFICES ASSUME NEW k \in Kinds, Has(events'[w], running[w], k)
                   PROVE  Rank[k] <= Reached[s]
        OBVIOUS
      <4>1. Rank[k] < Rank[kind] \/ k = kind
        BY <1>5, <1>6
      <4>2. Rank[k] \in Nat /\ Rank[kind] \in Nat /\ Reached[s] \in Nat
        BY Ranks, Stagings
      <4>3. QED
        BY <4>1, <4>2
    <3>2. QED
      BY <1>1, <1>2, <1>4, <3>1 DEF Running, Chat!NoJob
  <2>2. Waits(w)'
    BY <1>1, <1>6 DEF Waits
  <2>3. Published(w)'
    <3>1. running[w] <= submitted[w]
      BY <1>1 DEF Running
    <3>2. QED
      BY <1>1, <1>6, <3>1 DEF Published
  <2>4. QED
    BY <2>1, <2>2, <2>3
<1>9. \A v \in Chat!Workers \ {w} : Running(v)' /\ Waits(v)' /\ Published(v)'
  BY <1>1, <1>4 DEF Running, Waits, Published
<1>10. WorkersInv'
  BY <1>7, <1>8, <1>9 DEF WorkersInv
<1>11. QED
  BY <1>2, <1>4, <1>6, <1>10 DEF e

\* The interface handles the first event.
LEMMA ConsumeKeeps ==
  ASSUME WorkersInv, NEW w \in Chat!Workers, events[w] # <<>>, Chat!Consume(w),
         UNCHANGED <<commands, running, stage, cancelled, submitted, asked, asks>>,
         answer' \in {"none", "yes", "no"}
  PROVE  /\ WorkersInv' /\ events[w] \in Seq(Events) /\ events'[w] = Tail(events[w])
         /\ \A v \in Chat!Workers \ {w} : events'[v] = events[v]
         /\ Head(events[w]) \in Events /\ Head(events[w]).kind \in Kinds
         /\ Head(events[w]).job \in Nat \ {0} /\ Head(events[w]).id \in Nat
         /\ \A n, k : Has(events[w], n, k)
              <=> Has(events'[w], n, k) \/ (n = Head(events[w]).job /\ k = Head(events[w]).kind)
         /\ \A k \in Kinds : Has(events'[w], Head(events[w]).job, k) =>
              Rank[Head(events[w]).kind] < Rank[k]
         /\ Head(events[w]).kind = "approval_required" => Head(events[w]).id # 0
         /\ w = Chat!Command => Head(events[w]).kind \in {"done"} \cup Chat!Ends
<1>1. WorkTyped /\ \A v \in Chat!Workers : Running(v) /\ Waits(v) /\ Published(v)
  BY DEF WorkersInv
<1>2. events[w] \in Seq(Events)
  BY <1>1 DEF WorkTyped
<1>3. /\ events' = [events EXCEPT ![w] = Tail(@)] /\ events'[w] = Tail(events[w])
      /\ \A v \in Chat!Workers \ {w} : events'[v] = events[v]
  BY <1>1 DEF Chat!Consume, WorkTyped
<1>4. Rising(events[w]) /\ Asking(events[w])
  BY <1>1 DEF Published
<1>5. /\ Tail(events[w]) \in Seq(Events) /\ Head(events[w]) \in Events
      /\ \A n, k : Has(events[w], n, k) <=>
           Has(Tail(events[w]), n, k) \/ (n = Head(events[w]).job /\ k = Head(events[w]).kind)
      /\ Rising(Tail(events[w])) /\ Asking(Tail(events[w]))
      /\ \A k \in Kinds : Has(Tail(events[w]), Head(events[w]).job, k) =>
           Rank[Head(events[w]).kind] < Rank[k]
      /\ Head(events[w]).kind = "approval_required" => Head(events[w]).id # 0
  BY <1>2, <1>4, ConsumedBefore
<1>6. /\ Head(events[w]).kind \in Kinds /\ Head(events[w]).job \in Nat \ {0}
      /\ Head(events[w]).id \in Nat
  BY <1>5 DEF Events
<1>7. WorkTyped'
  <2>1. events' \in [Chat!Workers -> Seq(Events)]
    BY <1>1, <1>3, <1>5 DEF WorkTyped
  <2>2. QED
    BY <1>1, <2>1 DEF WorkTyped
<1>8. \A n, k : Has(events'[w], n, k) => Has(events[w], n, k)
  BY <1>3, <1>5
<1>9. Running(w)' /\ Waits(w)' /\ Published(w)'
  BY <1>1, <1>3, <1>5, <1>8 DEF Running, Waits, Published
<1>10. \A v \in Chat!Workers \ {w} : Running(v)' /\ Waits(v)' /\ Published(v)'
  BY <1>1, <1>3 DEF Running, Waits, Published
<1>11. WorkersInv'
  BY <1>7, <1>9, <1>10 DEF WorkersInv
<1>12. w = Chat!Command => Head(events[w]).kind \in {"done"} \cup Chat!Ends
  BY <1>1, <1>5, <1>6 DEF Published
<1>13. QED
  BY <1>2, <1>3, <1>5, <1>6, <1>11, <1>12

\* A job gets a number of its own.
LEMMA SubmitKeeps ==
  ASSUME WorkersInv, NEW w \in Chat!Workers, Chat!Submit(w)
  PROVE  /\ WorkersInv' /\ submitted'[w] = submitted[w] + 1 /\ submitted'[w] \in Nat \ {0}
         /\ running[w] # submitted'[w] /\ submitted'[w] \notin Chat!Elements(commands[w])
         /\ \A k \in Kinds : ~ Has(events[w], submitted'[w], k)
         /\ Chat!Elements(commands'[w]) = Chat!Elements(commands[w]) \cup {submitted'[w]}
         /\ \A v \in Chat!Workers \ {w} : commands'[v] = commands[v]
         /\ UNCHANGED <<running, stage, cancelled, events, asked, answer, asks>>
<1>1. WorkTyped /\ \A v \in Chat!Workers : Running(v) /\ Waits(v) /\ Published(v)
  BY DEF WorkersInv
<1> DEFINE n == submitted[w] + 1
<1>2. /\ commands[w] \in Seq(Nat) /\ submitted[w] \in Nat /\ running[w] \in Nat
      /\ running[w] <= submitted[w]
      /\ n \in Nat \ {0} /\ ~ (n <= submitted[w]) /\ running[w] # n
  <2>1. commands[w] \in Seq(Nat) /\ submitted[w] \in Nat /\ running[w] \in Nat
        /\ running[w] <= submitted[w]
    BY <1>1 DEF WorkTyped, Running
  <2>2. QED
    BY <2>1
<1>3. /\ submitted' = [submitted EXCEPT ![w] = n] /\ submitted'[w] = n
      /\ commands' = [commands EXCEPT ![w] = Append(commands[w], n)]
      /\ commands'[w] = Append(commands[w], n)
      /\ \A v \in Chat!Workers \ {w} : commands'[v] = commands[v] /\ submitted'[v] = submitted[v]
      /\ UNCHANGED <<running, stage, cancelled, events, asked, answer, asks>>
  BY <1>1 DEF Chat!Submit, WorkTyped
<1> HIDE DEF n
<1>4. n \notin Chat!Elements(commands[w]) /\ \A k \in Kinds : ~ Has(events[w], n, k)
  BY <1>1, <1>2 DEF Waits, Published
<1>5. /\ commands'[w] \in Seq(Nat)
      /\ Chat!Elements(commands'[w]) = Chat!Elements(commands[w]) \cup {n} /\ Once(commands'[w])
  <2>1. Once(commands[w])
    BY <1>1 DEF Waits
  <2>2. Once(Append(commands[w], n))
    BY <1>2, <1>4, <2>1, OnceAppended
  <2>3. Append(commands[w], n) \in Seq(Nat)
        /\ Chat!Elements(Append(commands[w], n)) = Chat!Elements(commands[w]) \cup {n}
    BY <1>2, Appended
  <2>4. QED
    BY <1>3, <2>2, <2>3
<1>6. WorkTyped'
  <2>1. commands' \in [Chat!Workers -> Seq(Nat)] /\ submitted' \in [Chat!Workers -> Nat]
    BY <1>1, <1>2, <1>3, <1>5 DEF WorkTyped
  <2>2. QED
    BY <1>1, <1>3, <2>1 DEF WorkTyped
<1>7. Running(w)' /\ Waits(w)' /\ Published(w)'
  <2>1. submitted'[w] = submitted[w] + 1
    BY <1>3 DEF n
  <2>2. Running(w)'
    <3>1. running[w] <= submitted[w] + 1
      BY <1>2
    <3>2. QED
      BY <1>1, <1>3, <2>1, <3>1 DEF Running
  <2>3. \A x \in Nat : x <= submitted[w] => x <= submitted[w] + 1
    BY <1>2
  <2>4. Published(w)'
    BY <1>1, <1>3, <2>1, <2>3 DEF Published
  <2>5. \A x \in Chat!Elements(commands'[w]) : x <= submitted'[w]
    <3>1. Chat!Elements(commands[w]) \subseteq Nat
      BY <1>2, Members
    <3>2. n <= submitted[w] + 1
      BY <1>2 DEF n
    <3>3. QED
      BY <1>1, <1>5, <2>1, <2>3, <3>1, <3>2 DEF Waits
  <2>6. Waits(w)'
    BY <1>1, <1>2, <1>3, <1>4, <1>5, <2>5 DEF Waits
  <2>7. QED
    BY <2>2, <2>4, <2>6
<1>8. \A v \in Chat!Workers \ {w} : Running(v)' /\ Waits(v)' /\ Published(v)'
  BY <1>1, <1>3 DEF Running, Waits, Published
<1>9. WorkersInv'
  BY <1>6, <1>7, <1>8 DEF WorkersInv
<1>10. QED
  BY <1>2, <1>3, <1>4, <1>5, <1>9 DEF n

\* A reset waits like a job.
LEMMA ClearKeeps ==
  ASSUME WorkersInv, commands' = [commands EXCEPT ![Chat!Agent] = Append(@, Chat!Reset)],
         UNCHANGED <<running, stage, cancelled, submitted, events, asked, answer, asks>>
  PROVE  /\ WorkersInv'
         /\ Chat!Elements(commands'[Chat!Agent]) =
              Chat!Elements(commands[Chat!Agent]) \cup {Chat!Reset}
         /\ commands'[Chat!Command] = commands[Chat!Command]
<1>1. WorkTyped /\ \A v \in Chat!Workers : Running(v) /\ Waits(v) /\ Published(v)
  BY DEF WorkersInv
<1>2. commands[Chat!Agent] \in Seq(Nat) /\ Once(commands[Chat!Agent])
      /\ submitted[Chat!Agent] \in Nat
  BY <1>1 DEF WorkTyped, Waits, Chat!Workers
<1>3. /\ commands'[Chat!Agent] = Append(commands[Chat!Agent], Chat!Reset)
      /\ commands'[Chat!Command] = commands[Chat!Command]
      /\ \A v \in Chat!Workers : v # Chat!Agent => commands'[v] = commands[v]
  BY <1>1 DEF WorkTyped, Chat!Workers, Chat!Agent, Chat!Command
<1>4. /\ commands'[Chat!Agent] \in Seq(Nat) /\ Once(commands'[Chat!Agent])
      /\ Chat!Elements(commands'[Chat!Agent]) =
           Chat!Elements(commands[Chat!Agent]) \cup {Chat!Reset}
  <2>1. Chat!Reset \in Nat
    BY DEF Chat!Reset
  <2>2. Once(Append(commands[Chat!Agent], Chat!Reset))
    BY <1>2, <2>1, OnceAppended
  <2>3. /\ Append(commands[Chat!Agent], Chat!Reset) \in Seq(Nat)
        /\ Chat!Elements(Append(commands[Chat!Agent], Chat!Reset)) =
             Chat!Elements(commands[Chat!Agent]) \cup {Chat!Reset}
    BY <1>2, <2>1, Appended
  <2>4. QED
    BY <1>3, <2>2, <2>3
<1>5. WorkTyped'
  <2>1. commands' \in [Chat!Workers -> Seq(Nat)]
    BY <1>1, <1>3, <1>4 DEF WorkTyped
  <2>2. QED
    BY <1>1, <2>1 DEF WorkTyped
<1>6. \A v \in Chat!Workers : Running(v)' /\ Published(v)'
  BY <1>1 DEF Running, Published
<1>7. Waits(Chat!Agent)'
  <2>1. Chat!Reset <= submitted[Chat!Agent]
    BY <1>2 DEF Chat!Reset
  <2>2. QED
    BY <1>1, <1>4, <2>1 DEF Waits, Chat!Workers
<1>8. \A v \in Chat!Workers : v # Chat!Agent => Waits(v)'
  BY <1>1, <1>3 DEF Waits
<1>9. QED
  BY <1>3, <1>4, <1>5, <1>6, <1>7, <1>8 DEF WorkersInv, Chat!Workers

\* A job that is taken has published nothing.
LEMMA TakeKeeps ==
  ASSUME WorkersInv, NEW w \in Chat!Workers, Chat!Take(w)
  PROVE  /\ WorkersInv' /\ running[w] = 0
         /\ Chat!Elements(commands[w]) = {Head(commands[w])} \cup Chat!Elements(commands'[w])
         /\ \A v \in Chat!Workers \ {w} : commands'[v] = commands[v] /\ running'[v] = running[v]
               /\ stage'[v] = stage[v]
         /\ Head(commands[w]) = Chat!Reset => UNCHANGED <<running, stage>>
         /\ Head(commands[w]) # Chat!Reset =>
              /\ running'[w] = Head(commands[w]) /\ stage'[w] = "working"
              /\ running'[w] \in Nat \ {0}
              /\ running'[w] \notin Chat!Elements(commands'[w])
                                              /\ \A k \in Kinds : ~ Has(events[w], running'[w], k)
         /\ UNCHANGED <<cancelled, events, submitted, asked, answer, asks>>
<1>1. WorkTyped /\ \A v \in Chat!Workers : Running(v) /\ Waits(v) /\ Published(v)
  BY DEF WorkersInv
<1>2. /\ commands[w] \in Seq(Nat) /\ Once(commands[w]) /\ commands[w] # <<>> /\ running[w] = 0
  BY <1>1 DEF WorkTyped, Waits, Chat!Take, Chat!NoJob
<1>3. /\ commands' = [commands EXCEPT ![w] = Tail(commands[w])]
      /\ commands'[w] = Tail(commands[w])
      /\ \A v \in Chat!Workers \ {w} : commands'[v] = commands[v]
      /\ UNCHANGED <<cancelled, events, submitted, asked, answer, asks>>
  BY <1>1 DEF Chat!Take, Chat!WorkerStep, WorkTyped
<1>4. /\ commands'[w] \in Seq(Nat) /\ Once(commands'[w]) /\ Head(commands[w]) \in Nat
      /\ Chat!Elements(commands[w]) = {Head(commands[w])} \cup Chat!Elements(commands'[w])
      /\ Head(commands[w]) # Chat!Reset => Head(commands[w]) \notin Chat!Elements(commands'[w])
  BY <1>2, <1>3, Tailed, OnceTaken
<1>5. commands' \in [Chat!Workers -> Seq(Nat)]
  BY <1>1, <1>3, <1>4 DEF WorkTyped
<1>6. /\ \A n \in Chat!Elements(commands'[w]) : n <= submitted[w]
      /\ \A n \in Chat!Elements(commands'[w]) \ {Chat!Reset} :
           running[w] # n /\ \A k \in Kinds : ~ Has(events[w], n, k)
  BY <1>1, <1>4 DEF Waits
<1>7. CASE Head(commands[w]) = Chat!Reset
  <2>1. UNCHANGED <<running, stage>>
    BY <1>7 DEF Chat!Take
  <2>2. WorkTyped'
    BY <1>1, <1>3, <1>5, <2>1 DEF WorkTyped
  <2>3. \A v \in Chat!Workers : Running(v)' /\ Published(v)'
    BY <1>1, <1>3, <2>1 DEF Running, Published
  <2>4. \A v \in Chat!Workers : Waits(v)'
    BY <1>1, <1>3, <1>4, <1>6, <2>1 DEF Waits
  <2>5. QED
    BY <1>2, <1>3, <1>4, <1>7, <2>1, <2>2, <2>3, <2>4 DEF WorkersInv
<1>8. CASE Head(commands[w]) # Chat!Reset
  <2> DEFINE n == Head(commands[w])
  <2>1. /\ running' = [running EXCEPT ![w] = n] /\ stage' = [stage EXCEPT ![w] = "working"]
        /\ running'[w] = n /\ stage'[w] = "working"
        /\ \A v \in Chat!Workers \ {w} : running'[v] = running[v] /\ stage'[v] = stage[v]
    BY <1>1, <1>8 DEF Chat!Take, Chat!To, WorkTyped
  <2>2. n \in Nat \ {0} /\ n \in Chat!Elements(commands[w]) \ {Chat!Reset}
        /\ n \notin Chat!Elements(commands'[w])
    BY <1>4, <1>8 DEF Chat!Reset
  <2> HIDE DEF n
  <2>3. n <= submitted[w] /\ \A k \in Kinds : ~ Has(events[w], n, k)
    BY <1>1, <2>2 DEF Waits
  <2>4. WorkTyped'
    <3>1. running' \in [Chat!Workers -> Nat] /\ stage' \in [Chat!Workers -> Stages]
      BY <1>1, <2>1, <2>2 DEF WorkTyped, Stages
    <3>2. QED
      BY <1>1, <1>3, <1>5, <3>1 DEF WorkTyped
  <2>5. \A v \in Chat!Workers : Published(v)'
    BY <1>1, <1>3 DEF Published
  <2>6. Running(w)'
    BY <1>3, <2>1, <2>2, <2>3 DEF Running, Chat!NoJob
  <2>7. Waits(w)'
    BY <1>3, <1>4, <1>6, <2>1, <2>2 DEF Waits
  <2>8. \A v \in Chat!Workers \ {w} : Running(v)' /\ Waits(v)'
    BY <1>1, <1>3, <2>1 DEF Running, Waits
  <2>9. WorkersInv'
    BY <2>4, <2>5, <2>6, <2>7, <2>8 DEF WorkersInv
  <2>10. QED
    BY <1>2, <1>3, <1>4, <1>8, <2>1, <2>2, <2>3, <2>9 DEF n
<1>9. QED
  BY <1>7, <1>8

LEMMA RetireKeeps ==
  ASSUME WorkersInv, NEW w \in Chat!Workers, Chat!Retire(w)
  PROVE  /\ WorkersInv' /\ running'[w] = 0 /\ stage'[w] = "idle" /\ stage[w] = "ended"
         /\ \A v \in Chat!Workers \ {w} : /\ running'[v] = running[v] /\ stage'[v] = stage[v]
                                          /\ cancelled'[v] = cancelled[v]
         /\ cancelled'[w] = cancelled[w] \ {running[w]}
         /\ UNCHANGED <<commands, events, submitted, asked, answer, asks>>
<1>1. WorkTyped /\ \A v \in Chat!Workers : Running(v) /\ Waits(v) /\ Published(v)
  BY DEF WorkersInv
<1>2. /\ running' = [running EXCEPT ![w] = 0] /\ stage' = [stage EXCEPT ![w] = "idle"]
      /\ cancelled' = [cancelled EXCEPT ![w] = @ \ {running[w]}]
      /\ running'[w] = 0 /\ stage'[w] = "idle" /\ stage[w] = "ended"
      /\ cancelled'[w] = cancelled[w] \ {running[w]}
      /\ \A v \in Chat!Workers \ {w} : /\ running'[v] = running[v] /\ stage'[v] = stage[v]
                                       /\ cancelled'[v] = cancelled[v]
      /\ UNCHANGED <<commands, events, submitted, asked, answer, asks>>
  BY <1>1 DEF Chat!Retire, Chat!WorkerStep, Chat!To, Chat!NoJob, WorkTyped
<1>3. WorkTyped'
  <2>1. /\ running' \in [Chat!Workers -> Nat] /\ stage' \in [Chat!Workers -> Stages]
        /\ cancelled' \in [Chat!Workers -> SUBSET Nat]
    BY <1>1, <1>2 DEF WorkTyped, Stages
  <2>2. QED
    BY <1>1, <1>2, <2>1 DEF WorkTyped
<1>4. Running(w)'
  <2>1. events[w] \in Seq(Events) /\ submitted[w] \in Nat
    BY <1>1 DEF WorkTyped
  <2>2. \A k : ~ Has(events[w], 0, k)
    BY <2>1, EventsOf
  <2>3. 0 <= submitted[w]
    BY <2>1
  <2>4. QED
    BY <1>2, <2>2, <2>3 DEF Running, Chat!NoJob
<1>5. Waits(w)'
  BY <1>1, <1>2 DEF Waits, Chat!Reset
<1>6. \A v \in Chat!Workers : Published(v)'
  BY <1>1, <1>2 DEF Published
<1>7. \A v \in Chat!Workers \ {w} : Running(v)' /\ Waits(v)'
  BY <1>1, <1>2 DEF Running, Waits
<1>8. QED
  BY <1>2, <1>3, <1>4, <1>5, <1>6, <1>7 DEF WorkersInv

\* A cancellation or an answer changes nothing of the jobs.
LEMMA WorkersRest ==
  ASSUME WorkersInv, UNCHANGED <<commands, running, stage, submitted, events, asks>>,
         cancelled' \in [Chat!Workers -> SUBSET Nat], asked' \in Nat,
         answer' \in {"none", "yes", "no"}
  PROVE  WorkersInv'
<1>1. WorkTyped /\ \A v \in Chat!Workers : Running(v) /\ Waits(v) /\ Published(v)
  BY DEF WorkersInv
<1>2. WorkTyped'
  BY <1>1 DEF WorkTyped
<1>3. \A v \in Chat!Workers : Running(v)' /\ Waits(v)' /\ Published(v)'
  BY <1>1 DEF Running, Waits, Published
<1>4. QED
  BY <1>2, <1>3 DEF WorkersInv

-----------------------------------------------------------------------------
(* What the chat shows, while the workers run.                               *)

\* Of a job at work the chat knows, and it has published what its stage allows.
LEMMA AtWorkShown ==
  ASSUME ChatInv, stage[Chat!Agent] \notin {"idle", "ended"}
  PROVE  /\ activeJob = running[Chat!Agent] /\ activeJob \in Nat \ {0} /\ ~ Queued(activeJob)
         /\ activeJob \in Chat!Accepted(Chat!Agent) /\ stage[Chat!Agent] \in Stages
         /\ \A k \in Kinds : Has(events[Chat!Agent], activeJob, k) =>
              Rank[k] \in 1..4 /\ Reached[stage[Chat!Agent]] \in 0..4
              /\ Rank[k] <= Reached[stage[Chat!Agent]]
<1>1. /\ WorkTyped /\ Running(Chat!Agent) /\ Waits(Chat!Agent) /\ Chat!Agent \in Chat!Workers
      /\ \A n \in Nat \ {0} : Queued(n) \/ AtWork(n) => activeJob = n
  BY DEF ChatInv, WorkersInv, Awaits, Chat!Workers
<1>2. running[Chat!Agent] \in Nat \ {0} /\ stage[Chat!Agent] \in Stages
  BY <1>1 DEF WorkTyped, Running, Chat!NoJob
<1>3. activeJob = running[Chat!Agent]
  BY <1>1, <1>2 DEF AtWork
<1>4. ~ Queued(activeJob)
  BY <1>1, <1>2, <1>3 DEF Waits, Queued, Chat!Reset
<1>5. activeJob \in Chat!Accepted(Chat!Agent)
  BY <1>2, <1>3 DEF Chat!Accepted, Chat!NoJob
<1>6. \A k \in Kinds : Has(events[Chat!Agent], activeJob, k) =>
        Rank[k] \in 1..4 /\ Reached[stage[Chat!Agent]] \in 0..4
        /\ Rank[k] <= Reached[stage[Chat!Agent]]
  BY <1>1, <1>2, <1>3, Ranks, Stagings DEF Running
<1>7. QED
  BY <1>2, <1>3, <1>4, <1>5, <1>6

LEMMA CommandMoves ==
  ASSUME ChatInv, WorkersInv', UNCHANGED <<quitting, Chat!viewVars, asked, answer>>,
         commands'[Chat!Agent] = commands[Chat!Agent], running'[Chat!Agent] = running[Chat!Agent],
         stage'[Chat!Agent] = stage[Chat!Agent],
         events'[Chat!Agent] = events[Chat!Agent], cancelled'[Chat!Agent] = cancelled[Chat!Agent],
         commandJob # 0 /\ Due(Chat!Command, commandJob) => Due(Chat!Command, commandJob)',
         commandJob # 0 /\ Completing(Chat!Command, commandJob)' =>
           Completing(Chat!Command, commandJob) \/ Has(events'[Chat!Command], commandJob, "done"),
         commandJob # 0 /\ Has(events[Chat!Command], commandJob, "done")
           => Has(events'[Chat!Command], commandJob, "done")
  PROVE  ChatInv'
<1>1. ViewTyped'
  BY DEF ChatInv, ViewTyped, Chat!viewVars
<1>2. Awaits'
  BY DEF ChatInv, Awaits, Queued, AtWork, Due, Chat!viewVars, Chat!NoJob
<1>3. Shown' <=> Shown
  BY DEF Shown, Chat!Accepted, Chat!viewVars
<1>4. ShownActive(activeJob)' <=> ShownActive(activeJob)
  BY DEF ShownActive, Fresh, Queued, Completing, Chat!viewVars
<1>5. commandJob # 0 /\ ShownCommand(commandJob) => ShownCommand(commandJob)'
  BY DEF ShownCommand, Chat!viewVars
<1>6. ShownApproval(running[Chat!Agent])' <=> ShownApproval(running[Chat!Agent])
  BY DEF ShownApproval, Chat!viewVars
<1>7. ChatShown'
  BY <1>3, <1>4, <1>5, <1>6 DEF ChatInv, ChatShown, Chat!viewVars, Chat!NoJob
<1>8. QED
  BY <1>1, <1>2, <1>7 DEF ChatInv

LEMMA AgentMoves ==
  ASSUME ChatInv, WorkersInv', UNCHANGED <<quitting, Chat!viewVars>>,
         commands'[Chat!Command] = commands[Chat!Command],
         running'[Chat!Command] = running[Chat!Command],
         stage'[Chat!Command] = stage[Chat!Command], events'[Chat!Command] = events[Chat!Command],
         \A n \in Nat \ {0} : Queued(n)' \/ AtWork(n)' => Queued(n) \/ AtWork(n),
         activeJob # 0 /\ Due(Chat!Agent, activeJob) => Due(Chat!Agent, activeJob)',
         ~ quitting /\ phase = "stopping" =>
           activeJob \in cancelled'[Chat!Agent] \/ activeJob \notin Chat!Accepted(Chat!Agent)',
         ~ quitting /\ activeJob # 0 => ShownActive(activeJob)',
         ~ quitting /\ stage'[Chat!Agent] = "asking"
         /\ running'[Chat!Agent] \notin cancelled'[Chat!Agent] =>
           ShownApproval(running[Chat!Agent])'
  PROVE  ChatInv'
<1>1. ViewTyped'
  BY DEF ChatInv, ViewTyped, Chat!viewVars
<1>2. Awaits'
  <2>1. \A n \in Nat \ {0} : Queued(n)' \/ AtWork(n)' => activeJob' = n
    BY DEF ChatInv, Awaits, Chat!viewVars
  <2>2. commandJob' # 0 => Due(Chat!Command, commandJob)'
    BY DEF ChatInv, Awaits, Due, Chat!viewVars, Chat!NoJob
  <2>3. activeJob' # 0 => Due(Chat!Agent, activeJob)'
    BY DEF ChatInv, Awaits, Chat!viewVars, Chat!NoJob
  <2>4. QED
    BY <2>1, <2>2, <2>3 DEF Awaits, Chat!NoJob
<1>3. ~ quitting => Shown'
  BY DEF ChatInv, ChatShown, Shown, Chat!viewVars
<1>4. ShownCommand(commandJob) => ShownCommand(commandJob)'
  BY DEF ShownCommand, Completing, Chat!viewVars
<1>5. ChatShown'
  BY <1>3, <1>4 DEF ChatInv, ChatShown, Chat!viewVars, Chat!NoJob
<1>6. QED
  BY <1>1, <1>2, <1>5 DEF ChatInv

\* A job at work publishes an event, which the chat shows later.
LEMMA AgentPublishes ==
  ASSUME ChatInv, NEW kind \in Kinds, NEW s \in Stages \ {"idle", "working"},
         stage[Chat!Agent] \notin {"idle", "ended"}, Reached[stage[Chat!Agent]] < Rank[kind],
         Rank[kind] <= Reached[s],
         Chat!Publish(Chat!Agent, kind), Chat!To(Chat!Agent, s),
         UNCHANGED <<commands, running, cancelled, submitted>>,
         asked' \in Nat, asks' \in Nat, answer' \in {"none", "yes", "no"},
         kind = "approval_required" => asked' # 0, s = "ended" => kind \in Chat!Ends,
         UNCHANGED <<quitting, Chat!viewVars>>,
         ~ quitting /\ kind = "approval_required" => phase \in Chat!Busy,
         kind = "session_restored" =>
           stage[Chat!Agent] = "working" /\ (~ quitting => approval = 0),
         ~ quitting /\ phase = "done" => kind \in Chat!Ends /\ s \in {"finishing", "ended"},
         kind = "completed" => stage[Chat!Agent] = "finishing",
         s = "finishing" => kind = "done",
         s = "asking" => stage[Chat!Agent] = "working" /\ kind = "approval_required"
  PROVE  ChatInv'
<1> DEFINE n == activeJob
<1>1. /\ n = running[Chat!Agent] /\ n \in Nat \ {0} /\ ~ Queued(n)
      /\ n \in Chat!Accepted(Chat!Agent)
      /\ stage[Chat!Agent] \in Stages
      /\ \A k \in Kinds : Has(events[Chat!Agent], n, k) =>
           Rank[k] \in 1..4 /\ Reached[stage[Chat!Agent]] \in 0..4
           /\ Rank[k] <= Reached[stage[Chat!Agent]]
  BY AtWorkShown
<1>2. /\ WorkersInv' /\ stage'[Chat!Agent] = s /\ stage'[Chat!Command] = stage[Chat!Command]
      /\ events'[Chat!Command] = events[Chat!Command]
      /\ \A m, k : Has(events'[Chat!Agent], m, k) <=>
           Has(events[Chat!Agent], m, k) \/ (m = running[Chat!Agent] /\ k = kind)
      /\ events'[Chat!Agent] =
           Append(events[Chat!Agent], [kind |-> kind, job |-> running[Chat!Agent], id |-> asked'])
  <2>1. WorkersInv /\ Chat!Agent \in Chat!Workers /\ Chat!Command \in Chat!Workers \ {Chat!Agent}
        /\ Chat!Agent # Chat!Command
    BY DEF ChatInv, Chat!Workers, Chat!Agent, Chat!Command
  <2>2. s \in Stages \ {"idle"}
    OBVIOUS
  <2>3. QED
    BY <2>1, <2>2, PublishKeeps
<1>3. \A m, k : Has(events'[Chat!Agent], m, k) <=>
        Has(events[Chat!Agent], m, k) \/ (m = n /\ k = kind)
  BY <1>1, <1>2
<1>4. \A k \in Kinds : Has(events[Chat!Agent], n, k) => Rank[k] < Rank[kind]
  BY <1>1, Ranks
<1>5. n' = n
  BY DEF Chat!viewVars
<1> HIDE DEF n
<1>6. ASSUME ~ quitting PROVE ShownActive(n)'
  <2>1. ShownActive(activeJob) /\ Shown /\ n = activeJob
        /\ UNCHANGED <<phase, approval, commands, running>>
    BY <1>1, <1>6 DEF ChatInv, ChatShown, Chat!viewVars, Chat!NoJob, n
  <2>2. ShownActive(n)
    BY <2>1
  <2>3. ~ Fresh(n)'
    BY <1>5, <1>1, <1>2, <2>1 DEF Fresh, Queued
  <2>4. Has(events'[Chat!Agent], n, "approval_required") => phase \in Chat!Busy
    BY <1>3, <1>6, <2>2 DEF ShownActive
  <2>5. Has(events'[Chat!Agent], n, "session_restored") =>
          approval = 0 /\ ~ Has(events'[Chat!Agent], n, "approval_required")
    <3> SUFFICES ASSUME Has(events'[Chat!Agent], n, "session_restored")
                 PROVE  approval = 0 /\ ~ Has(events'[Chat!Agent], n, "approval_required")
      OBVIOUS
    <3>1. CASE Has(events[Chat!Agent], n, "session_restored")
      <4>1. kind # "approval_required"
        BY <1>4, <3>1, Ranks
      <4>2. QED
        BY <1>3, <2>2, <3>1, <4>1 DEF ShownActive
    <3>2. CASE kind = "session_restored"
      <4>1. approval = 0 /\ Reached[stage[Chat!Agent]] = 0
        BY <1>6, <3>2, Stagings
      <4>2. ~ Has(events[Chat!Agent], n, "approval_required")
        BY <1>1, <4>1, Ranks
      <4>3. QED
        BY <1>3, <3>2, <4>1, <4>2
    <3>3. QED
      BY <1>3, <3>1, <3>2
  <2>6. phase = "done" =>
          /\ ~ Queued(n) /\ \A k \in Kinds \ Chat!Ends : ~ Has(events'[Chat!Agent], n, k)
          /\ s \in {"finishing", "ended"}
    BY <1>1, <1>3, <1>6, <2>2 DEF ShownActive, n
  <2>7. Completing(Chat!Agent, n)' =>
          Has(events'[Chat!Agent], n, "done") \/ phase \in {"done", "stopping"}
    <3>1. CASE s = "finishing"
      BY <1>3, <3>1
    <3>2. CASE s # "finishing" /\ Completing(Chat!Agent, n)'
      <4>1. Has(events[Chat!Agent], n, "completed") \/ stage[Chat!Agent] = "finishing"
        BY <1>5, <1>2, <1>3, <3>2 DEF Completing
      <4>2. Completing(Chat!Agent, n)
        BY <1>1, <4>1 DEF Completing, n
      <4>3. QED
        BY <1>3, <2>2, <4>2 DEF ShownActive
    <3>3. QED
      BY <3>1, <3>2
  <2>8. QED
    BY <1>5, <1>2, <2>1, <2>3, <2>4, <2>5, <2>6, <2>7 DEF ShownActive, Queued
<1>7. ASSUME s = "asking" PROVE ShownApproval(running[Chat!Agent])'
  <2>1. \A k \in Kinds : ~ Has(events[Chat!Agent], n, k)
    <3>1. Reached[stage[Chat!Agent]] = 0
      BY <1>7, Stagings
    <3>2. QED
      BY <1>1, <3>1 DEF n
  <2>2. Named(events'[Chat!Agent], n, asked')
    <3>1. /\ events[Chat!Agent] \in Seq(Events)
          /\ [kind |-> kind, job |-> running[Chat!Agent], id |-> asked'] \in Events
      BY <1>1 DEF ChatInv, WorkersInv, WorkTyped, Chat!Workers, Events
    <3> DEFINE e == [kind |-> kind, job |-> running[Chat!Agent], id |-> asked']
    <3>2. e \in Events /\ e.id = asked' /\ events'[Chat!Agent] = Append(events[Chat!Agent], e)
      BY <1>2, <3>1
    <3> HIDE DEF e
    <3>3. \A i \in 1..Len(events'[Chat!Agent]) :
            \/ i \in 1..Len(events[Chat!Agent]) /\ events'[Chat!Agent][i] = events[Chat!Agent][i]
            \/ events'[Chat!Agent][i] = e
      BY <3>1, <3>2, Appended
    <3>4. \A i \in 1..Len(events[Chat!Agent]) : events[Chat!Agent][i].job # n
      BY <2>1, <3>1, EventsOf DEF Has
    <3>5. QED
      BY <3>2, <3>3, <3>4 DEF Named
  <2>3. Has(events'[Chat!Agent], n, "approval_required")
    BY <1>3, <1>7
  <2>4. QED
    BY <1>1, <2>2, <2>3 DEF ShownApproval, n
<1>8. \A m \in Nat \ {0} : Queued(m)' \/ AtWork(m)' => Queued(m) \/ AtWork(m)
  BY DEF Queued, AtWork
<1>9. Due(Chat!Agent, activeJob)'
  <2>1. s # "ended" => Due(Chat!Agent, activeJob)'
    BY <1>1, <1>2 DEF Due, n, Chat!viewVars
  <2>2. s = "ended" => Due(Chat!Agent, activeJob)'
    BY <1>3 DEF Due, n, Chat!viewVars
  <2>3. QED
    BY <2>1, <2>2
<1>10. ~ quitting /\ phase = "stopping" =>
         activeJob \in cancelled'[Chat!Agent] \/ activeJob \notin Chat!Accepted(Chat!Agent)'
  BY DEF ChatInv, ChatShown, Shown, Chat!Accepted
<1>11. QED
  <2>1. ~ quitting /\ activeJob # 0 => ShownActive(activeJob)'
    BY <1>6 DEF n, Chat!viewVars
  <2>2. stage'[Chat!Agent] = "asking" => ShownApproval(running[Chat!Agent])'
    BY <1>2, <1>7
  <2>3. UNCHANGED <<quitting, Chat!viewVars>> /\ commands'[Chat!Command] = commands[Chat!Command]
        /\ running'[Chat!Command] = running[Chat!Command]
    OBVIOUS
  <2>4. QED
    BY <1>2, <1>8, <1>9, <1>10, <2>1, <2>2, <2>3, AgentMoves

LEMMA AgentSteps ==
  ASSUME ChatInv,
         \/ Chat!Interrupt(Chat!Agent) \/ Chat!Restored \/ Chat!Result \/ Chat!Done(Chat!Agent)
         \/ Chat!Complete(Chat!Agent)
         \/ Chat!Fail(Chat!Agent) \/ Chat!Ask \/ Chat!Answered \/ Chat!Take(Chat!Agent)
         \/ Chat!Retire(Chat!Agent)
  PROVE  ChatInv'
<1>1. /\ WorkersInv /\ WorkTyped /\ Awaits /\ ViewTyped /\ Chat!Agent \in Chat!Workers
      /\ Chat!Agent # Chat!Command
      /\ Chat!Command \in Chat!Workers
  BY DEF ChatInv, WorkersInv, Chat!Workers, Chat!Agent, Chat!Command
<1>2. /\ asked \in Nat /\ asks \in Nat /\ answer \in {"none", "yes", "no"} /\ 0 \in Nat
      /\ stage[Chat!Agent] \in Stages
  BY <1>1 DEF WorkTyped
<1>3. UNCHANGED <<quitting, Chat!viewVars, submitted>>
  BY DEF Chat!Interrupt, Chat!Restored, Chat!Result, Chat!Done, Chat!Complete, Chat!Fail,
         Chat!Ask, Chat!Answered, Chat!Take, Chat!Retire, Chat!Proceed, Chat!WorkerStep
<1>4. {"asking", "acting", "replied", "finishing", "ended"} \subseteq Stages \ {"idle", "working"}
  BY DEF Stages
<1>5. ~ quitting /\ stage[Chat!Agent] = "working" =>
        phase \in {"running", "stopping"} /\ approval = 0
  <2> SUFFICES ASSUME ~ quitting, stage[Chat!Agent] = "working"
               PROVE  phase \in {"running", "stopping"} /\ approval = 0
    OBVIOUS
  <2>1. activeJob = running[Chat!Agent] /\ activeJob # 0
    BY AtWorkShown
  <2>2. ShownActive(activeJob) /\ Shown
    BY <2>1 DEF ChatInv, ChatShown, Chat!NoJob
  <2>3. QED
    BY <2>1, <2>2 DEF ShownActive, Fresh, Shown
<1>6. ~ quitting /\ stage[Chat!Agent] \in {"working", "asking", "acting", "replied"} =>
        phase # "done"
  <2> SUFFICES ASSUME ~ quitting, stage[Chat!Agent] \in {"working", "asking", "acting", "replied"}
               PROVE  phase # "done"
    OBVIOUS
  <2>1. activeJob = running[Chat!Agent] /\ activeJob # 0
    BY AtWorkShown
  <2>2. ShownActive(activeJob)
    BY <2>1 DEF ChatInv, ChatShown, Chat!NoJob
  <2>3. QED
    BY <2>1, <2>2 DEF ShownActive
<1>7. CASE Chat!Interrupt(Chat!Agent)
  <2>1. /\ stage[Chat!Agent] \notin {"idle", "ended"} /\ Chat!Publish(Chat!Agent, "cancelled")
        /\ Chat!To(Chat!Agent, "ended")
        /\ UNCHANGED <<commands, running, cancelled, asks>> /\ asked' = 0 /\ answer' = "none"
    BY <1>7 DEF Chat!Interrupt
  <2>2. Reached[stage[Chat!Agent]] < 4 /\ Rank["cancelled"] = 4 /\ Reached["ended"] = 4
    BY <1>2, <2>1, Ranks, Stagings DEF Stages
  <2>3. "cancelled" \in Kinds /\ "cancelled" \in Chat!Ends
    BY Ranks DEF Chat!Ends
  <2>4. Rank["cancelled"] <= Reached["ended"]
    BY <2>2
  <2>5. QED
    BY <1>2, <1>3, <1>4, <2>1, <2>2, <2>3, <2>4, AgentPublishes
<1>8. CASE Chat!Restored
  <2>1. /\ stage[Chat!Agent] = "working" /\ Chat!Publish(Chat!Agent, "session_restored")
        /\ Chat!To(Chat!Agent, "replied")
        /\ UNCHANGED <<commands, running, cancelled, asked, answer, asks>>
    BY <1>8 DEF Chat!Restored, Chat!Proceed
  <2>2. /\ Reached[stage[Chat!Agent]] < Rank["session_restored"]
        /\ Rank["session_restored"] <= Reached["replied"] /\ "session_restored" \in Kinds
    BY <2>1, Ranks, Stagings
  <2>3. QED
    BY <1>2, <1>3, <1>4, <1>5, <1>6, <2>1, <2>2, AgentPublishes
<1>9. CASE Chat!Result
  <2>1. /\ stage[Chat!Agent] = "acting" /\ Chat!Publish(Chat!Agent, "result")
        /\ Chat!To(Chat!Agent, "replied")
        /\ UNCHANGED <<commands, running, cancelled, asked, answer, asks>>
    BY <1>9 DEF Chat!Result, Chat!Proceed
  <2>2. /\ Reached[stage[Chat!Agent]] < Rank["result"]
        /\ Rank["result"] <= Reached["replied"] /\ "result" \in Kinds
    BY <2>1, Ranks, Stagings
  <2>3. QED
    BY <1>2, <1>3, <1>4, <1>6, <2>1, <2>2, AgentPublishes
<1>10. CASE Chat!Done(Chat!Agent)
  <2>1. /\ stage[Chat!Agent] \in {"working", "replied"} /\ Chat!Publish(Chat!Agent, "done")
        /\ Chat!To(Chat!Agent, "finishing")
        /\ UNCHANGED <<commands, running, cancelled, asked, answer, asks>>
    BY <1>10 DEF Chat!Done, Chat!Proceed
  <2>2. /\ Reached[stage[Chat!Agent]] < Rank["done"]
        /\ Rank["done"] <= Reached["finishing"] /\ "done" \in Kinds
    BY <2>1, Ranks, Stagings
  <2>3. QED
    BY <1>2, <1>3, <1>4, <1>6, <2>1, <2>2, AgentPublishes
<1>11. CASE Chat!Complete(Chat!Agent)
  <2>1. /\ stage[Chat!Agent] = "finishing" /\ Chat!Publish(Chat!Agent, "completed")
        /\ Chat!To(Chat!Agent, "ended")
        /\ UNCHANGED <<commands, running, cancelled, asked, answer, asks>>
    BY <1>11 DEF Chat!Complete, Chat!Proceed
  <2>2. /\ Reached[stage[Chat!Agent]] < Rank["completed"] /\ "completed" \in Chat!Ends
        /\ Rank["completed"] <= Reached["ended"] /\ "completed" \in Kinds
    BY <2>1, Ranks, Stagings DEF Chat!Ends
  <2>3. QED
    BY <1>2, <1>3, <1>4, <2>1, <2>2, AgentPublishes
<1>12. CASE Chat!Fail(Chat!Agent)
  <2>1. /\ stage[Chat!Agent] \in {"working", "acting", "replied"}
        /\ Chat!Publish(Chat!Agent, "error")
        /\ Chat!To(Chat!Agent, "ended")
        /\ UNCHANGED <<commands, running, cancelled, asked, answer, asks>>
    BY <1>12 DEF Chat!Fail, Chat!Proceed
  <2>2. /\ Reached[stage[Chat!Agent]] < Rank["error"] /\ "error" \in Chat!Ends
        /\ Rank["error"] <= Reached["ended"] /\ "error" \in Kinds
    BY <2>1, Ranks, Stagings DEF Chat!Ends
  <2>3. QED
    BY <1>2, <1>3, <1>4, <2>1, <2>2, AgentPublishes
<1>13. CASE Chat!Ask
  <2>1. /\ stage[Chat!Agent] = "working" /\ Chat!Publish(Chat!Agent, "approval_required")
        /\ Chat!To(Chat!Agent, "asking")
        /\ UNCHANGED <<commands, running, cancelled>> /\ asks' = asks + 1 /\ asked' = asks'
        /\ answer' = "none"
    BY <1>13 DEF Chat!Ask
  <2>2. /\ Reached[stage[Chat!Agent]] < Rank["approval_required"]
        /\ Rank["approval_required"] <= Reached["asking"] /\ "approval_required" \in Kinds
    BY <2>1, Ranks, Stagings
  <2>3. asked' \in Nat /\ asked' # 0 /\ asks' \in Nat
    BY <1>2, <2>1
  <2>4. ~ quitting => phase \in Chat!Busy /\ phase # "done"
    BY <1>5, <2>1 DEF Chat!Busy
  <2>5. QED
    BY <1>3, <1>4, <2>1, <2>2, <2>3, <2>4, AgentPublishes
<1>14. CASE Chat!Answered
  <2>1. /\ stage[Chat!Agent] = "asking" /\ stage' = [stage EXCEPT ![Chat!Agent] = "acting"]
        /\ UNCHANGED <<commands, running, cancelled, events, asks>> /\ asked' = 0
        /\ answer' = "none"
    BY <1>14 DEF Chat!Answered, Chat!To
  <2>2. stage'[Chat!Agent] = "acting" /\ stage'[Chat!Command] = stage[Chat!Command]
        /\ stage' \in [Chat!Workers -> Stages]
    BY <1>1, <1>4, <2>1 DEF WorkTyped
  <2>3. WorkersInv'
    <3>1. WorkTyped'
      BY <1>1, <1>3, <2>1, <2>2 DEF WorkTyped
    <3>2. \A w \in Chat!Workers : Waits(w)' /\ Published(w)'
      BY <1>1, <1>3, <2>1 DEF WorkersInv, Waits, Published
    <3>3. Reached[stage'[Chat!Agent]] = Reached[stage[Chat!Agent]]
      BY <2>1, <2>2, Stagings
    <3>4. Running(Chat!Agent) /\ Running(Chat!Command)
      BY <1>1 DEF WorkersInv
    <3>5. Running(Chat!Agent)'
      BY <1>3, <2>1, <2>2, <3>3, <3>4 DEF Running
    <3>6. Running(Chat!Command)'
      BY <1>3, <2>1, <2>2, <3>4 DEF Running
    <3>7. QED
      BY <3>1, <3>2, <3>5, <3>6 DEF WorkersInv, Chat!Workers
  <2>4. activeJob = running[Chat!Agent] /\ activeJob # 0
    BY <2>1, AtWorkShown
  <2>5. ~ quitting => ShownActive(activeJob)'
    <3>1. ~ quitting => ShownActive(activeJob)
      BY <2>4 DEF ChatInv, ChatShown, Chat!NoJob
    <3>2. ~ quitting => phase # "done"
      BY <1>6, <2>1
    <3>3. Fresh(activeJob)' => Fresh(activeJob)
      BY <1>3, <2>1, <2>2 DEF Fresh, Queued, Chat!viewVars
    <3>4. Completing(Chat!Agent, activeJob)' => Completing(Chat!Agent, activeJob)
      BY <1>3, <2>1, <2>2 DEF Completing, Chat!viewVars
    <3>5. QED
      BY <1>3, <2>1, <3>1, <3>2, <3>3, <3>4 DEF ShownActive, Chat!viewVars
  <2>6. \A n \in Nat \ {0} : Queued(n)' \/ AtWork(n)' => Queued(n) \/ AtWork(n)
    BY <2>1 DEF Queued, AtWork
  <2>7. Due(Chat!Agent, activeJob)'
    BY <1>3, <2>1, <2>2, <2>4 DEF Due, Chat!viewVars
  <2>8. ~ quitting /\ phase = "stopping" =>
          activeJob \in cancelled'[Chat!Agent] \/ activeJob \notin Chat!Accepted(Chat!Agent)'
    BY <1>3, <2>1 DEF ChatInv, ChatShown, Shown, Chat!Accepted, Chat!viewVars
  <2>9. QED
    BY <1>3, <2>1, <2>2, <2>3, <2>5, <2>6, <2>7, <2>8, AgentMoves
<1>15. CASE Chat!Take(Chat!Agent)
  <2>1. /\ WorkersInv' /\ running[Chat!Agent] = 0
        /\ Chat!Elements(commands[Chat!Agent]) =
             {Head(commands[Chat!Agent])} \cup Chat!Elements(commands'[Chat!Agent])
        /\ commands'[Chat!Command] = commands[Chat!Command]
        /\ running'[Chat!Command] = running[Chat!Command]
        /\ stage'[Chat!Command] = stage[Chat!Command]
        /\ Head(commands[Chat!Agent]) = Chat!Reset => UNCHANGED <<running, stage>>
        /\ Head(commands[Chat!Agent]) # Chat!Reset =>
             /\ running'[Chat!Agent] = Head(commands[Chat!Agent])
             /\ stage'[Chat!Agent] = "working"
             /\ running'[Chat!Agent] \in Nat \ {0}
             /\ running'[Chat!Agent] \notin Chat!Elements(commands'[Chat!Agent])
             /\ \A k \in Kinds : ~ Has(events[Chat!Agent], running'[Chat!Agent], k)
        /\ UNCHANGED <<cancelled, events, submitted, asked, answer, asks>>
    BY <1>1, <1>15, TakeKeeps
  <2>2. \A n : n # 0 =>
          (n \in Chat!Elements(commands[Chat!Agent]) <=>
             n \in Chat!Elements(commands'[Chat!Agent])
             \/ (Head(commands[Chat!Agent]) # Chat!Reset /\ running'[Chat!Agent] = n))
    BY <2>1 DEF Chat!Reset
  <2>3. stage[Chat!Agent] = "idle"
    BY <1>1, <2>1 DEF WorkersInv, Running, Chat!NoJob
  <2>4. Head(commands[Chat!Agent]) = Chat!Reset =>
          running'[Chat!Agent] = 0 /\ stage'[Chat!Agent] = "idle"
    BY <2>1, <2>3
  <2>5. \A n \in Nat \ {0} : Queued(n)' \/ AtWork(n)' => Queued(n) \/ AtWork(n)
    BY <2>2, <2>4 DEF Queued, AtWork
  <2>6. activeJob # 0 /\ Due(Chat!Agent, activeJob) => Due(Chat!Agent, activeJob)'
    BY <1>3, <2>1, <2>2 DEF Due, Chat!viewVars
  <2>7. ~ quitting /\ phase = "stopping" =>
          activeJob \in cancelled'[Chat!Agent] \/ activeJob \notin Chat!Accepted(Chat!Agent)'
    <3>1. activeJob \in Chat!Accepted(Chat!Agent)' => activeJob \in Chat!Accepted(Chat!Agent)
      BY <1>3, <2>1, <2>2, <2>4 DEF Chat!Accepted, Chat!NoJob, Chat!viewVars
    <3>2. QED
      BY <2>1, <3>1 DEF ChatInv, ChatShown, Shown
  <2>8. ASSUME ~ quitting, activeJob # 0 PROVE ShownActive(activeJob)'
    <3>1. ShownActive(activeJob)
      BY <2>8 DEF ChatInv, ChatShown, Chat!NoJob
    <3>2. Fresh(activeJob)' => Fresh(activeJob)
      BY <1>3, <2>2, <2>4, <2>8 DEF Fresh, Queued, Chat!viewVars
    <3>3. ASSUME phase = "done"
          PROVE  ~ Queued(activeJob)' /\ running'[Chat!Agent] # activeJob
      <4>1. ~ Queued(activeJob)
        BY <3>1, <3>3 DEF ShownActive
      <4>2. QED
        BY <1>3, <2>2, <2>4, <2>8, <4>1 DEF Queued, Chat!viewVars
    <3>4. Completing(Chat!Agent, activeJob)' => Completing(Chat!Agent, activeJob)
      BY <1>3, <2>1, <2>4, <2>8 DEF Completing, Chat!viewVars
    <3>5. QED
      BY <1>3, <2>1, <3>1, <3>2, <3>3, <3>4 DEF ShownActive, Chat!viewVars
  <2>9. stage'[Chat!Agent] # "asking"
    BY <2>1, <2>4
  <2>10. QED
    BY <1>3, <2>1, <2>5, <2>6, <2>7, <2>8, <2>9, AgentMoves
<1>16. CASE Chat!Retire(Chat!Agent)
  <2>1. /\ WorkersInv' /\ running'[Chat!Agent] = 0 /\ stage'[Chat!Agent] = "idle"
        /\ stage[Chat!Agent] = "ended"
        /\ running'[Chat!Command] = running[Chat!Command]
        /\ stage'[Chat!Command] = stage[Chat!Command]
        /\ cancelled'[Chat!Agent] = cancelled[Chat!Agent] \ {running[Chat!Agent]}
        /\ UNCHANGED <<commands, events, submitted, asked, answer, asks>>
    BY <1>1, <1>16, RetireKeeps
  <2>2. \A n \in Nat \ {0} : Queued(n)' \/ AtWork(n)' => Queued(n) \/ AtWork(n)
    BY <2>1 DEF Queued, AtWork
  <2>3. activeJob # 0 /\ Due(Chat!Agent, activeJob) => Due(Chat!Agent, activeJob)'
    BY <1>3, <2>1 DEF Due, Chat!viewVars
  <2>4. ~ quitting /\ phase = "stopping" =>
          activeJob \in cancelled'[Chat!Agent] \/ activeJob \notin Chat!Accepted(Chat!Agent)'
    <3>1. Waits(Chat!Agent)
      BY <1>1 DEF WorkersInv
    <3>2. activeJob = running[Chat!Agent] => activeJob \notin Chat!Accepted(Chat!Agent)'
      BY <1>3, <2>1, <3>1 DEF Waits, Chat!Accepted, Chat!NoJob, Chat!Reset, Chat!viewVars
    <3>3. activeJob \in Chat!Accepted(Chat!Agent)' => activeJob \in Chat!Accepted(Chat!Agent)
      BY <1>3, <2>1 DEF Chat!Accepted, Chat!NoJob, Chat!viewVars
    <3>4. QED
      BY <2>1, <3>2, <3>3 DEF ChatInv, ChatShown, Shown
  <2>5. ASSUME ~ quitting, activeJob # 0 PROVE ShownActive(activeJob)'
    <3>1. ShownActive(activeJob)
      BY <2>5 DEF ChatInv, ChatShown, Chat!NoJob
    <3>2. QED
      BY <1>3, <2>1, <2>5, <3>1 DEF ShownActive, Fresh, Queued, Completing, Chat!viewVars
  <2>6. QED
    BY <1>3, <2>1, <2>2, <2>3, <2>4, <2>5, AgentMoves
<1>17. QED
  BY <1>7, <1>8, <1>9, <1>10, <1>11, <1>12, <1>13, <1>14, <1>15, <1>16

LEMMA CommandSteps ==
  ASSUME ChatInv,
         \/ Chat!Interrupt(Chat!Command) \/ Chat!Done(Chat!Command)
         \/ Chat!Complete(Chat!Command) \/ Chat!Fail(Chat!Command)
                  \/ Chat!Take(Chat!Command) \/ Chat!Retire(Chat!Command)
  PROVE  ChatInv'
<1>1. /\ WorkersInv /\ WorkTyped /\ Awaits /\ Chat!Agent \in Chat!Workers
      /\ Chat!Agent # Chat!Command
      /\ Chat!Command \in Chat!Workers
  BY DEF ChatInv, WorkersInv, Chat!Workers, Chat!Agent, Chat!Command
<1>2. /\ asked \in Nat /\ asks \in Nat /\ answer \in {"none", "yes", "no"}
      /\ stage[Chat!Command] \in Stages
  BY <1>1 DEF WorkTyped
<1>3. UNCHANGED <<quitting, Chat!viewVars, submitted>>
  BY DEF Chat!Interrupt, Chat!Done, Chat!Complete, Chat!Fail, Chat!Take, Chat!Retire,
         Chat!Proceed, Chat!WorkerStep
<1>4. ASSUME NEW kind \in {"done"} \cup Chat!Ends, NEW s \in Stages \ {"idle", "working"},
             stage[Chat!Command] # "idle", Chat!Publish(Chat!Command, kind),
             Chat!To(Chat!Command, s),
             UNCHANGED <<commands, running, cancelled, asked, answer, asks>>,
             Reached[stage[Chat!Command]] < Rank[kind], Rank[kind] <= Reached[s],
             s = "ended" <=> kind \in Chat!Ends, s = "finishing" => kind = "done",
             kind = "completed" => stage[Chat!Command] = "finishing"
      PROVE  ChatInv'
  <2>1. kind \in Kinds /\ kind # "approval_required"
    BY <1>4, Ranks DEF Chat!Ends
  <2>2. /\ WorkersInv' /\ stage'[Chat!Command] = s /\ stage'[Chat!Agent] = stage[Chat!Agent]
        /\ events'[Chat!Agent] = events[Chat!Agent]
        /\ \A n, k : Has(events'[Chat!Command], n, k) <=>
             Has(events[Chat!Command], n, k) \/ (n = running[Chat!Command] /\ k = kind)
    <3>1. s \in Stages \ {"idle"} /\ Chat!Agent \in Chat!Workers \ {Chat!Command}
      BY <1>1
    <3>2. QED
      BY <1>1, <1>2, <1>3, <1>4, <2>1, <3>1, PublishKeeps
  <2>3. Due(Chat!Command, commandJob) => Due(Chat!Command, commandJob)'
    BY <1>3, <1>4, <2>2 DEF Due, Chat!viewVars
  <2>4. Completing(Chat!Command, commandJob)' =>
          Completing(Chat!Command, commandJob) \/ Has(events'[Chat!Command], commandJob, "done")
    BY <1>3, <1>4, <2>2 DEF Completing, Chat!viewVars
  <2>5. Has(events[Chat!Command], commandJob, "done") =>
          Has(events'[Chat!Command], commandJob, "done")
    BY <2>2
  <2>6. QED
    BY <1>3, <1>4, <2>2, <2>3, <2>4, <2>5, CommandMoves
<1>5. {"finishing", "ended"} \subseteq Stages \ {"idle", "working"}
  BY DEF Stages
<1>6. CASE Chat!Interrupt(Chat!Command)
  <2>1. /\ stage[Chat!Command] \notin {"idle", "ended"}
        /\ Chat!Publish(Chat!Command, "cancelled") /\ Chat!To(Chat!Command, "ended")
        /\ UNCHANGED <<commands, running, cancelled, asked, answer, asks>>
    BY <1>1, <1>6 DEF Chat!Interrupt
  <2>2. /\ Reached[stage[Chat!Command]] < Rank["cancelled"]
        /\ Rank["cancelled"] <= Reached["ended"]
        /\ "cancelled" \in Chat!Ends
    <3>1. Reached[stage[Chat!Command]] < 4 /\ Rank["cancelled"] = 4 /\ Reached["ended"] = 4
      BY <1>2, <2>1, Ranks, Stagings DEF Stages
    <3>2. QED
      BY <3>1 DEF Chat!Ends
  <2>3. QED
    BY <1>4, <1>5, <2>1, <2>2
<1>7. CASE Chat!Done(Chat!Command)
  <2>1. /\ stage[Chat!Command] \in {"working", "replied"} /\ Chat!Publish(Chat!Command, "done")
        /\ Chat!To(Chat!Command, "finishing")
        /\ UNCHANGED <<commands, running, cancelled, asked, answer, asks>>
    BY <1>7 DEF Chat!Done, Chat!Proceed
  <2>2. Reached[stage[Chat!Command]] < Rank["done"] /\ Rank["done"] <= Reached["finishing"]
        /\ "done" \notin Chat!Ends
    BY <2>1, Ranks, Stagings DEF Chat!Ends
  <2>3. QED
    BY <1>4, <1>5, <2>1, <2>2
<1>8. CASE Chat!Complete(Chat!Command)
  <2>1. /\ stage[Chat!Command] = "finishing" /\ Chat!Publish(Chat!Command, "completed")
        /\ Chat!To(Chat!Command, "ended")
        /\ UNCHANGED <<commands, running, cancelled, asked, answer, asks>>
    BY <1>8 DEF Chat!Complete, Chat!Proceed
  <2>2. /\ Reached[stage[Chat!Command]] < Rank["completed"]
        /\ Rank["completed"] <= Reached["ended"]
        /\ "completed" \in Chat!Ends
    BY <2>1, Ranks, Stagings DEF Chat!Ends
  <2>3. QED
    BY <1>4, <1>5, <2>1, <2>2
<1>9. CASE Chat!Fail(Chat!Command)
  <2>1. /\ stage[Chat!Command] \in {"working", "acting", "replied"}
        /\ Chat!Publish(Chat!Command, "error")
        /\ Chat!To(Chat!Command, "ended")
        /\ UNCHANGED <<commands, running, cancelled, asked, answer, asks>>
    BY <1>9 DEF Chat!Fail, Chat!Proceed
  <2>2. /\ Reached[stage[Chat!Command]] < Rank["error"] /\ Rank["error"] <= Reached["ended"]
        /\ "error" \in Chat!Ends
    BY <2>1, Ranks, Stagings DEF Chat!Ends
  <2>3. QED
    BY <1>4, <1>5, <2>1, <2>2
<1>10. CASE Chat!Take(Chat!Command)
  <2>1. /\ WorkersInv' /\ running[Chat!Command] = 0
        /\ Chat!Elements(commands[Chat!Command]) =
             {Head(commands[Chat!Command])} \cup Chat!Elements(commands'[Chat!Command])
        /\ commands'[Chat!Agent] = commands[Chat!Agent]
        /\ running'[Chat!Agent] = running[Chat!Agent]
        /\ stage'[Chat!Agent] = stage[Chat!Agent]
        /\ Head(commands[Chat!Command]) = Chat!Reset => UNCHANGED <<running, stage>>
        /\ Head(commands[Chat!Command]) # Chat!Reset =>
             running'[Chat!Command] = Head(commands[Chat!Command])
             /\ stage'[Chat!Command] = "working"
        /\ UNCHANGED <<cancelled, events, submitted, asked, answer, asks>>
    BY <1>1, <1>10, TakeKeeps
  <2>2. commandJob # 0 /\ Due(Chat!Command, commandJob) => Due(Chat!Command, commandJob)'
    BY <1>3, <2>1 DEF Due, Chat!viewVars, Chat!Reset
  <2>3. commandJob # 0 /\ Completing(Chat!Command, commandJob)' =>
          Completing(Chat!Command, commandJob)
    BY <1>3, <2>1 DEF Completing, Chat!viewVars
  <2>4. QED
    BY <1>3, <2>1, <2>2, <2>3, CommandMoves
<1>11. CASE Chat!Retire(Chat!Command)
  <2>1. /\ WorkersInv' /\ running'[Chat!Command] = 0 /\ stage'[Chat!Command] = "idle"
        /\ stage[Chat!Command] = "ended"
        /\ running'[Chat!Agent] = running[Chat!Agent] /\ stage'[Chat!Agent] = stage[Chat!Agent]
        /\ cancelled'[Chat!Agent] = cancelled[Chat!Agent]
        /\ UNCHANGED <<commands, events, submitted, asked, answer, asks>>
    BY <1>1, <1>11, RetireKeeps
  <2>2. commandJob # 0 /\ Due(Chat!Command, commandJob) => Due(Chat!Command, commandJob)'
    BY <1>3, <2>1 DEF Due, Chat!viewVars
  <2>3. commandJob # 0 /\ Completing(Chat!Command, commandJob)' =>
          Completing(Chat!Command, commandJob)
    BY <1>3, <2>1 DEF Completing, Chat!viewVars
  <2>4. QED
    BY <1>3, <2>1, <2>2, <2>3, CommandMoves
<1>12. QED
  BY <1>6, <1>7, <1>8, <1>9, <1>10, <1>11

LEMMA WorkersMove == ASSUME ChatInv, Chat!WorkersNext PROVE ChatInv'
BY AgentSteps, CommandSteps DEF Chat!WorkersNext, Chat!Workers

-----------------------------------------------------------------------------
(* The events of the conversation.                                           *)

\* The first event of the job that is shown, and what its stage says of it.
LEMMA CurrentEvent ==
  ASSUME ChatInv, events[Chat!Agent] # <<>>, Head(events[Chat!Agent]).job = activeJob
  PROVE  /\ activeJob \in Nat \ {0} /\ ~ Queued(activeJob)
         /\ Head(events[Chat!Agent]).kind \in Kinds
         /\ Has(events[Chat!Agent], activeJob, Head(events[Chat!Agent]).kind)
         /\ running[Chat!Agent] = activeJob =>
              /\ stage[Chat!Agent] \in Stages /\ Rank[Head(events[Chat!Agent]).kind] \in 1..4
              /\ Rank[Head(events[Chat!Agent]).kind] <= Reached[stage[Chat!Agent]]
              /\ Reached[stage[Chat!Agent]] # 0
         /\ Head(events[Chat!Agent]).kind # "approval_required" =>
              ~ (stage[Chat!Agent] = "asking")
         /\ stage[Chat!Agent] = "asking" => running[Chat!Agent] = activeJob
         /\ ~ quitting => /\ Shown /\ ShownActive(activeJob)
                          /\ ~ (commandJob # 0 /\ startedIdle)
<1>1. /\ WorkTyped /\ Running(Chat!Agent) /\ Waits(Chat!Agent) /\ Chat!Agent \in Chat!Workers
  BY DEF ChatInv, WorkersInv, Chat!Workers
<1>2. events[Chat!Agent] \in Seq(Events)
  BY <1>1 DEF WorkTyped
<1>3. /\ Head(events[Chat!Agent]) \in Events
      /\ Has(events[Chat!Agent], Head(events[Chat!Agent]).job, Head(events[Chat!Agent]).kind)
  BY <1>2, ConsumedBefore
<1>4. Head(events[Chat!Agent]).kind \in Kinds /\ activeJob \in Nat \ {0}
  BY <1>3 DEF Events
<1>5. Has(events[Chat!Agent], activeJob, Head(events[Chat!Agent]).kind)
  BY <1>3
<1>6. ~ Queued(activeJob)
  BY <1>1, <1>4, <1>5 DEF Waits, Queued, Chat!Reset
<1>7. running[Chat!Agent] = activeJob =>
        /\ stage[Chat!Agent] \in Stages /\ Rank[Head(events[Chat!Agent]).kind] \in 1..4
        /\ Rank[Head(events[Chat!Agent]).kind] <= Reached[stage[Chat!Agent]]
        /\ Reached[stage[Chat!Agent]] # 0
  <2> SUFFICES ASSUME running[Chat!Agent] = activeJob
               PROVE  /\ stage[Chat!Agent] \in Stages
                      /\ Rank[Head(events[Chat!Agent]).kind] \in 1..4
                      /\ Rank[Head(events[Chat!Agent]).kind] <= Reached[stage[Chat!Agent]]
                      /\ Reached[stage[Chat!Agent]] # 0
    OBVIOUS
  <2>1. stage[Chat!Agent] \in Stages
    BY <1>1 DEF WorkTyped
  <2>2. Rank[Head(events[Chat!Agent]).kind] \in 1..4 /\ Reached[stage[Chat!Agent]] \in 0..4
    BY <1>4, <2>1, Ranks, Stagings
  <2>3. Rank[Head(events[Chat!Agent]).kind] <= Reached[stage[Chat!Agent]]
    BY <1>1, <1>4, <1>5 DEF Running
  <2>4. QED
    BY <2>1, <2>2, <2>3
<1>8. stage[Chat!Agent] = "asking" => running[Chat!Agent] = activeJob
  BY AtWorkShown
<1>9. stage[Chat!Agent] = "asking" => Head(events[Chat!Agent]).kind = "approval_required"
  <2> SUFFICES ASSUME stage[Chat!Agent] = "asking"
               PROVE  Head(events[Chat!Agent]).kind = "approval_required"
    OBVIOUS
  <2>1. Rank[Head(events[Chat!Agent]).kind] = 1
    BY <1>7, <1>8, Stagings
  <2>2. QED
    BY <1>4, <2>1, Ranks DEF Kinds, Chat!Ends
<1>10. ~ quitting => Shown /\ ShownActive(activeJob) /\ ~ (commandJob # 0 /\ startedIdle)
  BY <1>4 DEF ChatInv, ChatShown, ShownCommand, Chat!NoJob
<1>11. QED
  BY <1>4, <1>5, <1>6, <1>7, <1>8, <1>9, <1>10

\* An event that is not an end leaves the chat waiting.
LEMMA AwaitsRest ==
  ASSUME ChatInv, UNCHANGED <<commands, running, stage, activeJob, commandJob>>,
         NEW w \in Chat!Workers,
         \A v \in Chat!Workers \ {w} : events'[v] = events[v],
         \A n \in Nat \ {0} : \A k \in Chat!Ends : Has(events[w], n, k) =>
           Has(events'[w], n, k) \/ (w = Chat!Agent /\ n # activeJob)
           \/ (w = Chat!Command /\ n # commandJob)
  PROVE  Awaits'
<1>1. \A n \in Nat \ {0} : Queued(n)' \/ AtWork(n)' => activeJob' = n
  BY DEF ChatInv, Awaits, Queued, AtWork
<1>2. activeJob \in Nat /\ commandJob \in Nat
  BY DEF ChatInv, ViewTyped
<1>3. Chat!Agent \in Chat!Workers /\ Chat!Command \in Chat!Workers /\ Chat!Agent # Chat!Command
  BY DEF Chat!Workers, Chat!Agent, Chat!Command
<1>4. activeJob # 0 => Due(Chat!Agent, activeJob)'
  <2>1. activeJob # 0 => Due(Chat!Agent, activeJob)
    BY DEF ChatInv, Awaits, Chat!NoJob
  <2>2. CASE w = Chat!Agent
    BY <1>2, <1>3, <2>1, <2>2 DEF Due
  <2>3. CASE w # Chat!Agent
    <3>1. events'[Chat!Agent] = events[Chat!Agent]
      BY <1>3, <2>3
    <3>2. QED
      BY <2>1, <3>1 DEF Due
  <2>4. QED
    BY <2>2, <2>3
<1>5. commandJob # 0 => Due(Chat!Command, commandJob)'
  <2>1. commandJob # 0 => Due(Chat!Command, commandJob)
    BY DEF ChatInv, Awaits, Chat!NoJob
  <2>2. CASE w = Chat!Command
    BY <1>2, <1>3, <2>1, <2>2 DEF Due
  <2>3. CASE w # Chat!Command
    <3>1. events'[Chat!Command] = events[Chat!Command]
      BY <1>3, <2>3
    <3>2. QED
      BY <2>1, <3>1 DEF Due
  <2>4. QED
    BY <2>2, <2>3
<1>6. QED
  BY <1>1, <1>4, <1>5 DEF Awaits, Chat!NoJob

LEMMA IgnoreKeeps == ASSUME ChatInv, Chat!IgnoreEvent PROVE ChatInv'
<1> DEFINE e == Head(events[Chat!Agent])
<1>1. /\ events[Chat!Agent] # <<>> /\ Chat!Consume(Chat!Agent) /\ ~ Chat!AcceptsEvent(e)
      /\ UNCHANGED <<quitting, commands, running, stage, cancelled, submitted, asked, asks,
                     Chat!viewVars, answer>>
  BY DEF Chat!IgnoreEvent, Chat!Handling
<1>2. WorkersInv /\ WorkTyped /\ Chat!Agent \in Chat!Workers /\ Chat!Command \in Chat!Workers
      /\ Chat!Agent # Chat!Command
  BY DEF ChatInv, WorkersInv, Chat!Workers, Chat!Agent, Chat!Command
<1>3. answer' \in {"none", "yes", "no"}
  BY <1>1, <1>2 DEF WorkTyped
<1>4. /\ WorkersInv' /\ events[Chat!Agent] \in Seq(Events)
      /\ events'[Chat!Agent] = Tail(events[Chat!Agent])
      /\ events'[Chat!Command] = events[Chat!Command]
      /\ \A n, k : Has(events[Chat!Agent], n, k)
              <=> Has(events'[Chat!Agent], n, k) \/ (n = e.job /\ k = e.kind)
  BY <1>1, <1>2, <1>3, ConsumeKeeps
<1>5. e.job # activeJob \/ (phase = "stopping" /\ e.kind \notin Chat!Ends)
  BY <1>1 DEF Chat!AcceptsEvent, Chat!Current
<1> HIDE DEF e
<1>6. ViewTyped'
  BY <1>1 DEF ChatInv, ViewTyped, Chat!viewVars
<1>7. Awaits'
  <2>1. \A v \in Chat!Workers \ {Chat!Agent} : events'[v] = events[v]
    BY <1>4 DEF Chat!Workers
  <2>2. \A n \in Nat \ {0} : \A k \in Chat!Ends : Has(events[Chat!Agent], n, k) =>
          Has(events'[Chat!Agent], n, k) \/ n # activeJob
    BY <1>4, <1>5
  <2>3. QED
    BY <1>1, <1>2, <2>1, <2>2, AwaitsRest DEF Chat!viewVars
<1>8. ASSUME ~ quitting PROVE Shown'
  BY <1>1, <1>8 DEF ChatInv, ChatShown, Shown, Chat!Accepted, Chat!viewVars
<1>9. ASSUME ~ quitting, activeJob # 0 PROVE ShownActive(activeJob)'
  <2>1. ShownActive(activeJob)
    BY <1>9 DEF ChatInv, ChatShown, Chat!NoJob
  <2>2. \A k : Has(events'[Chat!Agent], activeJob, k) => Has(events[Chat!Agent], activeJob, k)
    BY <1>4
  <2>3. Has(events[Chat!Agent], activeJob, "done") =>
          Has(events'[Chat!Agent], activeJob, "done") \/ phase = "stopping"
    BY <1>4, <1>5
  <2>4. Fresh(activeJob)' => Fresh(activeJob)
    BY <1>1 DEF Fresh, Queued, Chat!viewVars
  <2>5. Completing(Chat!Agent, activeJob)' => Completing(Chat!Agent, activeJob)
    BY <1>1, <2>2 DEF Completing, Chat!viewVars
  <2>6. QED
    BY <1>1, <2>1, <2>2, <2>3, <2>4, <2>5 DEF ShownActive, Queued, Chat!viewVars
<1>10. ASSUME ~ quitting, commandJob # 0, startedIdle PROVE ShownCommand(commandJob)'
  BY <1>1, <1>4, <1>10 DEF ChatInv, ChatShown, ShownCommand, Completing, Chat!NoJob, Chat!viewVars
<1>11. ASSUME ~ quitting, stage[Chat!Agent] = "asking",
              running[Chat!Agent] \notin cancelled[Chat!Agent]
       PROVE  ShownApproval(running[Chat!Agent])'
  <2>1. ShownApproval(running[Chat!Agent]) /\ Shown
    BY <1>11 DEF ChatInv, ChatShown
  <2>2. activeJob = running[Chat!Agent] /\ activeJob \in Chat!Accepted(Chat!Agent)
    BY <1>11, AtWorkShown
  <2>3. phase # "stopping"
    BY <1>11, <2>1, <2>2 DEF Shown
  <2>4. Has(events[Chat!Agent], running[Chat!Agent], "approval_required") =>
          Has(events'[Chat!Agent], running[Chat!Agent], "approval_required")
    BY <1>4, <1>5, <2>2, <2>3
  <2>5. Named(events'[Chat!Agent], running[Chat!Agent], asked)
    <3>1. Named(events[Chat!Agent], running[Chat!Agent], asked)
      BY <2>1 DEF ShownApproval
    <3>2. QED
      BY <1>1, <1>4, <3>1, ConsumedBefore
  <2>6. QED
    BY <1>1, <2>1, <2>4, <2>5 DEF ShownApproval, Chat!viewVars
<1>12. QED
  BY <1>1, <1>4, <1>6, <1>7, <1>8, <1>9, <1>10, <1>11
  DEF ChatInv, ChatShown, Chat!NoJob, Chat!viewVars

LEMMA ProgressKeeps == ASSUME ChatInv, Chat!ShowProgress PROVE ChatInv'
<1> DEFINE e == Head(events[Chat!Agent])
<1> DEFINE n == activeJob
<1>1. /\ events[Chat!Agent] # <<>> /\ Chat!Consume(Chat!Agent) /\ Chat!AcceptsEvent(e)
      /\ UNCHANGED <<quitting, commands, running, stage, cancelled, submitted, asked, asks,
                     answer, activeJob, commandJob, startedIdle>>
      /\ \/ e.kind = "session_restored" /\ phase' = "idle" /\ UNCHANGED approval
         \/ /\ e.kind = "result" /\ approval' = 0
            /\ phase' = IF phase \in {"stopping", "error", "done"} THEN phase ELSE "running"
         \/ e.kind = "done" /\ phase' = "done" /\ approval' = 0
  BY DEF Chat!ShowProgress, Chat!Handling
<1>2. WorkersInv /\ WorkTyped /\ Chat!Agent \in Chat!Workers /\ Chat!Command \in Chat!Workers
      /\ Chat!Agent # Chat!Command
  BY DEF ChatInv, WorkersInv, Chat!Workers, Chat!Agent, Chat!Command
<1>3. answer' \in {"none", "yes", "no"}
  BY <1>1, <1>2 DEF WorkTyped
<1>4. /\ WorkersInv' /\ events'[Chat!Command] = events[Chat!Command]
      /\ \A m, k : Has(events[Chat!Agent], m, k) <=>
           Has(events'[Chat!Agent], m, k) \/ (m = e.job /\ k = e.kind)
      /\ \A k \in Kinds : Has(events'[Chat!Agent], e.job, k) => Rank[e.kind] < Rank[k]
  BY <1>1, <1>2, <1>3, ConsumeKeeps
<1>5. e.job = n /\ e.kind \notin Chat!Ends /\ phase # "stopping" /\ e.kind # "approval_required"
  <2>1. e.kind \in {"session_restored", "result", "done"}
    BY <1>1
  <2>2. QED
    BY <1>1, <2>1 DEF Chat!AcceptsEvent, Chat!Current, Chat!Ends
<1>6. /\ n \in Nat \ {0} /\ ~ Queued(n) /\ e.kind \in Kinds /\ Has(events[Chat!Agent], n, e.kind)
      /\ running[Chat!Agent] = n =>
           /\ stage[Chat!Agent] \in Stages /\ Rank[e.kind] \in 1..4
           /\ Rank[e.kind] <= Reached[stage[Chat!Agent]]
           /\ Reached[stage[Chat!Agent]] # 0
      /\ stage[Chat!Agent] # "asking"
      /\ ~ quitting => Shown /\ ShownActive(n) /\ ~ (commandJob # 0 /\ startedIdle)
  BY <1>1, <1>5, CurrentEvent
<1>7. n' = n
  BY <1>1
<1> HIDE DEF e, n
<1>8. ViewTyped'
  BY <1>1 DEF ChatInv, ViewTyped
<1>9. Awaits'
  <2>1. \A v \in Chat!Workers \ {Chat!Agent} : events'[v] = events[v]
    BY <1>4 DEF Chat!Workers
  <2>2. \A m \in Nat \ {0} : \A k \in Chat!Ends : Has(events[Chat!Agent], m, k) =>
          Has(events'[Chat!Agent], m, k) \/ m # activeJob
    BY <1>4, <1>5
  <2>3. QED
    BY <1>1, <1>2, <2>1, <2>2, AwaitsRest
<1>10. ~ quitting => Shown'
  <2> SUFFICES ASSUME ~ quitting PROVE Shown'
    OBVIOUS
  <2>1. Shown /\ ShownActive(n) /\ n # 0 /\ n = activeJob
    BY <1>6 DEF n
  <2>2. e.kind = "session_restored" => approval = 0
    BY <1>6, <2>1 DEF ShownActive
  <2>3. phase' \in {"idle", "running", "done", "error"} /\ approval' = 0
    BY <1>1, <1>5, <2>2 DEF ChatInv, ViewTyped
  <2>4. QED
    BY <1>1, <2>1, <2>3 DEF Shown, Chat!Accepted, Chat!NoJob
<1>11. ASSUME ~ quitting PROVE ShownActive(n)'
  <2>1. ShownActive(n)
    BY <1>6, <1>11
  <2>2. ~ Fresh(n)'
    <3>1. running[Chat!Agent] = n => stage[Chat!Agent] # "working"
      BY <1>6, Stagings
    <3>2. QED
      BY <1>1, <1>6, <1>7, <3>1 DEF Fresh, Queued
  <2>3. ~ Has(events'[Chat!Agent], n, "approval_required")
    <3>1. e.kind = "session_restored" => ~ Has(events[Chat!Agent], n, "approval_required")
      BY <1>6, <2>1 DEF ShownActive
    <3>2. e.kind \in {"result", "done"} => ~ Has(events'[Chat!Agent], n, "approval_required")
      BY <1>4, <1>5, Ranks
    <3>3. QED
      BY <1>1, <1>4, <3>1, <3>2
  <2>4. ~ Has(events'[Chat!Agent], n, "session_restored")
    BY <1>1, <1>4, <1>5, Ranks
  <2>5. phase' = "done" => e.kind = "done"
    BY <1>1, <1>5, <1>6, <2>1 DEF ShownActive
  <2>6. e.kind = "done" =>
          /\ \A k \in Kinds \ Chat!Ends : ~ Has(events'[Chat!Agent], n, k)
          /\ running[Chat!Agent] = n => stage[Chat!Agent] \in {"finishing", "ended"}
    <3> SUFFICES ASSUME e.kind = "done"
                 PROVE  /\ \A k \in Kinds \ Chat!Ends : ~ Has(events'[Chat!Agent], n, k)
                        /\ running[Chat!Agent] = n => stage[Chat!Agent] \in {"finishing", "ended"}
      OBVIOUS
    <3>1. \A k \in Kinds : Has(events'[Chat!Agent], n, k) => k \in Chat!Ends
      BY <1>4, <1>5, Ranks
    <3>2. running[Chat!Agent] = n => stage[Chat!Agent] \in {"finishing", "ended"}
      BY <1>6, Ranks, Stagings DEF Stages
    <3>3. QED
      BY <3>1, <3>2
  <2>7. Completing(Chat!Agent, n)' =>
          Has(events'[Chat!Agent], n, "done") \/ phase' \in {"done", "stopping"}
    <3> SUFFICES ASSUME Completing(Chat!Agent, n)', e.kind # "done"
                 PROVE  Has(events'[Chat!Agent], n, "done")
      BY <1>1
    <3>1. Completing(Chat!Agent, n)
      BY <1>1, <1>4, <1>7 DEF Completing
    <3>2. phase \notin {"done", "stopping"}
      BY <1>5, <1>6, <2>1 DEF ShownActive
    <3>3. Has(events[Chat!Agent], n, "done")
      BY <2>1, <3>1, <3>2 DEF ShownActive
    <3>4. QED
      BY <1>4, <3>3
  <2>8. QED
    BY <1>1, <1>6, <1>7, <2>2, <2>3, <2>4, <2>5, <2>6, <2>7 DEF ShownActive, Queued
<1>12. QED
  <2>1. ShownActive(n)' <=> ShownActive(activeJob)'
    BY DEF n
  <2>2. stage'[Chat!Agent] # "asking" /\ (~ quitting => ~ (commandJob' # 0 /\ startedIdle'))
    BY <1>1, <1>6
  <2>3. ChatShown'
    BY <1>1, <1>10, <1>11, <2>1, <2>2 DEF ChatShown, Chat!NoJob
  <2>4. QED
    BY <1>4, <1>8, <1>9, <2>3 DEF ChatInv

LEMMA ApprovalKeeps == ASSUME ChatInv, Chat!ShowApproval PROVE ChatInv' /\ left' # "raised"
<1> DEFINE e == Head(events[Chat!Agent])
<1> DEFINE n == activeJob
<1>1. /\ events[Chat!Agent] # <<>> /\ Chat!Consume(Chat!Agent) /\ Chat!AcceptsEvent(e)
      /\ e.kind = "approval_required"
      /\ left = "no"
      /\ UNCHANGED <<quitting, commands, running, stage, cancelled, submitted, asked, asks,
                     activeJob, commandJob, startedIdle>>
      /\ \/ /\ quitting /\ UNCHANGED <<left, phase, approval>>
            /\ answer' = IF Chat!Answers(e.id) THEN "no" ELSE answer
         \/ /\ ~ quitting /\ phase \in {"running", "approval"}
            /\ phase' = "approval" /\ approval' = e.id /\ UNCHANGED <<left, answer>>
         \/ /\ ~ quitting /\ phase \notin {"running", "approval"}
            /\ left' = "raised" /\ UNCHANGED <<phase, approval, answer>>
  BY DEF Chat!ShowApproval, Chat!Handling
<1>2. WorkersInv /\ WorkTyped /\ Chat!Agent \in Chat!Workers /\ Chat!Command \in Chat!Workers
      /\ Chat!Agent # Chat!Command
  BY DEF ChatInv, WorkersInv, Chat!Workers, Chat!Agent, Chat!Command
<1>3. answer' \in {"none", "yes", "no"}
  BY <1>1, <1>2 DEF WorkTyped
<1>4. /\ WorkersInv' /\ events'[Chat!Command] = events[Chat!Command]
      /\ events[Chat!Agent] \in Seq(Events) /\ events'[Chat!Agent] = Tail(events[Chat!Agent])
      /\ e.id \in Nat /\ e.id # 0
      /\ \A m, k : Has(events[Chat!Agent], m, k) <=>
           Has(events'[Chat!Agent], m, k) \/ (m = e.job /\ k = e.kind)
      /\ \A k \in Kinds : Has(events'[Chat!Agent], e.job, k) => Rank[e.kind] < Rank[k]
  BY <1>1, <1>2, <1>3, ConsumeKeeps
<1>5. e.job = n /\ phase # "stopping" /\ e.kind \notin Chat!Ends
  BY <1>1 DEF Chat!AcceptsEvent, Chat!Current, Chat!Ends
<1>6. /\ n \in Nat \ {0} /\ ~ Queued(n) /\ Has(events[Chat!Agent], n, e.kind)
      /\ running[Chat!Agent] = n => Reached[stage[Chat!Agent]] # 0
      /\ stage[Chat!Agent] = "asking" => running[Chat!Agent] = n
      /\ ~ quitting => Shown /\ ShownActive(n) /\ ~ (commandJob # 0 /\ startedIdle)
  BY <1>1, <1>5, CurrentEvent
<1>7. n' = n
  BY <1>1
<1>8. stage[Chat!Agent] = "asking" /\ ShownApproval(running[Chat!Agent]) =>
        e.id = asked /\ Named(events'[Chat!Agent], n, asked)
  <2> SUFFICES ASSUME stage[Chat!Agent] = "asking", ShownApproval(running[Chat!Agent])
               PROVE  e.id = asked /\ Named(events'[Chat!Agent], n, asked)
    OBVIOUS
  <2>1. Named(events[Chat!Agent], n, asked)
    BY <1>6 DEF ShownApproval
  <2>2. QED
    BY <1>1, <1>4, <1>5, <2>1, ConsumedBefore
<1> HIDE DEF e, n
<1>9. ~ quitting => phase \in {"running", "approval"}
  BY <1>1, <1>5, <1>6 DEF ShownActive, Chat!Busy
<1>10. ViewTyped'
  BY <1>1, <1>4 DEF ChatInv, ViewTyped
<1>11. Awaits'
  <2>1. \A v \in Chat!Workers \ {Chat!Agent} : events'[v] = events[v]
    BY <1>4 DEF Chat!Workers
  <2>2. \A m \in Nat \ {0} : \A k \in Chat!Ends : Has(events[Chat!Agent], m, k) =>
          Has(events'[Chat!Agent], m, k) \/ m # activeJob
    BY <1>4, <1>5
  <2>3. QED
    BY <1>1, <1>2, <2>1, <2>2, AwaitsRest
<1>12. ASSUME ~ quitting
       PROVE  phase' = "approval" /\ approval' = e.id /\ UNCHANGED <<left, answer>>
  BY <1>1, <1>9, <1>12
<1>13. ~ quitting => Shown'
  <2> SUFFICES ASSUME ~ quitting PROVE Shown'
    OBVIOUS
  <2>1. activeJob' # 0
    BY <1>1, <1>6 DEF n
  <2>2. QED
    BY <1>4, <1>12, <2>1 DEF Shown, Chat!NoJob
<1>14. ASSUME ~ quitting PROVE ShownActive(n)'
  <2>1. ShownActive(n)
    BY <1>6, <1>14
  <2>2. ~ Fresh(n)'
    <3>1. running[Chat!Agent] = n => stage[Chat!Agent] # "working"
      BY <1>6, Stagings
    <3>2. QED
      BY <1>1, <1>6, <1>7, <3>1 DEF Fresh, Queued
  <2>3. ~ Has(events'[Chat!Agent], n, "session_restored")
    BY <1>1, <1>4, <1>6, <2>1 DEF ShownActive
  <2>4. Completing(Chat!Agent, n)' => Has(events'[Chat!Agent], n, "done")
    <3>1. Completing(Chat!Agent, n)' => Completing(Chat!Agent, n)
      BY <1>1, <1>4, <1>7 DEF Completing
    <3>2. Completing(Chat!Agent, n) => Has(events[Chat!Agent], n, "done")
      BY <1>9, <1>14, <2>1 DEF ShownActive
    <3>3. QED
      BY <1>1, <1>4, <3>1, <3>2
  <2>5. QED
    BY <1>7, <1>12, <1>14, <2>2, <2>3, <2>4 DEF ShownActive, Chat!Busy
<1>15. ASSUME ~ quitting, stage[Chat!Agent] = "asking",
              running[Chat!Agent] \notin cancelled[Chat!Agent]
       PROVE  ShownApproval(running[Chat!Agent])'
  <2>1. ShownApproval(running[Chat!Agent])
    BY <1>15 DEF ChatInv, ChatShown
  <2>2. e.id = asked /\ Named(events'[Chat!Agent], running[Chat!Agent], asked)
    BY <1>6, <1>15, <1>8, <2>1
  <2>3. QED
    BY <1>1, <1>12, <1>15, <2>2 DEF ShownApproval
<1>16. ChatShown'
  <2>1. ShownActive(n)' <=> ShownActive(activeJob)'
    BY DEF n
  <2>2. ~ quitting => ~ (commandJob' # 0 /\ startedIdle')
    BY <1>1, <1>6
  <2>3. QED
    BY <1>1, <1>13, <1>14, <1>15, <2>1, <2>2 DEF ChatShown, Chat!NoJob
<1>17. left' # "raised"
  BY <1>1, <1>9
<1>18. QED
  BY <1>4, <1>10, <1>11, <1>16, <1>17 DEF ChatInv

LEMMA FinishKeeps == ASSUME ChatInv, Chat!FinishJob PROVE ChatInv'
<1> DEFINE e == Head(events[Chat!Agent])
<1> DEFINE n == activeJob
<1>1. /\ events[Chat!Agent] # <<>> /\ Chat!Consume(Chat!Agent) /\ Chat!AcceptsEvent(e)
      /\ e.kind \in Chat!Ends
      /\ UNCHANGED <<quitting, commands, running, stage, cancelled, submitted, asked, asks,
                     answer, commandJob, startedIdle>>
      /\ activeJob' = Chat!NoJob
      /\ \/ e.kind = "cancelled" /\ phase' = "idle" /\ approval' = 0
         \/ /\ e.kind = "completed" /\ UNCHANGED approval
            /\ phase' = IF phase = "stopping" /\ ~ quitting THEN "idle" ELSE phase
         \/ e.kind = "error" /\ phase' = "error" /\ approval' = 0
  BY DEF Chat!FinishJob, Chat!Handling
<1>2. WorkersInv /\ WorkTyped /\ Chat!Agent \in Chat!Workers /\ Chat!Command \in Chat!Workers
      /\ Chat!Agent # Chat!Command
  BY DEF ChatInv, WorkersInv, Chat!Workers, Chat!Agent, Chat!Command
<1>3. answer' \in {"none", "yes", "no"}
  BY <1>1, <1>2 DEF WorkTyped
<1>4. /\ WorkersInv' /\ events'[Chat!Command] = events[Chat!Command]
      /\ \A m, k : Has(events[Chat!Agent], m, k) <=>
           Has(events'[Chat!Agent], m, k) \/ (m = e.job /\ k = e.kind)
      /\ \A k \in Kinds : Has(events'[Chat!Agent], e.job, k) => Rank[e.kind] < Rank[k]
  BY <1>1, <1>2, <1>3, ConsumeKeeps
<1>5. e.job = n /\ e.kind # "approval_required"
  BY <1>1 DEF Chat!AcceptsEvent, Chat!Current, Chat!Ends
<1>6. /\ n \in Nat \ {0} /\ ~ Queued(n) /\ e.kind \in Kinds /\ Has(events[Chat!Agent], n, e.kind)
      /\ running[Chat!Agent] = n =>
           /\ stage[Chat!Agent] \in Stages /\ Rank[e.kind] \in 1..4
           /\ Rank[e.kind] <= Reached[stage[Chat!Agent]]
      /\ stage[Chat!Agent] # "asking"
      /\ ~ quitting => Shown /\ ShownActive(n) /\ ~ (commandJob # 0 /\ startedIdle)
  BY <1>1, <1>5, CurrentEvent
<1> HIDE DEF e, n
<1>7. ViewTyped'
  BY <1>1 DEF ChatInv, ViewTyped, Chat!NoJob
<1>8. running[Chat!Agent] = n => stage[Chat!Agent] = "ended"
  <2>1. Rank[e.kind] = 4
    BY <1>1, Ranks
  <2>2. QED
    BY <1>6, <2>1, Stagings DEF Stages
<1>9. Awaits'
  <2>1. \A m \in Nat \ {0} : ~ (Queued(m) \/ AtWork(m))
    BY <1>6, <1>8 DEF ChatInv, Awaits, AtWork, n
  <2>2. \A m \in Nat \ {0} : ~ (Queued(m)' \/ AtWork(m)')
    BY <1>1, <2>1 DEF Queued, AtWork
  <2>3. commandJob' # 0 => Due(Chat!Command, commandJob)'
    BY <1>1, <1>4 DEF ChatInv, Awaits, Due, Chat!NoJob
  <2>4. QED
    BY <1>1, <2>2, <2>3 DEF Awaits, Chat!NoJob
<1>10. ASSUME ~ quitting PROVE Shown'
  <2>1. e.kind = "completed" => phase \in {"done", "stopping"} /\ approval = 0
    <3> SUFFICES ASSUME e.kind = "completed" PROVE phase \in {"done", "stopping"} /\ approval = 0
      OBVIOUS
    <3>1. ~ Has(events[Chat!Agent], n, "done")
      BY <1>4, <1>5, Ranks
    <3>2. Completing(Chat!Agent, n)
      BY <1>6 DEF Completing
    <3>3. phase \in {"done", "stopping"}
      BY <1>6, <1>10, <3>1, <3>2 DEF ShownActive
    <3>4. QED
      BY <1>6, <1>10, <3>3 DEF Shown
  <2>2. phase' \in {"idle", "done", "error"} /\ approval' = 0
    BY <1>1, <1>10, <2>1
  <2>3. QED
    BY <2>2 DEF Shown, Chat!Busy
<1>11. ChatShown'
  <2>1. stage'[Chat!Agent] # "asking" /\ (~ quitting => ~ (commandJob' # 0 /\ startedIdle'))
    BY <1>1, <1>6
  <2>2. QED
    BY <1>1, <1>10, <2>1 DEF ChatShown, Chat!NoJob
<1>12. QED
  BY <1>4, <1>7, <1>9, <1>11 DEF ChatInv

LEMMA CommandKeeps == ASSUME ChatInv, Chat!HandleCommandEvent PROVE ChatInv'
<1> DEFINE e == Head(events[Chat!Command])
<1> DEFINE seen == e.kind # "completed" /\ startedIdle /\ activeJob = Chat!NoJob
<1>1. /\ events[Chat!Command] # <<>> /\ Chat!Consume(Chat!Command)
      /\ UNCHANGED <<quitting, commands, running, stage, cancelled, submitted, asked, asks,
                     answer>>
  BY DEF Chat!HandleCommandEvent, Chat!Handling
<1>2. \/ e.job # commandJob /\ UNCHANGED Chat!viewVars
      \/ /\ e.job = commandJob /\ UNCHANGED activeJob
         /\ phase' = IF seen THEN Chat!Outcome(e.kind) ELSE phase
         /\ approval' = IF seen THEN 0 ELSE approval
         /\ IF e.kind \in Chat!Ends THEN commandJob' = Chat!NoJob /\ startedIdle' = FALSE
            ELSE UNCHANGED <<commandJob, startedIdle>>
  BY DEF Chat!HandleCommandEvent, Chat!Current
<1>3. WorkersInv /\ WorkTyped /\ Chat!Agent \in Chat!Workers /\ Chat!Command \in Chat!Workers
      /\ Chat!Agent # Chat!Command
  BY DEF ChatInv, WorkersInv, Chat!Workers, Chat!Agent, Chat!Command
<1>4. answer' \in {"none", "yes", "no"}
  BY <1>1, <1>3 DEF WorkTyped
<1>5. /\ WorkersInv' /\ events'[Chat!Agent] = events[Chat!Agent]
      /\ e.kind \in {"done"} \cup Chat!Ends
      /\ e.job \in Nat \ {0}
      /\ \A m, k : Has(events[Chat!Command], m, k) <=>
           Has(events'[Chat!Command], m, k) \/ (m = e.job /\ k = e.kind)
      /\ \A k \in Kinds : Has(events'[Chat!Command], e.job, k) => Rank[e.kind] < Rank[k]
  BY <1>1, <1>3, <1>4, ConsumeKeeps
<1> HIDE DEF e
<1>6. CASE e.job # commandJob
  <2>1. UNCHANGED Chat!viewVars
    BY <1>2, <1>6
  <2>2. \A k : Has(events[Chat!Command], commandJob, k) <=>
          Has(events'[Chat!Command], commandJob, k)
    BY <1>5, <1>6
  <2>3. Due(Chat!Command, commandJob) => Due(Chat!Command, commandJob)'
    BY <1>1, <2>1, <2>2 DEF Due, Chat!viewVars
  <2>4. Completing(Chat!Command, commandJob)' => Completing(Chat!Command, commandJob)
    BY <1>1, <2>1, <2>2 DEF Completing, Chat!viewVars
  <2>5. QED
    BY <1>1, <1>5, <2>1, <2>2, <2>3, <2>4, CommandMoves
<1>7. CASE e.job = commandJob
  <2>1. /\ UNCHANGED activeJob
        /\ phase' = IF seen THEN Chat!Outcome(e.kind) ELSE phase
        /\ approval' = IF seen THEN 0 ELSE approval
        /\ e.kind \in Chat!Ends => commandJob' = Chat!NoJob /\ startedIdle' = FALSE
        /\ e.kind \notin Chat!Ends => UNCHANGED <<commandJob, startedIdle>>
    BY <1>2, <1>7
  <2>2. /\ seen => phase' = Chat!Outcome(e.kind) /\ approval' = 0 /\ activeJob = 0 /\ startedIdle
                   /\ e.kind # "completed"
        /\ ~ seen => UNCHANGED <<phase, approval>>
        /\ ~ seen => e.kind = "completed" \/ ~ startedIdle \/ activeJob # 0
    BY <2>1 DEF Chat!NoJob
  <2> HIDE DEF seen
  <2>3. seen => phase' \in {"done", "error", "idle"} /\ (e.kind = "done" => phase' = "done")
    <3>1. Chat!Outcome("done") = "done" /\ Chat!Outcome("error") = "error"
          /\ Chat!Outcome("cancelled") = "idle"
      BY DEF Chat!Outcome
    <3>2. seen => e.kind \in {"done", "error", "cancelled"}
      BY <1>5, <2>2 DEF Chat!Ends
    <3>3. QED
      BY <2>2, <3>1, <3>2
  <2>4. ViewTyped'
    <3>1. ViewTyped
      BY DEF ChatInv
    <3>2. phase' \in {"idle", "running", "approval", "stopping", "done", "error"}
          /\ approval' \in Nat
      BY <2>2, <2>3, <3>1 DEF ViewTyped
    <3>3. startedIdle' \in BOOLEAN /\ commandJob' \in Nat
      <4>1. CASE e.kind \in Chat!Ends
        <5>1. commandJob' = Chat!NoJob /\ startedIdle' = FALSE
          BY <2>1, <4>1
        <5>2. QED
          BY <5>1 DEF Chat!NoJob
      <4>2. CASE e.kind \notin Chat!Ends
        BY <2>1, <3>1, <4>2 DEF ViewTyped
      <4>3. QED
        BY <4>1, <4>2
    <3>4. QED
      BY <1>1, <2>1, <3>1, <3>2, <3>3 DEF ViewTyped
  <2>5. Awaits'
    <3>1. \A n \in Nat \ {0} : Queued(n)' \/ AtWork(n)' => activeJob' = n
      BY <1>1, <2>1 DEF ChatInv, Awaits, Queued, AtWork
    <3>2. activeJob' # 0 => Due(Chat!Agent, activeJob)'
      BY <1>1, <1>5, <2>1 DEF ChatInv, Awaits, Due, Chat!NoJob
    <3>3. commandJob' # 0 => Due(Chat!Command, commandJob)'
      <4> SUFFICES ASSUME commandJob' # 0 PROVE Due(Chat!Command, commandJob)'
        OBVIOUS
      <4>1. e.kind \notin Chat!Ends /\ commandJob' = commandJob
        BY <2>1 DEF Chat!NoJob
      <4>2. Due(Chat!Command, commandJob)
        BY <1>5, <1>7 DEF ChatInv, Awaits, Chat!NoJob
      <4>3. QED
        BY <1>1, <1>5, <4>1, <4>2 DEF Due
    <3>4. QED
      BY <3>1, <3>2, <3>3 DEF Awaits, Chat!NoJob
  <2>6. ASSUME ~ quitting
        PROVE  startedIdle => /\ activeJob = 0 /\ commandJob # 0
                              /\ Completing(Chat!Command, commandJob) =>
                                   Has(events[Chat!Command], commandJob, "done") \/ phase = "done"
    BY <1>5, <1>7, <2>6 DEF ChatInv, ChatShown, ShownCommand, Chat!NoJob
  <2>7. ASSUME ~ quitting PROVE Shown'
    <3>1. Shown
      BY <2>7 DEF ChatInv, ChatShown
    <3>2. CASE seen
      BY <2>2, <2>3, <3>2 DEF Shown, Chat!Busy
    <3>3. CASE ~ seen
      <4>1. startedIdle => phase \notin Chat!Busy
        <5> SUFFICES ASSUME startedIdle PROVE phase \notin Chat!Busy
          OBVIOUS
        <5>1. e.kind = "completed"
          BY <2>2, <2>6, <2>7, <3>3
        <5>2. ~ Has(events[Chat!Command], commandJob, "done")
          BY <1>5, <1>7, <5>1, Ranks
        <5>3. Completing(Chat!Command, commandJob)
          BY <1>5, <1>7, <5>1 DEF Completing
        <5>4. QED
          BY <2>6, <2>7, <5>2, <5>3 DEF Chat!Busy
      <4>2. QED
        BY <1>1, <2>1, <2>2, <3>1, <3>3, <4>1 DEF Shown, Chat!Accepted
    <3>4. QED
      BY <3>2, <3>3
  <2>8. ASSUME ~ quitting, activeJob # 0 PROVE ShownActive(activeJob)'
    <3>1. ShownActive(activeJob) /\ ~ seen
      BY <2>2, <2>8 DEF ChatInv, ChatShown, Chat!NoJob
    <3>2. QED
      BY <1>1, <1>5, <2>1, <2>2, <3>1 DEF ShownActive, Fresh, Queued, Completing
  <2>9. ASSUME ~ quitting, commandJob' # 0, startedIdle' PROVE ShownCommand(commandJob)'
    <3>1. e.kind = "done" /\ UNCHANGED <<commandJob, startedIdle>>
      BY <1>5, <2>1, <2>9 DEF Chat!NoJob
    <3>2. seen
      BY <2>2, <2>6, <2>9, <3>1
    <3>3. QED
      BY <2>1, <2>2, <2>3, <3>1, <3>2 DEF ShownCommand, Chat!NoJob
  <2>10. ASSUME ~ quitting, stage[Chat!Agent] = "asking",
                running[Chat!Agent] \notin cancelled[Chat!Agent]
         PROVE  ShownApproval(running[Chat!Agent])'
    <3>1. ShownApproval(running[Chat!Agent]) /\ activeJob # 0
      BY <2>10, AtWorkShown DEF ChatInv, ChatShown
    <3>2. ~ seen
      BY <2>2, <3>1
    <3>3. QED
      BY <1>1, <1>5, <2>2, <3>1, <3>2 DEF ShownApproval
  <2>11. ChatShown'
    BY <1>1, <2>1, <2>7, <2>8, <2>9, <2>10 DEF ChatShown, Chat!NoJob
  <2>12. QED
    BY <1>5, <2>4, <2>5, <2>11 DEF ChatInv
<1>8. QED
  BY <1>6, <1>7

-----------------------------------------------------------------------------
(* The keys, and the messages that leave the queue.                          *)

\* A view that is left alone, with what a cancelled command or a text leaves alone.
LEMMA ChatRests == ASSUME ChatInv, UNCHANGED <<quitting, Chat!viewVars, Chat!workerVars>>
                   PROVE  ChatInv'
<1>1. ViewTyped' /\ Awaits'
  BY DEF ChatInv, ViewTyped, Awaits, Queued, AtWork, Due, Chat!viewVars, Chat!workerVars
<1>2. WorkersInv'
  <2>1. WorkersInv /\ WorkTyped
    BY DEF ChatInv, WorkersInv
  <2>2. /\ cancelled' \in [Chat!Workers -> SUBSET Nat] /\ asked' \in Nat
        /\ answer' \in {"none", "yes", "no"}
        /\ UNCHANGED <<commands, running, stage, submitted, events, asks>>
    BY <2>1 DEF WorkTyped, Chat!workerVars
  <2>3. QED
    BY <2>1, <2>2, WorkersRest
<1>3. ChatShown'
  <2>1. Shown' <=> Shown
    BY DEF Shown, Chat!Accepted, Chat!viewVars, Chat!workerVars
  <2>2. ShownActive(activeJob)' <=> ShownActive(activeJob)
    BY DEF ShownActive, Fresh, Queued, Completing, Chat!viewVars, Chat!workerVars
  <2>3. ShownCommand(commandJob)' <=> ShownCommand(commandJob)
    BY DEF ShownCommand, Completing, Chat!viewVars, Chat!workerVars
  <2>4. ShownApproval(running[Chat!Agent])' <=> ShownApproval(running[Chat!Agent])
    BY DEF ShownApproval, Chat!viewVars, Chat!workerVars
  <2>5. QED
    BY <2>1, <2>2, <2>3, <2>4 DEF ChatInv, ChatShown, Chat!viewVars, Chat!workerVars
<1>4. QED
  BY <1>1, <1>2, <1>3 DEF ChatInv

\* While no job is in hand the chat is not busy, and its worker has none either.
LEMMA Unbusied ==
  ASSUME ChatInv, activeJob = 0
  PROVE  /\ \A n \in Nat \ {0} : ~ Queued(n) /\ ~ AtWork(n)
         /\ stage[Chat!Agent] # "asking"
         /\ ~ quitting => /\ phase \in Chat!Busy => commandJob # 0 /\ startedIdle
                          /\ phase \notin Chat!Busy => approval = 0
<1>1. \A n \in Nat \ {0} : ~ Queued(n) /\ ~ AtWork(n)
  BY DEF ChatInv, Awaits
<1>2. stage[Chat!Agent] # "asking"
  BY AtWorkShown
<1>3. ~ quitting => /\ phase \in Chat!Busy => commandJob # 0 /\ startedIdle
                    /\ phase \notin Chat!Busy => approval = 0
  BY DEF ChatInv, ChatShown, Shown, Chat!Busy, Chat!NoJob
<1>4. QED
  BY <1>1, <1>2, <1>3

LEMMA BeginKeeps ==
  ASSUME ChatInv, Chat!Begin, Chat!Startable, activeJob = 0, commandJob = 0,
         UNCHANGED <<quitting, commandJob, startedIdle, approval>>
  PROVE  ChatInv' /\ UNCHANGED left
<1> DEFINE n == submitted'[Chat!Agent]
<1>1. phase' = "running" /\ Chat!Submit(Chat!Agent) /\ activeJob' = n /\ UNCHANGED left
      /\ ~ quitting /\ phase \notin Chat!Busy
  BY DEF Chat!Begin, Chat!Startable
<1>2. WorkersInv /\ WorkTyped /\ Chat!Agent \in Chat!Workers /\ Chat!Command \in Chat!Workers
      /\ Chat!Agent # Chat!Command
  BY DEF ChatInv, WorkersInv, Chat!Workers, Chat!Agent, Chat!Command
<1>3. /\ WorkersInv' /\ n \in Nat \ {0} /\ running[Chat!Agent] # n
      /\ n \notin Chat!Elements(commands[Chat!Agent])
      /\ \A k \in Kinds : ~ Has(events[Chat!Agent], n, k)
      /\ Chat!Elements(commands'[Chat!Agent]) = Chat!Elements(commands[Chat!Agent]) \cup {n}
      /\ commands'[Chat!Command] = commands[Chat!Command]
      /\ UNCHANGED <<running, stage, cancelled, events, asked, answer, asks>>
  BY <1>1, <1>2, SubmitKeeps
<1>4. /\ \A m \in Nat \ {0} : ~ Queued(m) /\ ~ AtWork(m)
      /\ stage[Chat!Agent] # "asking" /\ approval = 0
  BY <1>1, Unbusied
<1> HIDE DEF n
<1>5. ViewTyped'
  BY <1>1, <1>3 DEF ChatInv, ViewTyped
<1>6. Awaits'
  <2>1. \A m \in Nat \ {0} : Queued(m)' \/ AtWork(m)' => m = n
    BY <1>3, <1>4 DEF Queued, AtWork
  <2>2. Due(Chat!Agent, activeJob)'
    BY <1>1, <1>3 DEF Due
  <2>3. QED
    BY <1>1, <2>1, <2>2 DEF Awaits, Chat!NoJob
<1>7. Shown'
  BY <1>1, <1>3, <1>4 DEF Shown, Chat!NoJob
<1>8. ShownActive(activeJob)'
  <2>1. ~ Completing(Chat!Agent, activeJob)'
    BY <1>1, <1>3, Ranks DEF Completing
  <2>2. QED
    BY <1>1, <1>3, <2>1, Ranks DEF ShownActive
<1>9. ChatShown'
  BY <1>3, <1>4, <1>7, <1>8 DEF ChatShown, Chat!NoJob
<1>10. QED
  BY <1>1, <1>3, <1>5, <1>6, <1>9 DEF ChatInv

\* A command that is begun with nothing in hand is what the chat shows.
LEMMA CommandBegins ==
  ASSUME ChatInv, Chat!EnterCommand PROVE ChatInv' /\ left' # "raised"
<1>1. /\ ~ quitting /\ commandJob = 0 /\ left = "no"
      /\ UNCHANGED <<quitting, activeJob, approval>>
  BY DEF Chat!EnterCommand, Chat!Enter, Chat!KeyPress, Chat!NoJob
<1>2. WorkersInv /\ WorkTyped /\ Chat!Agent \in Chat!Workers /\ Chat!Command \in Chat!Workers
      /\ Chat!Agent # Chat!Command
  BY DEF ChatInv, WorkersInv, Chat!Workers, Chat!Agent, Chat!Command
<1>3. CASE UNCHANGED <<phase, commandJob, startedIdle, Chat!workerVars, left>>
  <2>1. UNCHANGED <<quitting, Chat!viewVars, Chat!workerVars>>
    BY <1>1, <1>3 DEF Chat!viewVars
  <2>2. QED
    BY <1>1, <1>3, <2>1, ChatRests
<1>4. CASE /\ startedIdle' = (activeJob = Chat!NoJob)
           /\ IF startedIdle' /\ phase \in Chat!Busy
              THEN left' = "raised" /\ UNCHANGED <<phase, commandJob, Chat!workerVars>>
              ELSE /\ phase' = IF startedIdle' THEN "running" ELSE phase
                   /\ Chat!Submit(Chat!Command) /\ commandJob' = submitted'[Chat!Command]
                   /\ UNCHANGED left
  <2> DEFINE n == submitted'[Chat!Command]
  <2>1. ~ (startedIdle' /\ phase \in Chat!Busy)
    BY <1>1, <1>4, Unbusied DEF Chat!NoJob
  <2>2. /\ startedIdle' = (activeJob = 0) /\ phase' = IF startedIdle' THEN "running" ELSE phase
        /\ Chat!Submit(Chat!Command) /\ commandJob' = n /\ UNCHANGED left
    BY <1>4, <2>1 DEF Chat!NoJob
  <2>3. /\ WorkersInv' /\ n \in Nat \ {0} /\ running[Chat!Command] # n
        /\ n \notin Chat!Elements(commands[Chat!Command])
        /\ \A k \in Kinds : ~ Has(events[Chat!Command], n, k)
        /\ Chat!Elements(commands'[Chat!Command]) = Chat!Elements(commands[Chat!Command]) \cup {n}
        /\ commands'[Chat!Agent] = commands[Chat!Agent]
        /\ UNCHANGED <<running, stage, cancelled, events, asked, answer, asks>>
    BY <1>2, <2>2, SubmitKeeps
  <2> HIDE DEF n
  <2>4. ViewTyped'
    BY <1>1, <2>2, <2>3 DEF ChatInv, ViewTyped
  <2>5. Awaits'
    <3>1. Due(Chat!Command, commandJob)'
      BY <2>2, <2>3 DEF Due
    <3>2. activeJob' # 0 => Due(Chat!Agent, activeJob)'
      BY <1>1, <2>3 DEF ChatInv, Awaits, Due, Chat!NoJob
    <3>3. \A m \in Nat \ {0} : Queued(m)' \/ AtWork(m)' => activeJob' = m
      BY <1>1, <2>3 DEF ChatInv, Awaits, Queued, AtWork
    <3>4. QED
      BY <3>1, <3>2, <3>3 DEF Awaits, Chat!NoJob
  <2>6. ~ Completing(Chat!Command, commandJob)'
    BY <2>2, <2>3, Ranks DEF Completing
  <2>7. CASE activeJob = 0
    <3>1. phase' = "running" /\ approval = 0 /\ stage[Chat!Agent] # "asking"
          /\ startedIdle' = TRUE
      BY <1>1, <2>1, <2>2, <2>7, Unbusied
    <3>2. Shown'
      BY <1>1, <2>2, <2>3, <3>1 DEF Shown, Chat!NoJob
    <3>3. ShownCommand(commandJob)'
      BY <1>1, <2>6, <2>7 DEF ShownCommand, Chat!NoJob
    <3>4. ChatShown'
      BY <1>1, <2>3, <2>7, <3>1, <3>2, <3>3 DEF ChatShown, Chat!NoJob
    <3>5. QED
      BY <1>1, <2>2, <2>3, <2>4, <2>5, <3>4 DEF ChatInv
  <2>8. CASE activeJob # 0
    <3>1. UNCHANGED phase /\ startedIdle' = FALSE
      BY <2>2, <2>8
    <3>2. Shown /\ ShownActive(activeJob)
      BY <1>1, <2>8 DEF ChatInv, ChatShown, Chat!NoJob
    <3>3. Shown'
      BY <1>1, <2>3, <2>8, <3>1, <3>2 DEF Shown, Chat!Accepted, Chat!NoJob
    <3>4. ShownActive(activeJob)'
      BY <1>1, <2>3, <3>1, <3>2 DEF ShownActive, Fresh, Queued, Completing
    <3>5. stage[Chat!Agent] = "asking" /\ running[Chat!Agent] \notin cancelled[Chat!Agent] =>
            ShownApproval(running[Chat!Agent])'
      BY <1>1, <2>3 DEF ChatInv, ChatShown, ShownApproval
    <3>6. ChatShown'
      BY <1>1, <2>3, <3>1, <3>3, <3>4, <3>5 DEF ChatShown
    <3>7. QED
      BY <1>1, <2>2, <2>3, <2>4, <2>5, <3>6 DEF ChatInv
  <2>9. QED
    BY <2>7, <2>8
<1>5. QED
  BY <1>3, <1>4 DEF Chat!EnterCommand

LEMMA ClearedShown == ASSUME ChatInv, Chat!EnterClear PROVE ChatInv'
<1>1. /\ phase' = "idle" /\ commands' = [commands EXCEPT ![Chat!Agent] = Append(@, Chat!Reset)]
      /\ activeJob = 0 /\ commandJob = 0 /\ ~ quitting /\ phase \notin Chat!Busy
      /\ UNCHANGED <<quitting, activeJob, commandJob, startedIdle, approval, running, stage,
                     cancelled, submitted, events, asked, answer, asks>>
  BY DEF Chat!EnterClear, Chat!Enter, Chat!KeyPress, Chat!InSession, Chat!BusyInput, Chat!Busy,
         Chat!NoJob
<1>2. WorkersInv
  BY DEF ChatInv
<1>3. /\ WorkersInv'
      /\ Chat!Elements(commands'[Chat!Agent]) =
           Chat!Elements(commands[Chat!Agent]) \cup {Chat!Reset}
      /\ commands'[Chat!Command] = commands[Chat!Command]
  BY <1>1, <1>2, ClearKeeps
<1>4. /\ \A n \in Nat \ {0} : ~ Queued(n) /\ ~ AtWork(n)
      /\ stage[Chat!Agent] # "asking" /\ approval = 0
  BY <1>1, Unbusied
<1>5. ViewTyped'
  BY <1>1 DEF ChatInv, ViewTyped
<1>6. Awaits'
  BY <1>1, <1>3, <1>4 DEF Awaits, Queued, AtWork, Chat!NoJob, Chat!Reset
<1>7. Shown'
  BY <1>1, <1>4 DEF Shown, Chat!Busy
<1>8. ChatShown'
  BY <1>1, <1>4, <1>7 DEF ChatShown, Chat!NoJob
<1>9. QED
  BY <1>3, <1>5, <1>6, <1>8 DEF ChatInv

\* An answer ends the approval that the chat shows.
LEMMA AnswerKeeps ==
  ASSUME ChatInv, ~ quitting, phase = "approval", Chat!Answers(approval), NEW d \in {"yes", "no"},
         Chat!Respond(approval, d), phase' = "running", approval' = 0,
         UNCHANGED <<quitting, activeJob, commandJob, startedIdle>>
  PROVE  ChatInv'
<1>1. /\ answer' = d
      /\ UNCHANGED <<commands, running, stage, cancelled, submitted, events, asked, asks>>
  BY DEF Chat!Respond
<1>2. WorkersInv /\ WorkTyped
  BY DEF ChatInv, WorkersInv
<1>3. WorkersInv'
  <2>1. cancelled' \in [Chat!Workers -> SUBSET Nat] /\ asked' \in Nat
        /\ answer' \in {"none", "yes", "no"}
    BY <1>1, <1>2 DEF WorkTyped
  <2>2. QED
    BY <1>1, <1>2, <2>1, WorkersRest
<1>4. ViewTyped'
  BY DEF ChatInv, ViewTyped
<1>5. Awaits'
  BY <1>1 DEF ChatInv, Awaits, Queued, AtWork, Due
<1>6. Shown'
  BY DEF ChatInv, ChatShown, Shown, Chat!Busy
<1>7. ASSUME activeJob # 0 PROVE ShownActive(activeJob)'
  <2>1. ShownActive(activeJob)
    BY <1>7 DEF ChatInv, ChatShown, Chat!NoJob
  <2>2. Completing(Chat!Agent, activeJob)' => Has(events[Chat!Agent], activeJob, "done")
    BY <1>1, <2>1 DEF ShownActive, Completing
  <2>3. QED
    BY <1>1, <2>1, <2>2 DEF ShownActive, Chat!Busy
<1>8. ASSUME commandJob # 0, startedIdle PROVE ShownCommand(commandJob)'
  <2>1. ShownCommand(commandJob)
    BY <1>8 DEF ChatInv, ChatShown, Chat!NoJob
  <2>2. Completing(Chat!Command, commandJob)' => Has(events[Chat!Command], commandJob, "done")
    BY <1>1, <2>1 DEF ShownCommand, Completing
  <2>3. QED
    BY <1>1, <2>1, <2>2 DEF ShownCommand
<1>9. stage[Chat!Agent] = "asking" /\ running[Chat!Agent] \notin cancelled[Chat!Agent] =>
        ShownApproval(running[Chat!Agent])'
  BY <1>1 DEF ChatInv, ChatShown, ShownApproval
<1>10. ChatShown'
  BY <1>1, <1>6, <1>7, <1>8, <1>9 DEF ChatShown, Chat!NoJob
<1>11. QED
  BY <1>3, <1>4, <1>5, <1>10 DEF ChatInv

LEMMA ChatStarts == ASSUME Chat!Init PROVE ChatInv
<1>1. WorkersInv
  BY WorkersStart
<1>2. /\ quitting = FALSE /\ startedIdle = FALSE /\ phase = "idle" /\ activeJob = 0
      /\ commandJob = 0
      /\ approval = 0
      /\ commands = [w \in Chat!Workers |-> <<>>] /\ running = [w \in Chat!Workers |-> 0]
      /\ stage = [w \in Chat!Workers |-> "idle"] /\ Chat!Agent \in Chat!Workers
  BY DEF Chat!Init, Chat!NoJob, Chat!Workers
<1>3. ViewTyped
  BY <1>2 DEF ViewTyped
<1>4. \A n \in Nat \ {0} : ~ Queued(n) /\ ~ AtWork(n)
  <2>1. commands[Chat!Agent] = <<>> /\ running[Chat!Agent] = 0
    BY <1>2
  <2>2. Chat!Elements(commands[Chat!Agent]) = {}
    BY <2>1 DEF Chat!Elements
  <2>3. QED
    BY <2>1, <2>2 DEF Queued, AtWork
<1>5. Awaits
  BY <1>2, <1>4 DEF Awaits, Chat!NoJob
<1>6. Shown
  BY <1>2 DEF Shown, Chat!Busy
<1>7. stage[Chat!Agent] # "asking"
  BY <1>2
<1>8. ChatShown
  BY <1>2, <1>6, <1>7 DEF ChatShown, Chat!NoJob
<1>9. QED
  BY <1>1, <1>3, <1>5, <1>8 DEF ChatInv

\* A task that is refused waits in the queue of messages.
LEMMA TaskKeeps ==
  ASSUME ChatInv, Chat!SubmitTask, left = "no", ~ quitting, phase \notin Chat!Busy, activeJob = 0,
         commandJob = 0,
         UNCHANGED <<quitting, commandJob, startedIdle, approval>>
  PROVE  ChatInv' /\ left' # "raised"
<1>1. CASE Chat!Begin
  BY <1>1, BeginKeeps DEF Chat!Startable
<1>2. CASE activeJob' = Chat!NoJob /\ UNCHANGED <<left, phase, Chat!workerVars>>
  <2>1. UNCHANGED <<quitting, Chat!viewVars, Chat!workerVars>>
    BY <1>2 DEF Chat!viewVars, Chat!NoJob
  <2>2. QED
    BY <1>2, <2>1, ChatRests
<1>3. QED
  BY <1>1, <1>2 DEF Chat!SubmitTask

LEMMA TasksKeep ==
  ASSUME ChatInv, Chat!EnterTask \/ Chat!Choose PROVE ChatInv' /\ left' # "raised"
<1>1. /\ left = "no" /\ Chat!SubmitTask
      /\ UNCHANGED <<quitting, commandJob, startedIdle, approval>>
  BY DEF Chat!EnterTask, Chat!Choose, Chat!Enter, Chat!KeyPress
<1>2. ~ quitting /\ phase \notin Chat!Busy /\ activeJob = 0 /\ commandJob = 0
  <2>1. CASE Chat!EnterTask
    BY <2>1 DEF Chat!EnterTask, Chat!InSession, Chat!BusyInput, Chat!Busy, Chat!NoJob
  <2>2. CASE Chat!Choose
    BY <2>2 DEF Chat!Choose, Chat!Idle, Chat!NoJob
  <2>3. QED
    BY <2>1, <2>2
<1>3. QED
  BY <1>1, <1>2, TaskKeeps

\* A message leaves the queue, or the result of an update is reviewed, while no task runs.
LEMMA DrainKeeps ==
  ASSUME ChatInv, Chat!DrainReview \/ Chat!DrainMessage PROVE ChatInv' /\ left' # "raised"
<1>1. /\ left = "no" /\ Chat!Begin /\ UNCHANGED <<quitting, commandJob, startedIdle, approval>>
      /\ ~ quitting /\ activeJob = 0 /\ commandJob = 0
  BY DEF Chat!DrainReview, Chat!DrainMessage, Chat!FrameKeys, Chat!MessageDue, Chat!Idle,
         Chat!NoJob
<1>2. Chat!Startable
  BY <1>1, Unbusied DEF Chat!Startable
<1>3. QED
  BY <1>1, <1>2, BeginKeeps

LEMMA AsideKeeps ==
  ASSUME ChatInv, left = "no",
         \/ Chat!EditText \/ Chat!OpenMessage \/ Chat!SaveEdits \/ Chat!EnterPaused
         \/ Chat!EnterQueued \/ Chat!OpenPicker
         \/ Chat!ChooseLate \/ Chat!CancelNothing \/ Chat!DrainNothing \/ Chat!DrainRefused
         \/ Chat!NextFrame
  PROVE  ChatInv' /\ left' # "raised"
<1>1. UNCHANGED <<quitting, Chat!viewVars, Chat!workerVars>>
  <2>1. CASE Chat!EditText
    BY <2>1 DEF Chat!EditText, Chat!Untouched
  <2>2. CASE Chat!OpenMessage
    BY <2>2 DEF Chat!OpenMessage, Chat!Untouched
  <2>3. CASE Chat!SaveEdits
    BY <2>3 DEF Chat!SaveEdits, Chat!Untouched
  <2>4. CASE Chat!EnterPaused
    BY <2>4 DEF Chat!EnterPaused, Chat!Untouched
  <2>5. CASE Chat!EnterQueued
    BY <2>5 DEF Chat!EnterQueued, Chat!Enter
  <2>6. CASE Chat!OpenPicker
    BY <2>6 DEF Chat!OpenPicker, Chat!Enter
  <2>7. CASE Chat!ChooseLate
    BY <2>7 DEF Chat!ChooseLate, Chat!Enter
  <2>8. CASE Chat!CancelNothing
    BY <2>8 DEF Chat!CancelNothing, Chat!DoubleEscape
  <2>9. CASE Chat!DrainNothing
    BY <2>9 DEF Chat!DrainNothing, Chat!FrameKeys, Chat!viewVars
  <2>10. CASE Chat!DrainRefused
    BY <2>10 DEF Chat!DrainRefused, Chat!FrameKeys, Chat!viewVars
  <2>11. CASE Chat!NextFrame
    BY <2>11 DEF Chat!NextFrame
  <2>12. QED
    BY <2>1, <2>2, <2>3, <2>4, <2>5, <2>6, <2>7, <2>8, <2>9, <2>10, <2>11
<1>2. left' \in {"no", "late", "left"}
  BY DEF Chat!EditText, Chat!OpenMessage, Chat!SaveEdits, Chat!EnterPaused, Chat!EnterQueued,
         Chat!OpenPicker, Chat!ChooseLate, Chat!CancelNothing, Chat!DrainNothing,
         Chat!DrainRefused, Chat!NextFrame, Chat!Untouched, Chat!DoubleEscape
<1>3. QED
  BY <1>1, <1>2, ChatRests

\* A chat that is to quit shows nothing any more.
LEMMA QuitKeeps ==
  ASSUME ChatInv, quitting' = TRUE, ViewTyped', answer' \in {"none", "yes", "no"},
         UNCHANGED <<activeJob, commandJob, commands, running, stage, cancelled, submitted, events,
                     asked, asks>>
  PROVE  ChatInv'
<1>1. WorkersInv'
  <2>1. WorkersInv /\ WorkTyped
    BY DEF ChatInv, WorkersInv
  <2>2. cancelled' \in [Chat!Workers -> SUBSET Nat] /\ asked' \in Nat
    BY <2>1 DEF WorkTyped
  <2>3. QED
    BY <2>1, <2>2, WorkersRest
<1>2. Awaits'
  BY DEF ChatInv, Awaits, Queued, AtWork, Due
<1>3. QED
  BY <1>1, <1>2 DEF ChatInv, ChatShown

LEMMA DecisionKeeps ==
  ASSUME ChatInv, phase = "approval", Chat!Answers(approval), NEW d \in {"yes", "no"},
         Chat!Respond(approval, d), phase' = "running", approval' = 0,
         UNCHANGED <<quitting, activeJob, commandJob, startedIdle>>
  PROVE  ChatInv'
<1>1. CASE ~ quitting
  BY <1>1, AnswerKeeps
<1>2. CASE quitting
  <2>1. answer' = d
        /\ UNCHANGED <<commands, running, stage, cancelled, submitted, events, asked, asks>>
    BY DEF Chat!Respond
  <2>2. ViewTyped' /\ quitting' = TRUE
    BY <1>2 DEF ChatInv, ViewTyped
  <2>3. QED
    BY <2>1, <2>2, QuitKeeps
<1>3. QED
  BY <1>1, <1>2

LEMMA AnswersKeep ==
  ASSUME ChatInv, left = "no", Chat!Approve \/ Chat!Escape PROVE ChatInv' /\ left' # "raised"
<1>1. CASE Chat!Approve
  <2>1. /\ phase = "approval" /\ Chat!Answers(approval) /\ Chat!Respond(approval, "yes")
        /\ phase' = "running"
        /\ approval' = 0 /\ UNCHANGED <<quitting, activeJob, commandJob, startedIdle, left>>
    BY <1>1 DEF Chat!Approve, Chat!Enter
  <2>2. QED
    BY <2>1, DecisionKeeps
<1>2. CASE Chat!Escape
  <2>1. UNCHANGED <<quitting, activeJob, commandJob, startedIdle, left>>
    BY <1>2 DEF Chat!Escape
  <2>2. CASE phase = "approval" /\ Chat!Answers(approval) /\ Chat!Respond(approval, "no")
             /\ phase' = "running"
             /\ approval' = 0
    BY <2>1, <2>2, DecisionKeeps
  <2>3. CASE UNCHANGED <<phase, approval, Chat!workerVars>>
    BY <2>1, <2>3, ChatRests DEF Chat!viewVars
  <2>4. QED
    BY <1>2, <2>2, <2>3 DEF Chat!Escape
<1>3. QED
  BY <1>1, <1>2

LEMMA QuitsKeep == ASSUME ChatInv, Chat!RequestQuit PROVE ChatInv' /\ UNCHANGED left
<1>1. /\ quitting' = TRUE /\ phase' = Chat!Stopping(phase)
      /\ UNCHANGED <<activeJob, commandJob, startedIdle, approval, left>>
      /\ Chat!Respond(approval, "no") \/ UNCHANGED Chat!workerVars
  BY DEF Chat!RequestQuit
<1>2. WorkTyped
  BY DEF ChatInv, WorkersInv
<1>3. /\ answer' \in {"none", "yes", "no"}
      /\ UNCHANGED <<commands, running, stage, cancelled, submitted, events, asked, asks>>
  <2>1. CASE Chat!Respond(approval, "no")
    BY <1>2, <2>1 DEF Chat!Respond, WorkTyped
  <2>2. CASE UNCHANGED Chat!workerVars
    BY <1>2, <2>2 DEF Chat!workerVars, WorkTyped
  <2>3. QED
    BY <1>1, <2>1, <2>2
<1>4. ViewTyped'
  BY <1>1 DEF ChatInv, ViewTyped, Chat!Stopping
<1>5. QED
  BY <1>1, <1>3, <1>4, QuitKeeps

\* A command that is cancelled leaves the conversation's job to the chat.
LEMMA CancelCommandKeeps == ASSUME ChatInv, Chat!CancelCommand PROVE ChatInv' /\ UNCHANGED left
<1>1. /\ commandJob' = 0 /\ startedIdle' = FALSE /\ UNCHANGED <<activeJob, left, quitting>>
      /\ IF startedIdle /\ activeJob = 0 THEN phase' = "idle" /\ approval' = 0
         ELSE UNCHANGED <<phase, approval>>
      /\ ~ quitting /\ commandJob # 0
  BY DEF Chat!CancelCommand, Chat!DoubleEscape, Chat!KeyPress, Chat!Active, Chat!NoJob
<1>2. WorkersInv /\ WorkTyped /\ Chat!Agent \in Chat!Workers /\ Chat!Command \in Chat!Workers
      /\ Chat!Agent # Chat!Command
  BY DEF ChatInv, WorkersInv, Chat!Workers, Chat!Agent, Chat!Command
<1>3. /\ UNCHANGED <<commands, running, stage, submitted, events, answer, asks, asked>>
      /\ cancelled' \in [Chat!Workers -> SUBSET Nat]
      /\ cancelled'[Chat!Agent] = cancelled[Chat!Agent]
  <2>1. CASE Chat!Cancel(Chat!Command, commandJob)
    <3>1. commandJob \in Nat
      BY DEF ChatInv, ViewTyped
    <3>2. QED
      BY <1>2, <2>1, <3>1 DEF Chat!Cancel, WorkTyped
  <2>2. CASE UNCHANGED Chat!workerVars
    BY <1>2, <2>2 DEF Chat!workerVars, WorkTyped
  <2>3. QED
    BY <2>1, <2>2 DEF Chat!CancelCommand
<1>4. WorkersInv'
  <2>1. asked' \in Nat /\ answer' \in {"none", "yes", "no"}
    BY <1>2, <1>3 DEF WorkTyped
  <2>2. QED
    BY <1>2, <1>3, <2>1, WorkersRest
<1>5. ViewTyped'
  BY <1>1 DEF ChatInv, ViewTyped
<1>6. Awaits'
  BY <1>1, <1>3 DEF ChatInv, Awaits, Queued, AtWork, Due, Chat!NoJob
<1>7. Shown'
  <2>1. Shown
    BY <1>1 DEF ChatInv, ChatShown
  <2>2. CASE activeJob # 0
    BY <1>1, <1>3, <2>1, <2>2 DEF Shown, Chat!Accepted, Chat!NoJob
  <2>3. CASE activeJob = 0
    <3>1. phase' \notin Chat!Busy /\ (phase' = "approval" <=> approval' # 0)
      BY <1>1, <2>1, <2>3, Unbusied DEF Shown, Chat!Busy
    <3>2. QED
      BY <3>1 DEF Shown, Chat!Busy
  <2>4. QED
    BY <2>2, <2>3
<1>8. ASSUME activeJob # 0 PROVE ShownActive(activeJob)'
  <2>1. ShownActive(activeJob) /\ UNCHANGED <<phase, approval>>
    BY <1>1, <1>8 DEF ChatInv, ChatShown, Chat!NoJob
  <2>2. QED
    BY <1>1, <1>3, <2>1 DEF ShownActive, Fresh, Queued, Completing
<1>9. ASSUME stage[Chat!Agent] = "asking", running[Chat!Agent] \notin cancelled[Chat!Agent]
      PROVE  ShownApproval(running[Chat!Agent])'
  <2>1. ShownApproval(running[Chat!Agent])
    BY <1>1, <1>9 DEF ChatInv, ChatShown
  <2>2. UNCHANGED approval
    BY <1>1, <1>9, Unbusied
  <2>3. QED
    BY <1>3, <2>1, <2>2 DEF ShownApproval
<1>10. ChatShown'
  BY <1>1, <1>3, <1>7, <1>8, <1>9 DEF ChatShown, Chat!NoJob
<1>11. QED
  BY <1>1, <1>4, <1>5, <1>6, <1>10 DEF ChatInv

\* The chat is stopping from here on, and its job among those to be cancelled.
LEMMA CancelJobKeeps == ASSUME ChatInv, Chat!CancelJob PROVE ChatInv' /\ UNCHANGED left
<1>1. /\ commandJob = 0 /\ activeJob # 0 /\ ~ quitting /\ phase # "stopping"
      /\ Chat!Cancels(Chat!Agent, activeJob)
      /\ Chat!Cancel(Chat!Agent, activeJob) /\ phase' = Chat!Stopping(phase) /\ approval' = 0
      /\ UNCHANGED <<activeJob, commandJob, startedIdle, left, quitting>>
  BY DEF Chat!CancelJob, Chat!DoubleEscape, Chat!KeyPress, Chat!Active, Chat!NoJob
<1>2. WorkersInv /\ WorkTyped /\ Chat!Agent \in Chat!Workers
  BY DEF ChatInv, WorkersInv, Chat!Workers
<1>3. /\ UNCHANGED <<commands, running, stage, submitted, events, answer, asks>>
      /\ cancelled' \in [Chat!Workers -> SUBSET Nat]
      /\ cancelled'[Chat!Agent] = cancelled[Chat!Agent] \cup {activeJob}
      /\ asked' \in Nat
  <2>1. activeJob \in Nat
    BY DEF ChatInv, ViewTyped
  <2>2. QED
    BY <1>1, <1>2, <2>1 DEF Chat!Cancel, WorkTyped
<1>4. WorkersInv'
  <2>1. answer' \in {"none", "yes", "no"}
    BY <1>2, <1>3 DEF WorkTyped
  <2>2. QED
    BY <1>2, <1>3, <2>1, WorkersRest
<1>5. ViewTyped'
  BY <1>1 DEF ChatInv, ViewTyped, Chat!Stopping
<1>6. Awaits'
  BY <1>1, <1>3 DEF ChatInv, Awaits, Queued, AtWork, Due, Chat!NoJob
<1>7. phase' \in {"idle", "stopping", "error"}
      /\ (phase \in Chat!Busy \cup {"done"} <=> phase' = "stopping")
  BY <1>1 DEF ChatInv, ViewTyped, Chat!Stopping, Chat!Busy
<1>8. Shown'
  BY <1>1, <1>3, <1>7 DEF Shown, Chat!NoJob
<1>9. ShownActive(activeJob)'
  <2>1. ShownActive(activeJob)
    BY <1>1 DEF ChatInv, ChatShown, Chat!NoJob
  <2>2. phase \in {"running", "stopping"} \cup Chat!Busy \cup {"done"} => phase' = "stopping"
    BY <1>7 DEF Chat!Busy
  <2>3. QED
    BY <1>1, <1>3, <1>7, <2>1, <2>2 DEF ShownActive, Fresh, Queued, Completing, Chat!Busy
<1>10. stage[Chat!Agent] = "asking" => running[Chat!Agent] \in cancelled'[Chat!Agent]
  <2>1. stage[Chat!Agent] = "asking" => running[Chat!Agent] = activeJob
    BY AtWorkShown
  <2>2. QED
    BY <1>3, <2>1
<1>11. ChatShown'
  BY <1>1, <1>3, <1>8, <1>9, <1>10 DEF ChatShown, Chat!NoJob
<1>12. QED
  BY <1>1, <1>4, <1>5, <1>6, <1>11 DEF ChatInv

-----------------------------------------------------------------------------
(* Every step, and what the chat shows.                                      *)

LEMMA KeysKeep == ASSUME left = "no", ChatInv, Chat!KeysNext PROVE left' = "no" => ChatInv'
<1>1. CASE Chat!EnterClear
  BY <1>1, ClearedShown
<1>2. CASE Chat!EnterCommand
  BY <1>2, CommandBegins
<1>3. CASE Chat!EnterTask \/ Chat!Choose
  BY <1>3, TasksKeep
<1>4. CASE Chat!Approve \/ Chat!Escape
  BY <1>4, AnswersKeep
<1>5. CASE Chat!CancelCommand
  BY <1>5, CancelCommandKeeps
<1>6. CASE Chat!CancelJob
  BY <1>6, CancelJobKeeps
<1>7. CASE Chat!RequestQuit
  BY <1>7, QuitsKeep
<1>8. QED
  BY <1>1, <1>2, <1>3, <1>4, <1>5, <1>6, <1>7, AsideKeeps DEF Chat!KeysNext

LEMMA KeysCalm == ASSUME left = "no", ChatInv, Chat!KeysNext PROVE left' # "raised"
<1>1. CASE Chat!EnterClear
  BY <1>1 DEF Chat!EnterClear
<1>2. CASE Chat!EnterCommand
  BY <1>2, CommandBegins
<1>3. CASE Chat!EnterTask \/ Chat!Choose
  BY <1>3, TasksKeep
<1>4. CASE Chat!Approve \/ Chat!Escape
  BY <1>4, AnswersKeep
<1>5. CASE Chat!CancelCommand \/ Chat!CancelJob
  BY <1>5, CancelCommandKeeps, CancelJobKeeps
<1>6. CASE Chat!RequestQuit
  BY <1>6, QuitsKeep
<1>7. QED
  BY <1>1, <1>2, <1>3, <1>4, <1>5, <1>6, AsideKeeps DEF Chat!KeysNext

\* From a chat that goes on, a step leads to one that shows what its workers do, or
\* ends it; never by an exception.
LEMMA ChatKept ==
  ASSUME left = "no", ChatInv, Chat!Next PROVE (left' = "no" => ChatInv') /\ left' # "raised"
<1>1. CASE Chat!WorkersNext
  <2>1. left' = left
    BY <1>1 DEF Chat!WorkersNext, Chat!WorkerStep, Chat!Take, Chat!Interrupt, Chat!Done,
                Chat!Proceed, Chat!Complete, Chat!Fail, Chat!Retire, Chat!Restored, Chat!Result,
                Chat!Ask, Chat!Answered
  <2>2. QED
    BY <1>1, <2>1, WorkersMove
<1>2. CASE Chat!KeysNext
  BY <1>2, KeysKeep, KeysCalm
<1>3. CASE Chat!IgnoreEvent
  BY <1>3, IgnoreKeeps DEF Chat!IgnoreEvent
<1>4. CASE Chat!ShowProgress
  BY <1>4, ProgressKeeps DEF Chat!ShowProgress
<1>5. CASE Chat!ShowApproval
  BY <1>5, ApprovalKeeps
<1>6. CASE Chat!FinishJob
  BY <1>6, FinishKeeps DEF Chat!FinishJob
<1>7. CASE Chat!HandleCommandEvent
  BY <1>7, CommandKeeps DEF Chat!HandleCommandEvent
<1>8. CASE Chat!DrainReview \/ Chat!DrainMessage
  BY <1>8, DrainKeeps
<1>9. CASE Chat!DrainNothing \/ Chat!DrainRefused \/ Chat!NextFrame
  BY <1>9, AsideKeeps
<1>10. QED
  BY <1>1, <1>2, <1>3, <1>4, <1>5, <1>6, <1>7, <1>8, <1>9 DEF Chat!Next

LEMMA ChatEnds == ASSUME left # "no", Chat!Next PROVE UNCHANGED left
  BY DEF Chat!Next, Chat!WorkersNext, Chat!WorkerStep, Chat!Take, Chat!Interrupt, Chat!Done,
         Chat!Proceed, Chat!Complete, Chat!Fail, Chat!Retire, Chat!Restored, Chat!Result,
         Chat!Ask, Chat!Answered, Chat!KeysNext, Chat!EditText, Chat!OpenMessage, Chat!SaveEdits,
         Chat!EnterPaused, Chat!EnterQueued, Chat!EnterTask, Chat!OpenPicker, Chat!EnterClear,
         Chat!Choose, Chat!ChooseLate, Chat!EnterCommand, Chat!Approve, Chat!Escape,
         Chat!CancelCommand, Chat!CancelJob, Chat!CancelNothing, Chat!RequestQuit,
         Chat!DoubleEscape, Chat!Enter, Chat!KeyPress, Chat!IgnoreEvent, Chat!ShowProgress,
         Chat!ShowApproval, Chat!FinishJob, Chat!HandleCommandEvent, Chat!Handling,
         Chat!DrainNothing, Chat!DrainRefused, Chat!DrainReview, Chat!DrainMessage,
         Chat!FrameKeys, Chat!NextFrame

LEMMA ChatHonest == ASSUME left = "no", ChatInv PROVE Chat!PhaseMatchesWork
<1>1. \A w \in Chat!Workers : events[w] \in Seq(Events) /\ DOMAIN events[w] = 1..Len(events[w])
  BY DEF ChatInv, WorkersInv, WorkTyped
<1>2. Chat!Agent \in Chat!Workers /\ Chat!Command \in Chat!Workers
  BY DEF Chat!Workers
<1>3. ASSUME NEW w \in Chat!Workers, NEW n, Due(w, n) PROVE Chat!EndDue(w, n)
  BY <1>1, <1>3 DEF Due, Chat!EndDue, Has
<1>4. activeJob # Chat!NoJob => Chat!EndDue(Chat!Agent, activeJob)
  BY <1>2, <1>3 DEF ChatInv, Awaits
<1>5. commandJob # Chat!NoJob => Chat!EndDue(Chat!Command, commandJob)
  BY <1>2, <1>3 DEF ChatInv, Awaits
<1>6. ASSUME ~ quitting PROVE Shown
  BY <1>6 DEF ChatInv, ChatShown
<1>7. ASSUME ~ quitting, stage[Chat!Agent] = "asking", ~ Chat!Interrupted(Chat!Agent),
             answer = "none"
      PROVE  \/ approval = asked /\ activeJob = running[Chat!Agent]
             \/ \E i \in DOMAIN events[Chat!Agent] : events[Chat!Agent][i].id = asked
                  /\ events[Chat!Agent][i].kind = "approval_required"
                  /\ events[Chat!Agent][i].job = activeJob
  <2>1. ShownApproval(running[Chat!Agent])
    BY <1>7 DEF ChatInv, ChatShown, Chat!Interrupted
  <2>2. running[Chat!Agent] = activeJob
    BY <1>7, AtWorkShown
  <2>3. CASE approval = asked
    BY <2>2, <2>3
  <2>4. CASE Has(events[Chat!Agent], activeJob, "approval_required")
    <3>1. PICK i \in 1..Len(events[Chat!Agent]) :
            events[Chat!Agent][i].job = activeJob
            /\ events[Chat!Agent][i].kind = "approval_required"
      BY <2>4 DEF Has
    <3>2. events[Chat!Agent][i].id = asked
      BY <2>1, <2>2, <3>1 DEF ShownApproval, Named
    <3>3. QED
      BY <1>1, <1>2, <3>1, <3>2
  <2>5. QED
    BY <1>7, <2>1, <2>2, <2>3, <2>4 DEF ShownApproval
<1>8. QED
  BY <1>4, <1>5, <1>6, <1>7 DEF Chat!PhaseMatchesWork, Shown

\* While the chat goes on it shows what its workers do; it never raises.
ChatHolds == TextInv /\ EscapeInv /\ left # "raised" /\ (left = "no" => ChatInv)

LEMMA ChatStutters == ChatHolds /\ UNCHANGED chatVars => ChatHolds' /\ Chat!CancelsItsJob
<1> SUFFICES ASSUME ChatHolds, UNCHANGED chatVars PROVE ChatHolds' /\ Chat!CancelsItsJob
  OBVIOUS
<1>1. TextInv'
  BY DEF ChatHolds, TextInv, TextTyped, Placed, InOrder, Edited, Counted, Chat!Waiting, chatVars
<1>2. EscapeInv' /\ Chat!CancelsItsJob
  BY DEF ChatHolds, EscapeInv, Armed, Chat!CancelsItsJob, chatVars
<1>3. left = "no" => ChatInv'
  BY ChatRests DEF ChatHolds, Chat!viewVars, Chat!workerVars, chatVars
<1>4. QED
  BY <1>1, <1>2, <1>3 DEF ChatHolds, chatVars

LEMMA ChatStep == ChatHolds /\ Chat!Next => ChatHolds' /\ Chat!CancelsItsJob
<1> SUFFICES ASSUME ChatHolds, Chat!Next PROVE ChatHolds' /\ Chat!CancelsItsJob
  OBVIOUS
<1>1. TextInv'
  BY TextKept DEF ChatHolds
<1>2. EscapeInv' /\ Chat!CancelsItsJob
  BY EscapeKept DEF ChatHolds
<1>3. left' # "raised" /\ (left' = "no" => ChatInv')
  <2>1. CASE left = "no"
    BY <2>1, ChatKept DEF ChatHolds
  <2>2. CASE left # "no"
    BY <2>2, ChatEnds DEF ChatHolds
  <2>3. QED
    BY <2>1, <2>2
<1>4. QED
  BY <1>1, <1>2, <1>3 DEF ChatHolds

LEMMA ChatInvariant == Spec => [](part = "chat" => ChatHolds)
<1>1. Init => (part = "chat" => ChatHolds)
  <2> SUFFICES ASSUME Chat!Init PROVE ChatHolds
    BY DEF Init
  <2>1. left = "no"
    BY DEF Chat!Init
  <2>2. QED
    BY <2>1, TextStarts, EscapeStarts, ChatStarts DEF ChatHolds
<1>2. (part = "chat" => ChatHolds) /\ [Next]_vars => (part = "chat" => ChatHolds)'
  <2> SUFFICES ASSUME part = "chat" => ChatHolds, [Next]_vars, part' = "chat"
               PROVE  ChatHolds'
    OBVIOUS
  <2>1. CASE UNCHANGED chatVars /\ part' = part
    BY <2>1, ChatStutters
  <2>2. CASE Only("chat") /\ Chat!Next
    BY <2>2, ChatStep DEF Only
  <2>3. QED
    BY <2>1, <2>2 DEF Next, Only, vars
<1>3. QED
  BY <1>1, <1>2, PTL DEF Spec

\* Every message a user hands over is queued, with a worker or dropped by a cancellation,
\* never twice; workers get them in the order they were entered, and an edit is complete
\* or absent (raychat/ui/message_queue.py; raychat/ui/controller.py _drain_queue,
\* _submit_task, _process_cancel_key).
THEOREM MessagesKept == Spec => []QueueHonest
<1>1. (part = "chat" => ChatHolds) => QueueHonest
  BY TextHonest DEF ChatHolds, QueueHonest
<1>2. QED
  BY <1>1, ChatInvariant, PTL

\* A double Escape cancels a job that was in hand when the first of the two came, whatever
\* ends and begins between them (raychat/ui/terminal.py DoubleEscape;
\* raychat/ui/controller.py _process_cancel_key, _finish_worker_job).
THEOREM EscapeCancelsItsJob == Spec => EscapeHitsItsJob
<1>1. (part = "chat" => ChatHolds) /\ [Next]_vars => [part = "chat" => Chat!CancelsItsJob]_chatVars
  <2> SUFFICES ASSUME part = "chat", ChatHolds, Next
               PROVE  Chat!CancelsItsJob \/ UNCHANGED chatVars
    BY DEF vars
  <2>1. QED
    BY ChatStep DEF Next, Only
<1>2. QED
  BY <1>1, ChatInvariant, PTL DEF Spec, EscapeHitsItsJob

\* The interface never raises: it starts no task while one runs and shows no approval
\* outside of one.  Until it leaves, a job it waits for is going to end, a busy phase
\* has such a job, and a worker that waits for an answer is shown with its own approval,
\* or is about to be (raychat/ui/controller.py _accept_worker_event, _drain_queue,
\* _finish_worker_job; raychat/ui/state.py start, begin_approval).
THEOREM ChatShowsItsWork == Spec => []ChatMatchesWork
<1>1. (part = "chat" => ChatHolds) => ChatMatchesWork
  <2> SUFFICES ASSUME ChatHolds PROVE Chat!NeverRaises /\ Chat!PhaseMatchesWork
    BY DEF ChatMatchesWork
  <2>1. Chat!NeverRaises
    BY DEF ChatHolds, Chat!NeverRaises
  <2>2. CASE left = "no"
    BY <2>1, <2>2, ChatHonest DEF ChatHolds
  <2>3. CASE left # "no"
    BY <2>1, <2>3 DEF Chat!PhaseMatchesWork
  <2>4. QED
    BY <2>2, <2>3
<1>2. QED
  BY <1>1, ChatInvariant, PTL
=============================================================================
