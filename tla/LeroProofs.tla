----------------------------- MODULE LeroProofs -----------------------------
(***************************************************************************)
(* Proofs about Lero, for every set of queries, every array length and     *)
(* every nesting depth.                                                    *)
(***************************************************************************)
EXTENDS Lero, SequenceTheorems, TLAPS

\* Scaling a recorded row count leaves it a row count.
LEMMA SwungType == ASSUME NEW r \in Rows PROVE Swung(r) \in Rows
  <1>1. CASE r = Zero
    BY Zenon, <1>1 DEF Rows, Swung, Zero
  <1>2. CASE r \in {Est(j) : j \in Join}
    BY Zenon, <1>2 DEF Rows, Swung, Est
  <1>3. CASE r \in {Swung(Est(j)) : j \in Join}
    BY Zenon, <1>3 DEF Rows, Swung, Est
  <1> QED BY Zenon, <1>1, <1>2, <1>3 DEF Rows

\* So is an estimate.
LEMMA EstType == ASSUME NEW j \in Join PROVE Est(j) \in Rows
  BY Zenon DEF Rows

\* A fresh pass over one of a query's orders is a frame.
LEMMA StartPassType ==
  ASSUME NEW q \in Query, NEW p \in Pass, NEW o \in Orders[q], NEW b \in BOOLEAN,
         NEW c \in BOOLEAN
  PROVE  StartPass(q, p, o, b, c) \in Frame
  BY SMTT(40), Z3T(40), LeroAssumption DEF StartPass, Frame

\* The calls interrupted by another one stay frames, each in its place, and
\* only the mark is new.
LEMMA InterruptedType ==
  ASSUME TypeOK
  PROVE  /\ Interrupted \in Seq(Frame) /\ Len(Interrupted) = Len(stack)
         /\ \A k \in 1 .. Len(stack) :
              /\ Interrupted[k].nested
              /\ Interrupted[k].caught = stack[k].caught
              /\ Interrupted[k].order = stack[k].order
              /\ Interrupted[k].sizes = stack[k].sizes
  <1>1. stack \in Seq(Frame) /\ Len(stack) \in Nat
    BY SMTT(40), Z3T(40) DEF TypeOK
  <1>2. ASSUME NEW k \in 1 .. Len(stack)
        PROVE  /\ [stack[k] EXCEPT !.nested = TRUE] \in Frame
               /\ [stack[k] EXCEPT !.nested = TRUE].nested
               /\ [stack[k] EXCEPT !.nested = TRUE].caught = stack[k].caught
               /\ [stack[k] EXCEPT !.nested = TRUE].order = stack[k].order
               /\ [stack[k] EXCEPT !.nested = TRUE].sizes = stack[k].sizes
    <2>1. stack[k] \in Frame
      BY SMTT(40), Z3T(40), <1>1
    <2> QED BY Zenon, <2>1 DEF Frame
  <1>3. Interrupted \in Seq(Frame) /\ Len(Interrupted) = Len(stack)
    BY SMTT(40), Z3T(40), <1>1, <1>2 DEF Interrupted
  <1> QED BY Zenon, <1>2, <1>3 DEF Interrupted

\* Giving the next join relation of the innermost pass a size keeps the stack
\* well typed.
LEMMA BuildJoinType ==
  ASSUME TypeOK, stack # <<>>, NEW r \in Rows, BuildJoin(r)
  PROVE  stack' \in Seq(Frame)
  <1>1. stack[1] \in Frame /\ Len(stack) \in Nat /\ Len(stack) >= 1
    BY SMTT(40), Z3T(40) DEF TypeOK
  <1>2. [stack[1] EXCEPT !.sizes = Append(@, r)] \in Frame
    <2>1. Append(stack[1].sizes, r) \in Seq(Rows)
      BY SMTT(40), Z3T(40), <1>1 DEF Frame
    <2> QED BY Zenon, <1>1, <2>1 DEF Frame
  <1>3. stack' = [stack EXCEPT ![1] = [stack[1] EXCEPT !.sizes = Append(@, r)]]
    BY Zenon, <1>1 DEF BuildJoin, TypeOK
  <1> QED BY SMTT(40), Z3T(40), <1>1, <1>2, <1>3 DEF TypeOK

\* The join relation a pass builds next is one of its order.
LEMMA NextJoinType ==
  ASSUME TypeOK, stack # <<>>, ~PassDone
  PROVE  NextJoin \in Join
  <1>1. stack[1] \in Frame
    BY SMTT(40), Z3T(40) DEF TypeOK
  <1> QED BY SMTT(40), Z3T(40), <1>1 DEF NextJoin, PassDone, top, Frame

\* The calls that stay on the stack when an ERROR unwinds it are the outermost
\* ones, and marked.
LEMMA UnwindType ==
  ASSUME TypeOK, NEW n \in 0 .. MaxDepth, Unwind(n)
  PROVE  /\ stack' \in Seq(Frame) /\ Len(stack') = n
         /\ \A k \in 1 .. n : /\ stack'[k].caught
                              /\ stack'[k].nested = stack[Len(stack) - n + k].nested
  <1>1. stack \in Seq(Frame) /\ Len(stack) \in Nat /\ n \in Nat /\ n < Len(stack)
    BY SMTT(40), Z3T(40), LeroAssumption DEF TypeOK, Unwind
  <1>2. stack' = [k \in 1 .. n |-> [stack[Len(stack) - n + k] EXCEPT !.caught = TRUE]]
    BY Zenon DEF Unwind
  <1>3. ASSUME NEW k \in 1 .. n
        PROVE  /\ [stack[Len(stack) - n + k] EXCEPT !.caught = TRUE] \in Frame
               /\ [stack[Len(stack) - n + k] EXCEPT !.caught = TRUE].caught
               /\ [stack[Len(stack) - n + k] EXCEPT !.caught = TRUE].nested
                    = stack[Len(stack) - n + k].nested
    <2>1. stack[Len(stack) - n + k] \in Frame
      BY SMTT(40), Z3T(40), <1>1
    <2> QED BY Zenon, <2>1 DEF Frame
  <1>4. stack' \in Seq(Frame) /\ Len(stack') = n
    BY SMTT(40), Z3T(40), <1>1, <1>2, <1>3
  <1> QED BY Zenon, <1>2, <1>3, <1>4

\* The counters of the hook never leave the fixed-size arrays, and what is
\* stored there is always a row count: for any number of join relations, any
\* CARD_MAX_NUM and any nesting of planner() calls and ERRORs.
THEOREM TypeCorrect == Spec => []TypeOK
  <1>1. Init => TypeOK
    <2>1. Zero \in Rows
      BY Zenon DEF Rows
    <2>2. [i \in Slot |-> Zero] \in [Slot -> Rows] /\ [i \in Slot |-> 0] \in [Slot -> Nat]
      BY <2>1
    <2>3. 0 \in 0 .. CARD_MAX_NUM /\ 0 \in 0 .. 0
      BY SMTT(40), Z3T(40), LeroAssumption
    <2>4. <<>> \in Seq(Frame)
      BY SMTT(40), Z3T(40)
    <2> QED BY Zenon, <2>1, <2>2, <2>3, <2>4 DEF Init, TypeOK
  <1>2. TypeOK /\ [Next]_vars => TypeOK'
    <2> SUFFICES ASSUME TypeOK, [Next]_vars PROVE TypeOK'
      OBVIOUS
    <2> USE LeroAssumption
    <2>1. CASE SetGUC
      BY Zenon, <2>1 DEF TypeOK, SetGUC, cards
    <2>2. ASSUME NEW q \in Query, Planner(q) PROVE TypeOK'
      <3>1. stack' \in Seq(Frame)
        <4>1. PICK o \in Orders[q] :
                stack' = <<StartPass(q, IF enable_lero THEN "record" ELSE "standard", o,
                                     FALSE, FALSE)>> \o Interrupted
          BY Zenon, <2>2 DEF Planner
        <4>2. StartPass(q, IF enable_lero THEN "record" ELSE "standard", o, FALSE, FALSE) \in Frame
          BY Zenon, StartPassType DEF Pass
        <4>3. Interrupted \in Seq(Frame)
          BY InterruptedType
        <4> DEFINE f == StartPass(q, IF enable_lero THEN "record" ELSE "standard", o, FALSE, FALSE)
        <4>4. f \in Frame /\ stack' = <<f>> \o Interrupted
          BY <4>1, <4>2
        <4> HIDE DEF f
        <4>5. <<f>> \in Seq(Frame)
          BY SMTT(40), Z3T(40), <4>4
        <4> QED BY SMTT(40), Z3T(40), <4>3, <4>4, <4>5
      <3>2. CASE enable_lero
        <4>1. /\ record_original_card_phase' = TRUE /\ join_card_num' = 0 /\ cur_card_idx' = 0
              /\ UNCHANGED <<original_card_list, join_input_table_nums, lero_card_list, rows>>
              /\ UNCHANGED gucs
          BY Zenon, <2>2, <3>2 DEF Planner, ResetCounters
        <4>2. join_card_num' \in 0 .. CARD_MAX_NUM /\ cur_card_idx' \in 0 .. join_card_num'
          BY SMTT(40), Z3T(40), <4>1
        <4> QED BY Zenon, <3>1, <4>1, <4>2 DEF TypeOK, gucs
      <3>3. CASE ~enable_lero
        BY Zenon, <2>2, <3>1, <3>3 DEF TypeOK, Planner, cards, gucs
      <3> QED BY <3>2, <3>3
    <2>3. CASE StandardJoin
      <3>1. stack' \in Seq(Frame)
        BY Zenon, <2>3, BuildJoinType, NextJoinType, EstType DEF StandardJoin
      <3> QED BY Zenon, <2>3, <3>1 DEF TypeOK, StandardJoin, cards, gucs
    <2>4. CASE RecordJoin
      <3>1. rows' \in Rows /\ NumTables[NextJoin] \in Nat
        BY Zenon, <2>4, NextJoinType, EstType DEF RecordJoin
      <3>2. stack' \in Seq(Frame)
        BY Zenon, <2>4, <3>1, BuildJoinType DEF RecordJoin
      <3> QED BY SMTT(40), Z3T(40), <2>4, <3>1, <3>2 DEF TypeOK, RecordJoin, CardsFull, gucs, Slot
    <2>5. CASE RecordJoinFull
      <3>1. stack' \in Seq(Frame)
        BY Zenon, <2>5, BuildJoinType DEF RecordJoinFull, TypeOK
      <3> QED BY Zenon, <2>5, <3>1 DEF TypeOK, RecordJoinFull, cards, gucs
    <2>6. CASE ReplayJoin
      <3>1. rows' \in Rows
        BY SMTT(40), Z3T(40), <2>6, NextJoinType, EstType DEF ReplayJoin, ReplayCard, TypeOK, Slot
      <3>2. stack' \in Seq(Frame)
        BY Zenon, <2>6, <3>1, BuildJoinType DEF ReplayJoin
      <3> QED BY SMTT(40), Z3T(40), <2>6, <3>1, <3>2 DEF TypeOK, ReplayJoin, ReplayCard, gucs
    <2>7. CASE SwingCards
      <3>1. stack' \in Seq(Frame)
        <4>1. top \in Frame /\ Tail(stack) \in Seq(Frame)
          BY SMTT(40), Z3T(40), <2>7 DEF SwingCards, top, TypeOK
        <4>2. PICK o \in Orders[top.query] :
                stack' = <<StartPass(top.query, "replay", o, top.nested, top.caught)>> \o Tail(stack)
          BY Zenon, <2>7 DEF SwingCards
        <4>3. top.query \in Query /\ top.nested \in BOOLEAN /\ top.caught \in BOOLEAN
          BY Zenon, <4>1 DEF Frame
        <4>4. StartPass(top.query, "replay", o, top.nested, top.caught) \in Frame
          BY Zenon, <4>3, StartPassType DEF Pass
        <4> QED BY SMTT(40), Z3T(40), <4>1, <4>2, <4>4
      <3>2. \A i \in Slot : SwingCard(i) \in Rows
        BY Zenon, SwungType DEF SwingCard, SwungCard, TypeOK
      <3> QED BY Zenon, <2>7, <3>1, <3>2 DEF TypeOK, SwingCards, gucs
    <2>8. CASE PlannerReturn
      BY SMTT(40), Z3T(40), <2>8 DEF TypeOK, PlannerReturn, cards, gucs
    <2>9. ASSUME NEW n \in 0 .. MaxDepth, Error(n) PROVE TypeOK'
      BY Zenon, <2>9, UnwindType DEF TypeOK, Error, cards, gucs
    <2>10. ASSUME NEW n \in 0 .. MaxDepth, RecordJoinUnsupported(n) PROVE TypeOK'
      <3>1. rows' \in Rows
        BY Zenon, <2>10, NextJoinType, EstType DEF RecordJoinUnsupported
      <3> QED BY Zenon, <2>10, <3>1, UnwindType DEF TypeOK, RecordJoinUnsupported, gucs
    <2>11. CASE UNCHANGED vars
      BY Zenon, <2>11 DEF TypeOK, vars
    <2> QED
      BY Zenon, <2>1, <2>2, <2>3, <2>4, <2>5, <2>6, <2>7, <2>8, <2>9, <2>10, <2>11 DEF Next
  <1> QED BY <1>1, <1>2, PTL DEF Spec

-----------------------------------------------------------------------------
(* Recording and replay, over the orders of standard_join_search. *)

\* One order per query, and room for all its joins.
Fixed == \A q \in Query : \A o, p \in Orders[q] : o = p /\ Len(o) <= CARD_MAX_NUM

\* What the recording holds after the first n joins of order o.
Recorded(o, n) ==
    \A i \in 1 .. n : /\ original_card_list[i - 1] = Est(o[i])
                      /\ join_input_table_nums[i - 1] = NumTables[o[i]]

\* Only the innermost call can be undisturbed, because every call marks those
\* it interrupts.
OuterCallsNested == \A k \in 2 .. Len(stack) : stack[k].nested

\* The globals belong to an undisturbed call: its recording pass has recorded
\* the joins it built; its replay pass has the wanted size of every join at the
\* position where it will ask for it.
Undisturbed ==
    /\ top.order \in Orders[top.query]
    /\ Len(top.sizes) <= Len(top.order)
    /\ top.pass = "standard" => ~enable_lero
    /\ top.pass = "record" =>
          /\ enable_lero /\ record_original_card_phase
          /\ join_card_num = Len(top.sizes)
          /\ cur_card_idx = 0
          /\ Recorded(top.order, Len(top.sizes))
    /\ top.pass = "replay" =>
          /\ enable_lero /\ ~record_original_card_phase
          /\ join_card_num = Len(top.order)
          /\ cur_card_idx = Len(top.sizes)
          /\ \A i \in 1 .. Len(top.order) : lero_card_list[i - 1] = Wanted(top.order[i])
          /\ \A i \in 1 .. Len(top.sizes) : top.sizes[i] = Wanted(top.order[i])

CallInv == OuterCallsNested /\ (stack # <<>> /\ ~top.nested => Undisturbed)

\* The innermost call is a frame.
LEMMA TopType == ASSUME TypeOK, stack # <<>> PROVE top \in Frame
  BY SMTT(40), Z3T(40) DEF TypeOK, top

\* Building a join relation appends to the sizes of the innermost call and
\* leaves the rest of the stack alone.
LEMMA BuildJoinFrame ==
  ASSUME TypeOK, OuterCallsNested, stack # <<>>, NEW r \in Rows, BuildJoin(r)
  PROVE  /\ stack' # <<>> /\ OuterCallsNested'
         /\ top'.query = top.query /\ top'.pass = top.pass /\ top'.order = top.order
         /\ top'.sizes = Append(top.sizes, r) /\ top'.nested = top.nested
         /\ top'.caught = top.caught /\ Len(stack') = Len(stack)
         /\ \A k \in 2 .. Len(stack) : stack'[k] = stack[k]
  <1>1. top \in Frame
    BY TopType
  <1>2. stack' = [stack EXCEPT ![1] = [top EXCEPT !.sizes = Append(@, r)]]
    BY Zenon DEF BuildJoin, TypeOK, top
  <1> DEFINE f == [top EXCEPT !.sizes = Append(@, r)]
  <1>6. stack' = [stack EXCEPT ![1] = f] /\ stack \in Seq(Frame) /\ Len(stack) >= 1
    BY SMTT(40), Z3T(40), <1>2 DEF TypeOK
  <1>3. top' = f /\ Len(stack') = Len(stack)
    <2> HIDE DEF f
    <2> QED BY SMTT(40), Z3T(40), <1>6 DEF top
  <1>4. \A k \in 2 .. Len(stack) : stack'[k] = stack[k]
    BY SMTT(40), Z3T(40), <1>2 DEF TypeOK
  <1>5. stack' # <<>>
    BY SMTT(40), Z3T(40), <1>3 DEF TypeOK
  <1> QED BY Zenon, <1>1, <1>3, <1>4, <1>5 DEF Frame, OuterCallsNested

\* When the innermost calls are gone, returned or unwound, what is left was
\* interrupted.
LEMMA OuterCallsLeft ==
  ASSUME TypeOK, OuterCallsNested, NEW n \in Nat, n < Len(stack), Len(stack') = n,
         \A k \in 1 .. n : stack'[k].nested = stack[Len(stack) - n + k].nested
  PROVE  CallInv'
  <1>1. stack \in Seq(Frame) /\ Len(stack) \in Nat
    BY SMTT(40), Z3T(40) DEF TypeOK
  <1>2. \A k \in 1 .. n : Len(stack) - n + k \in 2 .. Len(stack)
    BY SMTT(40), Z3T(40), <1>1
  <1>3. \A k \in 1 .. n : stack'[k].nested
    BY Zenon, <1>2 DEF OuterCallsNested
  <1>4. stack' # <<>> => n >= 1
    BY SMTT(40), Z3T(40), <1>1
  <1>5. stack' # <<>> => top'.nested
    BY SMTT(40), Z3T(40), <1>3, <1>4 DEF top
  <1> QED BY SMTT(40), Z3T(40), <1>3, <1>5 DEF CallInv, OuterCallsNested

\* A planner() call that returns leaves the ones below it as they are.
LEMMA ReturnFrames ==
  ASSUME TypeOK, PlannerReturn
  PROVE  /\ Len(stack) - 1 \in Nat /\ Len(stack) - 1 < Len(stack)
         /\ Len(stack') = Len(stack) - 1
         /\ \A k \in 1 .. Len(stack) - 1 : stack'[k] = stack[k + 1]
  <1>1. stack \in Seq(Frame) /\ stack # <<>> /\ stack' = Tail(stack)
    BY Zenon DEF PlannerReturn, TypeOK
  <1> QED BY SMTT(40), Z3T(40), <1>1

\* An undisturbed call keeps the globals to itself, from its entry to its end.
LEMMA CallsKeepGlobals == Fixed => (Spec => []CallInv)
  <1> SUFFICES ASSUME Fixed PROVE Spec => []CallInv
    OBVIOUS
  <1>1. Init => CallInv
    BY SMTT(40), Z3T(40) DEF Init, CallInv, OuterCallsNested
  <1>2. TypeOK /\ TypeOK' /\ CallInv /\ [Next]_vars => CallInv'
    <2> SUFFICES ASSUME TypeOK, TypeOK', CallInv, [Next]_vars PROVE CallInv'
      OBVIOUS
    <2> USE LeroAssumption
    <2> DEFINE n == Len(top.sizes)
    <2>1. CASE SetGUC
      BY Zenon, <2>1 DEF CallInv, OuterCallsNested, SetGUC
    <2>2. ASSUME NEW q \in Query, Planner(q) PROVE CallInv'
      <3>1. PICK o \in Orders[q] :
              stack' = <<StartPass(q, IF enable_lero THEN "record" ELSE "standard", o,
                                   FALSE, FALSE)>> \o Interrupted
        BY Zenon, <2>2 DEF Planner
      <3> DEFINE f == StartPass(q, IF enable_lero THEN "record" ELSE "standard", o, FALSE, FALSE)
      <3>2. f \in Frame
        BY Zenon, StartPassType DEF Pass
      <3>3. Interrupted \in Seq(Frame) /\ Len(Interrupted) = Len(stack)
        BY InterruptedType
      <3>4. /\ stack' # <<>> /\ Len(stack') = Len(stack) + 1 /\ stack'[1] = f
            /\ \A k \in 2 .. Len(stack) + 1 : stack'[k] = Interrupted[k - 1]
        <4> HIDE DEF f
        <4>1. <<f>> \in Seq(Frame) /\ Len(<<f>>) = 1 /\ <<f>>[1] = f
          BY SMTT(40), Z3T(40), <3>2
        <4>2. stack' = <<f>> \o Interrupted
          BY Zenon, <3>1 DEF f
        <4>3. Len(stack) \in Nat
          BY SMTT(40), Z3T(40) DEF TypeOK
        <4> QED BY SMTT(40), Z3T(40), <3>3, <4>1, <4>2, <4>3
      <3>5. OuterCallsNested'
        <4>1. Len(stack) \in Nat
          BY SMTT(40), Z3T(40) DEF TypeOK
        <4>2. \A k \in 2 .. Len(stack) + 1 : k - 1 \in 1 .. Len(stack)
          BY SMTT(40), Z3T(40), <4>1
        <4>3. \A k \in 2 .. Len(stack) + 1 : Interrupted[k - 1].nested
          BY <4>2, InterruptedType
        <4> QED BY Zenon, <3>4, <4>3 DEF OuterCallsNested
      <3>6. /\ top'.query = q /\ top'.order = o /\ top'.sizes = <<>>
            /\ top'.pass = IF enable_lero THEN "record" ELSE "standard"
        BY SMTT(40), Z3T(40), <3>4 DEF StartPass, top
      <3>7. o \in Seq(Join)
        OBVIOUS
      <3>8. CASE enable_lero
        BY SMTT(40), Z3T(40), <2>2, <3>5, <3>6, <3>7, <3>8
        DEF CallInv, Undisturbed, Planner, ResetCounters, Recorded, gucs
      <3>9. CASE ~enable_lero
        BY SMTT(40), Z3T(40), <2>2, <3>5, <3>6, <3>7, <3>9 DEF CallInv, Undisturbed, Planner, gucs
      <3> QED BY <3>8, <3>9
    <2>3. CASE StandardJoin
      <3>1. Est(NextJoin) \in Rows /\ top \in Frame /\ OuterCallsNested
        BY Zenon, <2>3, NextJoinType, EstType, TopType DEF StandardJoin, CallInv
      <3>2. /\ stack' # <<>> /\ OuterCallsNested'
            /\ top'.query = top.query /\ top'.pass = top.pass /\ top'.order = top.order
            /\ top'.sizes = Append(top.sizes, Est(NextJoin)) /\ top'.nested = top.nested
        BY Zenon, <2>3, <3>1, BuildJoinFrame DEF StandardJoin
      <3>3. CASE top.nested
        BY Zenon, <3>2, <3>3 DEF CallInv
      <3>4. CASE ~top.nested
        <4>1. Undisturbed /\ top.pass # "replay" /\ top.pass # "record"
          BY Zenon, <2>3, <3>4 DEF StandardJoin, CallInv, Undisturbed
        <4>2. Len(top'.sizes) = n + 1 /\ n + 1 <= Len(top.order)
          BY SMTT(40), Z3T(40), <2>3, <3>1, <3>2 DEF StandardJoin, PassDone, Frame
        <4> QED BY Zenon, <2>3, <3>2, <4>1, <4>2 DEF StandardJoin, CallInv, Undisturbed, gucs
      <3> QED BY <3>3, <3>4
    <2>4. CASE RecordJoin
      <3>1. rows' \in Rows /\ rows' = Est(NextJoin) /\ top \in Frame /\ OuterCallsNested
        BY Zenon, <2>4, NextJoinType, EstType, TopType DEF RecordJoin, CallInv
      <3>2. /\ stack' # <<>> /\ OuterCallsNested'
            /\ top'.query = top.query /\ top'.pass = top.pass /\ top'.order = top.order
            /\ top'.sizes = Append(top.sizes, rows') /\ top'.nested = top.nested
        BY Zenon, <2>4, <3>1, BuildJoinFrame DEF RecordJoin
      <3>3. CASE top.nested
        BY Zenon, <3>2, <3>3 DEF CallInv
      <3>4. CASE ~top.nested
        <4>1. Undisturbed /\ top.pass = "record"
          BY Zenon, <2>4, <3>1, <3>4 DEF RecordJoin, CallInv, Undisturbed, Frame, Pass
        <4>2. Len(top'.sizes) = n + 1 /\ n + 1 <= Len(top.order) /\ n \in Nat
          BY SMTT(40), Z3T(40), <2>4, <3>1, <3>2 DEF RecordJoin, PassDone, Frame
        <4>3. \A i \in 1 .. n + 1 :
                 /\ original_card_list'[i - 1] = Est(top.order[i])
                 /\ join_input_table_nums'[i - 1] = NumTables[top.order[i]]
          <5>1. n = join_card_num /\ Recorded(top.order, n) /\ n \in Slot
            BY SMTT(40), Z3T(40), <2>4, <4>1, <4>2 DEF Undisturbed, RecordJoin, CardsFull, Slot
          <5>2. TAKE i \in 1 .. n + 1
          <5>3. CASE i = n + 1
            BY SMTT(40), Z3T(40), <2>4, <3>1, <4>2, <5>1, <5>3 DEF RecordJoin, NextJoin, TypeOK
          <5>4. CASE i \in 1 .. n
            BY SMTT(40), Z3T(40), <2>4, <4>2, <5>1, <5>4 DEF RecordJoin, Recorded, TypeOK, Slot
          <5> QED BY SMTT(40), Z3T(40), <4>2, <5>3, <5>4
        <4>4. Undisturbed'
          BY Zenon, <2>4, <3>2, <4>1, <4>2, <4>3 DEF RecordJoin, Undisturbed, gucs, Recorded
        <4> QED BY Zenon, <3>2, <4>4 DEF CallInv
      <3> QED BY <3>3, <3>4
    <2>5. CASE RecordJoinFull
      <3>1. rows \in Rows /\ top \in Frame /\ OuterCallsNested /\ top.query \in Query
        BY Zenon, <2>5, TopType DEF RecordJoinFull, CallInv, TypeOK, Frame
      <3>2. CASE top.nested
        <4>1. stack' # <<>> /\ OuterCallsNested' /\ top'.nested = top.nested
          BY Zenon, <2>5, <3>1, BuildJoinFrame DEF RecordJoinFull
        <4> QED BY Zenon, <3>2, <4>1 DEF CallInv
      <3>3. CASE ~top.nested
        <4>1. Undisturbed /\ top.pass = "record"
          BY Zenon, <2>5, <3>1, <3>3 DEF RecordJoinFull, CallInv, Undisturbed, Frame, Pass
        <4>2. Len(top.order) <= CARD_MAX_NUM /\ join_card_num < Len(top.order)
          BY SMTT(40), Z3T(40), <2>5, <3>1, <4>1 DEF RecordJoinFull, Undisturbed, Fixed, PassDone, Frame
        <4> QED BY SMTT(40), Z3T(40), <2>5, <3>1, <4>2 DEF RecordJoinFull, CardsFull, TypeOK, Frame
      <3> QED BY <3>2, <3>3
    <2>6. CASE ReplayJoin
      <3>1. rows' \in Rows /\ top \in Frame /\ OuterCallsNested
        BY Zenon, <2>6, TopType DEF ReplayJoin, CallInv, TypeOK
      <3>2. /\ stack' # <<>> /\ OuterCallsNested'
            /\ top'.query = top.query /\ top'.pass = top.pass /\ top'.order = top.order
            /\ top'.sizes = Append(top.sizes, rows') /\ top'.nested = top.nested
        BY Zenon, <2>6, <3>1, BuildJoinFrame DEF ReplayJoin
      <3>3. CASE top.nested
        BY Zenon, <3>2, <3>3 DEF CallInv
      <3>4. CASE ~top.nested
        <4>1. Undisturbed /\ top.pass = "replay"
          BY Zenon, <2>6, <3>1, <3>4 DEF ReplayJoin, CallInv, Undisturbed, Frame, Pass
        <4>2. n \in Nat /\ n < Len(top.order) /\ cur_card_idx = n /\ join_card_num = Len(top.order)
          BY SMTT(40), Z3T(40), <2>6, <3>1, <4>1 DEF ReplayJoin, Undisturbed, PassDone, Frame
        <4>3. rows' = lero_card_list[n] /\ cur_card_idx' = n + 1
          BY Zenon, <2>6, <4>2 DEF ReplayJoin, ReplayCard
        <4>4. rows' = Wanted(top.order[n + 1])
          <5>1. n + 1 \in 1 .. Len(top.order) /\ (n + 1) - 1 = n
            BY SMTT(40), Z3T(40), <3>1, <4>2 DEF Frame
          <5> QED BY Zenon, <4>1, <4>3, <5>1 DEF Undisturbed
        <4>5. Len(top'.sizes) = n + 1 /\ \A i \in 1 .. n : top'.sizes[i] = top.sizes[i]
          BY SMTT(40), Z3T(40), <3>1, <3>2 DEF Frame
        <4>6. top'.sizes[n + 1] = rows'
          BY SMTT(40), Z3T(40), <3>1, <3>2 DEF Frame
        <4>7. \A i \in 1 .. n + 1 : top'.sizes[i] = Wanted(top.order[i])
          <5>1. \A i \in 1 .. n : top.sizes[i] = Wanted(top.order[i])
            BY Zenon, <4>1 DEF Undisturbed
          <5>2. \A i \in 1 .. n + 1 : i \in 1 .. n \/ i = n + 1
            BY SMTT(40), Z3T(40), <4>2
          <5> QED BY <4>4, <4>5, <4>6, <5>1, <5>2
        <4>8. \A j : Wanted(j)' = Wanted(j)
          BY Zenon, <2>6 DEF ReplayJoin, gucs, Wanted, Swung, Est
        <4>9. Undisturbed'
          BY SMTT(40), Z3T(40), <2>6, <3>2, <4>1, <4>2, <4>3, <4>5, <4>7, <4>8 DEF Undisturbed, ReplayJoin, gucs
        <4> QED BY Zenon, <3>2, <4>9 DEF CallInv
      <3> QED BY <3>3, <3>4
    <2>7. CASE SwingCards
      <3>1. /\ top \in Frame /\ top.pass = "record"
            /\ Tail(stack) \in Seq(Frame) /\ Len(stack) \in Nat /\ Len(stack) >= 1
            /\ Len(Tail(stack)) = Len(stack) - 1
            /\ \A k \in 1 .. Len(stack) - 1 : Tail(stack)[k] = stack[k + 1]
        BY SMTT(40), Z3T(40), <2>7, TopType DEF SwingCards, TypeOK
      <3>2. PICK o \in Orders[top.query] :
              stack' = <<StartPass(top.query, "replay", o, top.nested, top.caught)>> \o Tail(stack)
        BY Zenon, <2>7 DEF SwingCards
      <3> DEFINE f == StartPass(top.query, "replay", o, top.nested, top.caught)
      <3>3. f \in Frame
        <4>1. top.query \in Query /\ top.nested \in BOOLEAN /\ top.caught \in BOOLEAN
          BY Zenon, <3>1 DEF Frame
        <4> QED BY Zenon, <4>1, StartPassType DEF Pass
      <3>4. /\ stack' # <<>> /\ Len(stack') = Len(stack) /\ stack'[1] = f
            /\ \A k \in 2 .. Len(stack) : stack'[k] = Tail(stack)[k - 1]
        <4> HIDE DEF f
        <4>1. <<f>> \in Seq(Frame) /\ Len(<<f>>) = 1 /\ <<f>>[1] = f
          BY SMTT(40), Z3T(40), <3>3
        <4>2. stack' = <<f>> \o Tail(stack)
          BY Zenon, <3>2 DEF f
        <4> QED BY SMTT(40), Z3T(40), <3>1, <4>1, <4>2
      <3>5. OuterCallsNested'
        <4>1. \A k \in 2 .. Len(stack) : stack'[k] = stack[k]
          <5>1. \A k \in 2 .. Len(stack) : k - 1 \in 1 .. Len(stack) - 1 /\ (k - 1) + 1 = k
            BY SMTT(40), Z3T(40), <3>1
          <5> QED BY <3>1, <3>4, <5>1
        <4> QED BY Zenon, <3>4, <4>1 DEF CallInv, OuterCallsNested
      <3>6. /\ top'.query = top.query /\ top'.pass = "replay" /\ top'.order = o
            /\ top'.sizes = <<>> /\ top'.nested = top.nested
        BY SMTT(40), Z3T(40), <3>4 DEF StartPass, top
      <3>7. CASE top.nested
        BY Zenon, <3>5, <3>6, <3>7 DEF CallInv
      <3>8. CASE ~top.nested
        <4>1. Undisturbed
          BY Zenon, <2>7, <3>8 DEF CallInv, SwingCards
        <4>2. o = top.order /\ Len(o) \in Nat /\ Len(o) <= CARD_MAX_NUM
          BY SMTT(40), Z3T(40), <3>1, <4>1 DEF Undisturbed, Fixed, Frame
        <4>3. join_card_num = Len(o) /\ cur_card_idx = 0 /\ Recorded(o, Len(o)) /\ enable_lero
          BY SMTT(40), Z3T(40), <2>7, <3>1, <4>1, <4>2 DEF Undisturbed, SwingCards, PassDone, Frame
        <4>4. \A i \in 1 .. Len(o) : lero_card_list'[i - 1] = Wanted(o[i])
          <5> TAKE i \in 1 .. Len(o)
          <5>1. i - 1 \in Slot /\ i - 1 < join_card_num
            BY SMTT(40), Z3T(40), <4>2, <4>3 DEF Slot
          <5>2. lero_card_list'[i - 1] = SwungCard(i - 1)
            BY Zenon, <2>7, <5>1 DEF SwingCards, SwingCard
          <5>3. original_card_list[i - 1] = Est(o[i]) /\ join_input_table_nums[i - 1] = NumTables[o[i]]
            BY Zenon, <4>3 DEF Recorded
          <5> QED BY Zenon, <5>2, <5>3 DEF SwungCard, Wanted
        <4>5. \A j : Wanted(j)' = Wanted(j)
          BY Zenon, <2>7 DEF SwingCards, gucs, Wanted, Swung, Est
        <4>6. Undisturbed'
          BY SMTT(40), Z3T(40), <2>7, <3>6, <4>2, <4>3, <4>4, <4>5 DEF Undisturbed, SwingCards, gucs
        <4> QED BY Zenon, <3>5, <4>6 DEF CallInv
      <3> QED BY <3>7, <3>8
    <2>8. CASE PlannerReturn
      <3>1. /\ Len(stack) - 1 \in Nat /\ Len(stack) - 1 < Len(stack)
            /\ Len(stack') = Len(stack) - 1
            /\ \A k \in 1 .. Len(stack) - 1 : stack'[k] = stack[k + 1]
        BY <2>8, ReturnFrames
      <3>2. \A k \in 1 .. Len(stack) - 1 : Len(stack) - (Len(stack) - 1) + k = k + 1
        BY SMTT(40), Z3T(40) DEF TypeOK
      <3> QED BY Zenon, <3>1, <3>2, OuterCallsLeft DEF CallInv
    <2>9. ASSUME NEW k \in 0 .. MaxDepth, Unwind(k) PROVE CallInv'
      <3>1. k \in Nat /\ k < Len(stack)
        BY SMTT(40), Z3T(40), <2>9 DEF Unwind
      <3> QED BY Zenon, <2>9, <3>1, UnwindType, OuterCallsLeft DEF CallInv
    <2>10. CASE UNCHANGED vars
      <3>1. \A j : Wanted(j)' = Wanted(j)
        BY Zenon, <2>10 DEF vars, Wanted, Swung, Est
      <3> QED BY <2>10, <3>1
          DEF CallInv, OuterCallsNested, Undisturbed, vars, Recorded, top
    <2> QED
      BY <2>1, <2>2, <2>3, <2>4, <2>5, <2>6, <2>7, <2>8, <2>9, <2>10
      DEF Next, Error, RecordJoinUnsupported
  <1> QED BY <1>1, <1>2, TypeCorrect, PTL DEF Spec

\* A planner() call that makes no other one scales exactly the joins it should
\* in the pass whose plan is used: recording and replay agree position by
\* position, whatever calls surround it and whatever ERRORs ended others.
THEOREM UndisturbedCallsFaithful == Fixed => (Spec => []UndisturbedReplayFaithful)
  <1> SUFFICES ASSUME Fixed PROVE Spec => []UndisturbedReplayFaithful
    OBVIOUS
  <1>1. Spec => []CallInv
    BY CallsKeepGlobals
  <1>2. TypeOK /\ CallInv => UndisturbedReplayFaithful
    <2> SUFFICES ASSUME TypeOK, CallInv, NEW k \in 1 .. Len(stack), ~stack[k].nested
                 PROVE  Faithful(stack[k])
      BY Zenon DEF UndisturbedReplayFaithful
    <2>1. k = 1 /\ stack # <<>>
      BY SMTT(40), Z3T(40) DEF CallInv, OuterCallsNested, TypeOK
    <2> QED BY Zenon, <2>1 DEF CallInv, Undisturbed, Faithful, top
  <1> QED BY <1>1, <1>2, TypeCorrect, PTL

-----------------------------------------------------------------------------
(* What an interrupted call takes from the ones made inside it. *)

\* ERRORs are caught above the calls they mark: a call below a marked one is
\* marked too.
CaughtBelow ==
    \A j, k \in 1 .. Len(stack) : j < k /\ stack[j].caught => stack[k].caught

\* The recording left behind by a call that ran to its end: nothing of it is
\* read any more.
Spent == enable_lero => ~record_original_card_phase /\ cur_card_idx = join_card_num

\* A call that goes on after another one was made inside it finds a spent
\* recording, and leaves it spent.
OwnInv ==
    /\ OwnEstimates
    /\ CaughtBelow
    /\ stack # <<>> /\ top.nested /\ ~top.caught => Spent

\* The innermost call builds a join relation with one of its own two estimates.
LEMMA OwnBuild ==
  ASSUME TypeOK, OwnEstimates, CaughtBelow, OuterCallsNested, stack # <<>>,
         NEW r \in Rows, BuildJoin(r), UNCHANGED lero_subquery_table_num,
         ~top.caught => r \in {Est(NextJoin), Wanted(NextJoin)}
  PROVE  OwnEstimates' /\ CaughtBelow'
  <1>1. /\ top'.order = top.order /\ top'.sizes = Append(top.sizes, r)
        /\ top'.caught = top.caught /\ Len(stack') = Len(stack)
        /\ \A k \in 2 .. Len(stack) : stack'[k] = stack[k]
    BY Zenon, BuildJoinFrame
  <1>2. Len(stack) \in Nat /\ 1 \in 1 .. Len(stack) /\ top \in Frame
    BY SMTT(40), Z3T(40), TopType DEF TypeOK
  <1>3. \A k \in 1 .. Len(stack) : k = 1 \/ k \in 2 .. Len(stack)
    BY SMTT(40), Z3T(40), <1>2
  <1>4. \A k \in 1 .. Len(stack) : stack'[k].caught = stack[k].caught
    BY Zenon, <1>1, <1>3 DEF top
  <1>5. \A j : Wanted(j)' = Wanted(j) /\ Est(j)' = Est(j)
    BY Zenon DEF Wanted, Swung, Est
  <1>6. ASSUME ~top.caught, NEW i \in 1 .. Len(top'.sizes)
        PROVE  top'.sizes[i] \in {Est(top.order[i]), Wanted(top.order[i])}
    <2>1. Len(top.sizes) \in Nat /\ Len(top'.sizes) = Len(top.sizes) + 1
      BY SMTT(40), Z3T(40), <1>1, <1>2 DEF Frame
    <2>2. CASE i = Len(top.sizes) + 1
      <3>1. top'.sizes[i] = r
        BY SMTT(40), Z3T(40), <1>1, <1>2, <2>2 DEF Frame
      <3> QED BY Zenon, <1>6, <2>2, <3>1 DEF NextJoin
    <2>3. CASE i \in 1 .. Len(top.sizes)
      <3>1. top'.sizes[i] = top.sizes[i]
        BY SMTT(40), Z3T(40), <1>1, <1>2, <2>3 DEF Frame
      <3> QED BY Zenon, <1>2, <1>6, <2>3, <3>1 DEF OwnEstimates, top
    <2> QED BY SMTT(40), Z3T(40), <2>1, <2>2, <2>3
  <1>7. OwnEstimates'
    <2> SUFFICES ASSUME NEW k \in 1 .. Len(stack), ~stack'[k].caught,
                        NEW i \in 1 .. Len(stack'[k].sizes)
                 PROVE  stack'[k].sizes[i]
                          \in {Est(stack'[k].order[i]), Wanted(stack'[k].order[i])}
      BY Zenon, <1>1, <1>5 DEF OwnEstimates
    <2>1. CASE k = 1
      BY Zenon, <1>1, <1>6, <2>1 DEF top
    <2>2. CASE k \in 2 .. Len(stack)
      BY Zenon, <1>1, <2>2 DEF OwnEstimates
    <2> QED BY <1>3, <2>1, <2>2
  <1> QED BY Zenon, <1>1, <1>4, <1>7 DEF CaughtBelow

\* An undisturbed replay is given the size that is wanted.
LEMMA ReplayWanted ==
  ASSUME TypeOK, CallInv, ReplayJoin, ~top.nested
  PROVE  rows' = Wanted(NextJoin)
  <1>1. top \in Frame /\ Undisturbed /\ top.pass = "replay"
    BY Zenon, TopType DEF ReplayJoin, CallInv, Undisturbed, Frame, Pass
  <1> DEFINE n == Len(top.sizes)
  <1>2. /\ n \in Nat /\ cur_card_idx = n /\ n < join_card_num
        /\ n + 1 \in 1 .. Len(top.order) /\ (n + 1) - 1 = n
    BY SMTT(40), Z3T(40), <1>1 DEF ReplayJoin, Undisturbed, PassDone, Frame
  <1>3. rows' = lero_card_list[n]
    BY Zenon, <1>2 DEF ReplayJoin, ReplayCard
  <1> QED BY Zenon, <1>1, <1>2, <1>3 DEF Undisturbed, NextJoin

\* The arrays do not fill up while an undisturbed call records.
LEMMA RoomLeft ==
  ASSUME Fixed, TypeOK, CallInv, stack # <<>>, RecordJoinFull
  PROVE  top.nested
  <1> SUFFICES ASSUME ~top.nested PROVE FALSE
    OBVIOUS
  <1>1. top \in Frame /\ top.query \in Query /\ Undisturbed /\ top.pass = "record"
    BY Zenon, TopType DEF RecordJoinFull, CallInv, Undisturbed, Frame, Pass
  <1>2. Len(top.order) <= CARD_MAX_NUM /\ join_card_num < Len(top.order)
    BY SMTT(40), Z3T(40), <1>1 DEF RecordJoinFull, Undisturbed, Fixed, PassDone, Frame
  <1> QED BY SMTT(40), Z3T(40), <1>1, <1>2, LeroAssumption
      DEF RecordJoinFull, CardsFull, TypeOK, Frame

\* A call that runs to its end leaves a spent recording.
LEMMA LeftSpent ==
  ASSUME TypeOK, CallInv, OwnInv, PlannerReturn, ~top.caught
  PROVE  Spent
  <1>1. CASE top.nested
    BY Zenon, <1>1 DEF OwnInv, PlannerReturn
  <1>2. CASE ~top.nested
    <2>1. top \in Frame /\ Undisturbed
      BY Zenon, <1>2, TopType DEF PlannerReturn, CallInv
    <2>2. CASE enable_lero
      <3>1. top.pass = "replay"
        BY Zenon, <2>1, <2>2 DEF PlannerReturn, Undisturbed, Frame, Pass
      <3> QED BY SMTT(40), Z3T(40), <2>1, <3>1 DEF PlannerReturn, PassDone, Undisturbed, Spent, Frame
    <2> QED BY Zenon, <2>2 DEF Spent
  <1> QED BY <1>1, <1>2

\* However planner() calls nest, one that other calls interrupted gives every
\* join relation an estimate of its own, for any queries and any depth, as long
\* as no ERROR was caught inside it.
THEOREM InterruptedCallsOwn == Fixed => (Spec => []OwnEstimates)
  <1> SUFFICES ASSUME Fixed PROVE Spec => []OwnEstimates
    OBVIOUS
  <1>1. Spec => []CallInv
    BY CallsKeepGlobals
  <1>2. Init => OwnInv
    BY SMTT(40), Z3T(40) DEF Init, OwnInv, OwnEstimates, CaughtBelow
  <1>3. TypeOK /\ TypeOK' /\ CallInv /\ OwnInv /\ [Next]_vars => OwnInv'
    <2> SUFFICES ASSUME TypeOK, TypeOK', CallInv, OwnInv, [Next]_vars PROVE OwnInv'
      OBVIOUS
    <2> USE LeroAssumption
    <2>1. CASE SetGUC
      <3>1. stack' = <<>>
        BY Zenon, <2>1 DEF SetGUC
      <3> QED BY SMTT(40), Z3T(40), <3>1 DEF OwnInv, OwnEstimates, CaughtBelow
    <2>2. ASSUME NEW q \in Query, Planner(q) PROVE OwnInv'
      <3>1. PICK o \in Orders[q] :
              stack' = <<StartPass(q, IF enable_lero THEN "record" ELSE "standard", o,
                                   FALSE, FALSE)>> \o Interrupted
        BY Zenon, <2>2 DEF Planner
      <3> DEFINE f == StartPass(q, IF enable_lero THEN "record" ELSE "standard", o,
                                FALSE, FALSE)
      <3>2. f \in Frame /\ ~f.caught /\ ~f.nested /\ f.sizes = <<>>
        BY Zenon, StartPassType DEF Pass, StartPass
      <3>3. Interrupted \in Seq(Frame) /\ Len(Interrupted) = Len(stack) /\ Len(stack) \in Nat
        BY SMTT(40), Z3T(40), InterruptedType DEF TypeOK
      <3>4. /\ Len(stack') = Len(stack) + 1 /\ stack'[1] = f
            /\ \A k \in 2 .. Len(stack) + 1 : stack'[k] = Interrupted[k - 1]
        <4>1. stack' = <<f>> \o Interrupted
          BY Zenon, <3>1
        <4> HIDE DEF f
        <4> QED BY SMTT(40), Z3T(40), <3>2, <3>3, <4>1
      <3> HIDE DEF f
      <3>5. \A k \in 2 .. Len(stack) + 1 : k - 1 \in 1 .. Len(stack)
        BY SMTT(40), Z3T(40), <3>3
      <3>6. \A k \in 2 .. Len(stack) + 1 :
               /\ stack'[k].caught = stack[k - 1].caught
               /\ stack'[k].order = stack[k - 1].order
               /\ stack'[k].sizes = stack[k - 1].sizes
        BY Zenon, <3>4, <3>5, InterruptedType
      <3>7. \A k \in 1 .. Len(stack) + 1 : k = 1 \/ k \in 2 .. Len(stack) + 1
        BY SMTT(40), Z3T(40), <3>3
      <3>8. \A j : Wanted(j)' = Wanted(j) /\ Est(j)' = Est(j)
        BY Zenon, <2>2 DEF Planner, gucs, Wanted, Swung, Est
      <3>9. OwnEstimates'
        <4> SUFFICES ASSUME NEW k \in 1 .. Len(stack) + 1, ~stack'[k].caught,
                            NEW i \in 1 .. Len(stack'[k].sizes)
                     PROVE  stack'[k].sizes[i]
                              \in {Est(stack'[k].order[i]), Wanted(stack'[k].order[i])}
          BY Zenon, <3>4, <3>8 DEF OwnEstimates
        <4>1. CASE k = 1
          BY SMTT(40), Z3T(40), <3>2, <3>4, <4>1
        <4>2. CASE k \in 2 .. Len(stack) + 1
          BY Zenon, <3>5, <3>6, <4>2 DEF OwnInv, OwnEstimates
        <4> QED BY <3>7, <4>1, <4>2
      <3>10. CaughtBelow'
        <4> SUFFICES ASSUME NEW j \in 1 .. Len(stack) + 1, NEW k \in 1 .. Len(stack) + 1,
                            j < k, stack'[j].caught
                     PROVE  stack'[k].caught
          BY Zenon, <3>4 DEF CaughtBelow
        <4>1. j \in 2 .. Len(stack) + 1 /\ k \in 2 .. Len(stack) + 1 /\ j - 1 < k - 1
          BY SMTT(40), Z3T(40), <3>2, <3>3, <3>4
        <4> QED BY Zenon, <3>5, <3>6, <4>1 DEF OwnInv, CaughtBelow
      <3> QED BY Zenon, <3>2, <3>4, <3>9, <3>10 DEF OwnInv, top
    <2>3. CASE StandardJoin
      <3>1. Est(NextJoin) \in Rows
        BY Zenon, <2>3, NextJoinType, EstType DEF StandardJoin
      <3>2. OwnEstimates' /\ CaughtBelow'
        BY Zenon, <2>3, <3>1, OwnBuild DEF StandardJoin, OwnInv, CallInv, gucs
      <3> QED BY Zenon, <2>3, <3>2 DEF OwnInv, Spent, StandardJoin, gucs
    <2>4. CASE RecordJoin
      <3>1. rows' \in Rows /\ rows' = Est(NextJoin)
        BY Zenon, <2>4, NextJoinType, EstType DEF RecordJoin
      <3>2. OwnEstimates' /\ CaughtBelow'
        BY Zenon, <2>4, <3>1, OwnBuild DEF RecordJoin, OwnInv, CallInv, gucs
      <3>3. top'.nested = top.nested /\ top'.caught = top.caught
        BY Zenon, <2>4, <3>1, BuildJoinFrame DEF RecordJoin, CallInv
      <3> QED BY Zenon, <2>4, <3>2, <3>3 DEF OwnInv, Spent, RecordJoin
    <2>5. CASE RecordJoinFull
      <3>1. top.caught
        BY Zenon, <2>5, RoomLeft DEF RecordJoinFull, OwnInv, Spent
      <3>2. OwnEstimates' /\ CaughtBelow'
        BY Zenon, <2>5, <3>1, OwnBuild DEF RecordJoinFull, OwnInv, CallInv, gucs, TypeOK
      <3>3. top'.caught = top.caught
        BY Zenon, <2>5, BuildJoinFrame DEF RecordJoinFull, CallInv, TypeOK
      <3> QED BY Zenon, <3>1, <3>2, <3>3 DEF OwnInv
    <2>6. CASE ReplayJoin
      <3>1. rows' \in Rows
        BY Zenon DEF TypeOK
      <3>2. /\ top'.nested = top.nested /\ top'.caught = top.caught
        BY Zenon, <2>6, <3>1, BuildJoinFrame DEF ReplayJoin, CallInv
      <3>3. top.nested /\ ~top.caught => rows' = Est(NextJoin) /\ UNCHANGED cur_card_idx
        <4>1. top.nested /\ ~top.caught => cur_card_idx = join_card_num
          BY Zenon, <2>6 DEF OwnInv, Spent, ReplayJoin
        <4>2. cur_card_idx = join_card_num => ~(cur_card_idx < join_card_num)
          BY SMTT(40), Z3T(40) DEF TypeOK
        <4> QED BY Zenon, <2>6, <4>1, <4>2 DEF ReplayJoin
      <3>4. ~top.nested => rows' = Wanted(NextJoin)
        BY <2>6, ReplayWanted
      <3>5. ~top.caught => rows' \in {Est(NextJoin), Wanted(NextJoin)}
        BY Zenon, <3>3, <3>4
      <3>6. OwnEstimates' /\ CaughtBelow'
        BY Zenon, <2>6, <3>1, <3>5, OwnBuild DEF ReplayJoin, OwnInv, CallInv, gucs
      <3> QED BY Zenon, <2>6, <3>2, <3>3, <3>6 DEF OwnInv, Spent, ReplayJoin, gucs
    <2>7. CASE SwingCards
      <3>1. /\ top \in Frame /\ Len(stack) \in Nat /\ 1 \in 1 .. Len(stack)
            /\ Tail(stack) \in Seq(Frame) /\ Len(Tail(stack)) = Len(stack) - 1
            /\ \A k \in 2 .. Len(stack) : Tail(stack)[k - 1] = stack[k]
        BY SMTT(40), Z3T(40), <2>7, TopType DEF SwingCards, TypeOK
      <3>2. PICK o \in Orders[top.query] :
              stack' = <<StartPass(top.query, "replay", o, top.nested, top.caught)>>
                         \o Tail(stack)
        BY Zenon, <2>7 DEF SwingCards
      <3> DEFINE f == StartPass(top.query, "replay", o, top.nested, top.caught)
      <3>3. f.nested = top.nested /\ f.caught = top.caught /\ f.sizes = <<>>
        BY Zenon DEF StartPass
      <3>4. /\ Len(stack') = Len(stack) /\ stack'[1] = f
            /\ \A k \in 2 .. Len(stack) : stack'[k] = stack[k]
        <4>1. stack' = <<f>> \o Tail(stack)
          BY Zenon, <3>2
        <4>2. f \in Frame
          <5>1. top.query \in Query /\ top.nested \in BOOLEAN /\ top.caught \in BOOLEAN
            BY Zenon, <3>1 DEF Frame
          <5> QED BY Zenon, <5>1, StartPassType DEF Pass
        <4> HIDE DEF f
        <4>3. <<f>> \in Seq(Frame) /\ Len(<<f>>) = 1 /\ <<f>>[1] = f
          BY SMTT(40), Z3T(40), <4>2
        <4>4. Len(stack') = Len(stack) /\ stack'[1] = f
          BY SMTT(40), Z3T(40), <3>1, <4>1, <4>3
        <4>5. \A k \in 2 .. Len(stack) : stack'[k] = Tail(stack)[k - 1]
          BY SMTT(40), Z3T(40), <3>1, <4>1, <4>3
        <4> QED BY Zenon, <3>1, <4>4, <4>5
      <3> HIDE DEF f
      <3>5. \A k \in 1 .. Len(stack) : k = 1 \/ k \in 2 .. Len(stack)
        BY SMTT(40), Z3T(40), <3>1
      <3>6. \A j : Wanted(j)' = Wanted(j) /\ Est(j)' = Est(j)
        BY Zenon, <2>7 DEF SwingCards, gucs, Wanted, Swung, Est
      <3>7. OwnEstimates'
        <4> SUFFICES ASSUME NEW k \in 1 .. Len(stack), ~stack'[k].caught,
                            NEW i \in 1 .. Len(stack'[k].sizes)
                     PROVE  stack'[k].sizes[i]
                              \in {Est(stack'[k].order[i]), Wanted(stack'[k].order[i])}
          BY Zenon, <3>4, <3>6 DEF OwnEstimates
        <4>1. CASE k = 1
          BY SMTT(40), Z3T(40), <3>3, <3>4, <4>1
        <4>2. CASE k \in 2 .. Len(stack)
          BY Zenon, <3>4, <4>2 DEF OwnInv, OwnEstimates
        <4> QED BY <3>5, <4>1, <4>2
      <3>8. \A k \in 1 .. Len(stack) : stack'[k].caught = stack[k].caught
        BY Zenon, <3>3, <3>4, <3>5 DEF top
      <3>9. CaughtBelow'
        BY Zenon, <3>4, <3>8 DEF OwnInv, CaughtBelow
      <3>10. top'.nested = top.nested /\ top'.caught = top.caught
        BY Zenon, <3>3, <3>4 DEF top
      <3> QED BY Zenon, <2>7, <3>7, <3>9, <3>10 DEF OwnInv, Spent, SwingCards, gucs
    <2>8. CASE PlannerReturn
      <3>1. /\ Len(stack) \in Nat /\ Len(stack) >= 1 /\ Len(stack') = Len(stack) - 1
            /\ \A k \in 1 .. Len(stack) - 1 : stack'[k] = stack[k + 1]
        BY SMTT(40), Z3T(40), <2>8, ReturnFrames DEF TypeOK
      <3>2. \A k \in 1 .. Len(stack) - 1 : k + 1 \in 1 .. Len(stack)
        BY SMTT(40), Z3T(40), <3>1
      <3>3. \A j : Wanted(j)' = Wanted(j) /\ Est(j)' = Est(j)
        BY Zenon, <2>8 DEF PlannerReturn, gucs, Wanted, Swung, Est
      <3>4. OwnEstimates'
        BY Zenon, <3>1, <3>2, <3>3 DEF OwnInv, OwnEstimates
      <3>5. CaughtBelow'
        <4> SUFFICES ASSUME NEW j \in 1 .. Len(stack) - 1, NEW k \in 1 .. Len(stack) - 1,
                            j < k, stack'[j].caught
                     PROVE  stack'[k].caught
          BY Zenon, <3>1 DEF CaughtBelow
        <4>1. j + 1 < k + 1
          BY SMTT(40), Z3T(40), <3>1
        <4> QED BY Zenon, <3>1, <3>2, <4>1 DEF OwnInv, CaughtBelow
      <3>6. ASSUME stack' # <<>>, ~top'.caught PROVE ~top.caught
        <4>1. 1 \in 1 .. Len(stack) - 1 /\ 1 \in 1 .. Len(stack) /\ 2 \in 1 .. Len(stack) /\ 1 < 2
          BY SMTT(40), Z3T(40), <3>1, <3>6 DEF TypeOK
        <4>2. top' = stack[2]
          BY SMTT(40), Z3T(40), <3>1, <4>1 DEF top
        <4> QED BY Zenon, <3>6, <4>1, <4>2 DEF OwnInv, CaughtBelow, top
      <3>7. ~top.caught => Spent
        BY Zenon, <2>8, LeftSpent
      <3>8. Spent => Spent'
        BY Zenon, <2>8 DEF Spent, PlannerReturn, gucs, cards
      <3> QED BY Zenon, <3>4, <3>5, <3>6, <3>7, <3>8 DEF OwnInv
    <2>9. ASSUME NEW n \in 0 .. MaxDepth, Unwind(n) PROVE OwnInv'
      <3>1. Len(stack') = n /\ n \in Nat /\ \A k \in 1 .. n : stack'[k].caught
        BY Zenon, <2>9, UnwindType, SMT
      <3>2. stack' # <<>> => top'.caught
        BY SMTT(40), Z3T(40), <3>1 DEF top, TypeOK
      <3> QED BY Zenon, <3>1, <3>2 DEF OwnInv, OwnEstimates, CaughtBelow
    <2>10. CASE UNCHANGED vars
      <3>1. \A j : Wanted(j)' = Wanted(j) /\ Est(j)' = Est(j)
        BY Zenon, <2>10 DEF vars, Wanted, Swung, Est
      <3> QED BY Zenon, <2>10, <3>1 DEF vars, OwnInv, OwnEstimates, CaughtBelow, Spent, top
    <2> QED
      BY Zenon, <2>1, <2>2, <2>3, <2>4, <2>5, <2>6, <2>7, <2>8, <2>9, <2>10
      DEF Next, Error, RecordJoinUnsupported
  <1>4. OwnInv => OwnEstimates
    BY Zenon DEF OwnInv
  <1> QED BY <1>1, <1>2, <1>3, <1>4, TypeCorrect, PTL DEF Spec
=============================================================================
