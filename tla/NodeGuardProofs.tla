--------------------------- MODULE NodeGuardProofs ---------------------------
(***************************************************************************)
(* Proof that print_node_in_progress_ is set exactly while a context-menu   *)
(* Print() waits for its ScriptedPrint reply (NodeFlagTracksCaller), for   *)
(* every number of sessions and every set of page counts.                  *)
(*                                                                         *)
(* The property is not inductive alone: when the innermost waiting call is *)
(* PrintNode's and its reply clears the flag, no other waiting call may be *)
(* a PrintNode's.  The strengthening says that at most one waiting call is *)
(* PrintNode's, which holds because PrintNode is refused while the flag is *)
(* set.                                                                    *)
(***************************************************************************)
EXTENDS PrintSessionProofs

\* At most one waiting Print() call is PrintNode's.
NodeUnique ==
    \A i, j \in 1 .. Len(stack) :
        stack[i].origin = "node" /\ stack[j].origin = "node" => i = j

\* The inductive invariant of NodeFlagTracksCaller.
NInv == IInv /\ NodeFlagTracksCaller /\ NodeUnique

-----------------------------------------------------------------------------
(* Lemmas about the stack of waiting calls.                                 *)

\* Print() past its guard leaves the stack alone or pushes one call of its
\* own caller.
LEMMA CalculateStack ==
    ASSUME NEW origin, NEW silent, NEW bg,
           CalculateNumberOfPages(origin, silent, bg)
    PROVE  \/ stack' = stack
           \/ \E fr \in [sid : {nextSid}, origin : {origin}, bg : {bg},
                         fit : BOOLEAN, alive : {TRUE}] :
                  stack' = Append(stack, fr)
BY DEF CalculateNumberOfPages

\* Pushing a frame keeps the frames below it and puts it on top.
LEMMA PushFrame ==
    ASSUME NEW st \in Seq(Frame), NEW fr \in Frame
    PROVE  /\ Len(Append(st, fr)) = Len(st) + 1
           /\ Append(st, fr)[Len(st) + 1] = fr
           /\ \A i \in 1 .. Len(st) : Append(st, fr)[i] = st[i]
           /\ Append(st, fr) # st
<1>1. Len(Append(st, fr)) = Len(st) + 1
  BY AppendProperties
<1>. QED BY <1>1, AppendProperties

\* Popping the innermost frame keeps the frames below it.
LEMMA PopFrame ==
    ASSUME NEW st \in Seq(Frame), st # << >>
    PROVE  LET st2 == SubSeq(st, 1, Len(st) - 1) IN
           /\ Len(st) \in Nat /\ Len(st) >= 1
           /\ Len(st2) = Len(st) - 1
           /\ \A k \in 1 .. Len(st) - 1 : st2[k] = st[k]
<1>1. Len(st) \in Nat /\ Len(st) >= 1
  <2>1. Len(st) \in Nat \ {0}
    BY EmptySeq, LenProperties
  <2>. QED BY <2>1
<1>2. \A k \in 1 .. Len(st) - 1 : st[k] \in Frame
  BY <1>1, ElementOfSeq
<1>3. /\ Len(SubSeq(st, 1, Len(st) - 1)) = IF 1 <= Len(st) - 1 THEN Len(st) - 1 ELSE 0
      /\ \A k \in 1 .. Len(st) - 1 : SubSeq(st, 1, Len(st) - 1)[k] = st[1 + k - 1]
  BY <1>1, <1>2, SubSeqProperties
<1>4. Len(SubSeq(st, 1, Len(st) - 1)) = Len(st) - 1
  <2>1. CASE Len(st) = 1
    <3>1. SubSeq(st, 1, Len(st) - 1) = << >>
      BY <2>1, SubSeqEmpty
    <3>. QED BY <2>1, <3>1, EmptySeq
  <2>2. CASE Len(st) # 1
    <3>0. \A x \in Nat : x >= 1 /\ x # 1 => 1 <= x - 1
      OBVIOUS
    <3>1. 1 <= Len(st) - 1
      BY <1>1, <2>2, <3>0, Zenon
    <3>. QED BY <1>3, <3>1
  <2>. QED BY <2>1, <2>2
<1>5. \A k \in 1 .. Len(st) - 1 : SubSeq(st, 1, Len(st) - 1)[k] = st[k]
  BY <1>1, <1>3
<1>. QED BY <1>1, <1>4, <1>5

-----------------------------------------------------------------------------
(* What the stack operations do to the node flag.                           *)

\* A waiting call of another caller pushed on the stack leaves the flag and
\* the PrintNode call, if any, as they were.
LEMMA PushOther ==
    ASSUME NodeFlagTracksCaller, NodeUnique, stack \in Seq(Frame),
           NEW fr \in Frame, fr.origin # "node",
           stack' = Append(stack, fr), nodeInProgress' = nodeInProgress
    PROVE  NodeFlagTracksCaller' /\ NodeUnique'
<1>1. /\ Len(stack') = Len(stack) + 1
      /\ stack'[Len(stack) + 1] = fr
      /\ \A i \in 1 .. Len(stack) : stack'[i] = stack[i]
  BY PushFrame
<1>2. \A i \in 1 .. Len(stack') :
          stack'[i].origin = "node" <=> i \in 1 .. Len(stack) /\ stack[i].origin = "node"
  BY <1>1
<1>3. Len(stack) \in Nat /\ \A i \in 1 .. Len(stack) : i \in 1 .. Len(stack')
  BY <1>1
<1>4. (\E i \in 1 .. Len(stack') : stack'[i].origin = "node")
        <=> \E i \in 1 .. Len(stack) : stack[i].origin = "node"
  BY <1>2, <1>3
<1>5. NodeFlagTracksCaller'
  BY <1>4 DEF NodeFlagTracksCaller
<1>6. NodeUnique'
  BY <1>2 DEF NodeUnique
<1>. QED BY <1>5, <1>6

\* PrintNode's own call pushed while none waits sets the flag.
LEMMA PushNode ==
    ASSUME NodeFlagTracksCaller, ~nodeInProgress, stack \in Seq(Frame),
           NEW fr \in Frame, fr.origin = "node",
           stack' = Append(stack, fr), nodeInProgress' = TRUE
    PROVE  NodeFlagTracksCaller' /\ NodeUnique'
<1>1. /\ Len(stack') = Len(stack) + 1
      /\ stack'[Len(stack) + 1] = fr
      /\ \A i \in 1 .. Len(stack) : stack'[i] = stack[i]
  BY PushFrame
<1>2. \A i \in 1 .. Len(stack) : stack[i].origin # "node"
  BY DEF NodeFlagTracksCaller
<1>3. \A i \in 1 .. Len(stack') : stack'[i].origin = "node" <=> i = Len(stack) + 1
  BY <1>1, <1>2
<1>4. Len(stack) + 1 \in 1 .. Len(stack')
  BY <1>1
<1>5. NodeFlagTracksCaller'
  BY <1>1, <1>3, <1>4 DEF NodeFlagTracksCaller
<1>6. NodeUnique'
  BY <1>3 DEF NodeUnique
<1>. QED BY <1>5, <1>6

\* The innermost call leaves the stack: the flag is cleared if it was
\* PrintNode's, the only one, and kept otherwise.
LEMMA PopNode ==
    ASSUME NodeFlagTracksCaller, NodeUnique, stack \in Seq(Frame), stack # << >>,
           stack' = SubSeq(stack, 1, Len(stack) - 1),
           nodeInProgress' = IF stack[Len(stack)].origin = "node" THEN FALSE
                             ELSE nodeInProgress
    PROVE  NodeFlagTracksCaller' /\ NodeUnique'
<1>1. /\ Len(stack) \in Nat /\ Len(stack) >= 1
      /\ Len(stack') = Len(stack) - 1
      /\ \A k \in 1 .. Len(stack) - 1 : stack'[k] = stack[k]
  BY PopFrame
<1>2. \A k \in 1 .. Len(stack) - 1 : k \in 1 .. Len(stack) /\ k # Len(stack)
      /\ Len(stack) \in 1 .. Len(stack)
  BY <1>1
<1>3. NodeUnique'
  BY <1>1, <1>2 DEF NodeUnique
<1>4. CASE stack[Len(stack)].origin = "node"
  <2> SUFFICES NodeFlagTracksCaller'
    BY <1>3
  <2>1. \A k \in 1 .. Len(stack) - 1 : stack'[k].origin # "node"
    BY <1>1, <1>2, <1>4 DEF NodeUnique
  <2>. QED BY <1>1, <1>4, <2>1 DEF NodeFlagTracksCaller
<1>5. CASE stack[Len(stack)].origin # "node"
  <2> SUFFICES NodeFlagTracksCaller'
    BY <1>3
  <2>1. (\E i \in 1 .. Len(stack) : stack[i].origin = "node")
          <=> \E k \in 1 .. Len(stack) - 1 : stack[k].origin = "node"
    BY <1>2, <1>5
  <2>. QED BY <1>1, <1>5, <2>1 DEF NodeFlagTracksCaller
<1>. QED BY <1>4, <1>5

\* A step that keeps the flag and each waiting call's caller.
LEMMA SameNode ==
    ASSUME NodeFlagTracksCaller, NodeUnique, nodeInProgress' = nodeInProgress,
           Len(stack') = Len(stack),
           \A i \in 1 .. Len(stack) : stack'[i].origin = stack[i].origin
    PROVE  NodeFlagTracksCaller' /\ NodeUnique'
BY DEF NodeFlagTracksCaller, NodeUnique

-----------------------------------------------------------------------------
(* The theorems.                                                            *)

\* Print() from a caller other than PrintNode keeps the invariant.
LEMMA HelperPrintNode ==
    ASSUME IInv, NodeFlagTracksCaller, NodeUnique, NEW origin \in Origins,
           NEW silent, NEW bg \in BOOLEAN, HelperPrint(origin, silent, bg),
           \/ origin # "node" /\ nodeInProgress' = nodeInProgress
           \/ origin = "node" /\ ~nodeInProgress
              /\ nodeInProgress' = (stack' # stack)
    PROVE  NodeFlagTracksCaller' /\ NodeUnique'
<1>1. stack \in Seq(Frame) /\ nextSid \in 1 .. MaxSessions + 1
  BY DEF IInv, TypeOK
<1>2. CASE stack' = stack
  <2>0. nodeInProgress \in BOOLEAN
    BY DEF IInv, TypeOK
  <2>1. nodeInProgress' = nodeInProgress
    BY <1>2, <2>0, Zenon
  <2>. QED BY <1>2, <2>1, SameNode
<1>3. CASE prep = 0 /\ CalculateNumberOfPages(origin, silent, bg) /\ stack' # stack
  <2>1. PICK fr \in [sid : {nextSid}, origin : {origin}, bg : {bg},
                     fit : BOOLEAN, alive : {TRUE}] :
          stack' = Append(stack, fr)
    BY <1>3, CalculateStack
  <2>2. nextSid \in Sids
    BY <1>1, <1>3 DEF CalculateNumberOfPages, Sids
  <2>3. fr \in Frame /\ fr.origin = origin
    BY <2>2 DEF Frame
  <2>4. CASE origin # "node" /\ nodeInProgress' = nodeInProgress
    BY <1>1, <2>1, <2>3, <2>4, PushOther
  <2>5. CASE origin = "node" /\ ~nodeInProgress /\ nodeInProgress' = (stack' # stack)
    BY <1>1, <1>3, <2>1, <2>3, <2>5, PushNode
  <2>. QED BY <2>4, <2>5
<1>. QED BY <1>2, <1>3 DEF HelperPrint, vars

\* Every step keeps NInv.
THEOREM NInvNext == NInv /\ [Next]_vars => NInv'
<1> SUFFICES ASSUME IInv, NodeFlagTracksCaller, NodeUnique, [Next]_vars
             PROVE  NInv'
  BY DEF NInv
<1>0. IInv' /\ stack \in Seq(Frame)
  BY NextIInv DEF IInv, TypeOK
<1>1. NodeFlagTracksCaller' /\ NodeUnique'
  <2>1. CASE PrintPage \/ OnPrintPages
    BY <2>1, HelperPrintNode DEF PrintPage, OnPrintPages, Origins
  <2>2. CASE PrintNode
    <3>1. CASE nodeInProgress /\ UNCHANGED vars
      BY <3>1, SameNode DEF vars
    <3>2. CASE ~nodeInProgress /\ HelperPrint("node", FALSE, FALSE)
               /\ nodeInProgress' = (stack' # stack)
      BY <3>2, HelperPrintNode DEF Origins
    <3>. QED BY <2>2, <3>1, <3>2 DEF PrintNode
  <2>3. CASE ScriptedPrintReply
    BY <1>0, <2>3, PopNode DEF ScriptedPrintReply
  <2>4. CASE DetachFrame
    <3>1. PICK i \in 1 .. Len(stack) :
            /\ stack' = [stack EXCEPT ![i].alive = FALSE]
            /\ UNCHANGED nodeInProgress
      BY <2>4 DEF DetachFrame
    <3>2. /\ Len(stack') = Len(stack)
          /\ \A k \in 1 .. Len(stack) : stack'[k].origin = stack[k].origin
      BY <1>0, <3>1
    <3>. QED BY <3>1, <3>2, SameNode
  <2>5. CASE OnPrintingDone \/ DidStopLoading \/ RunPostedTask \/ Quiescent
             \/ UNCHANGED vars
    <3>1. UNCHANGED <<stack, nodeInProgress>>
      BY <2>5 DEF OnPrintingDone, DidStopLoading, RunPostedTask, Quiescent, vars
    <3>. QED BY <3>1, SameNode
  <2>. QED BY <2>1, <2>2, <2>3, <2>4, <2>5 DEF Next
<1>. QED BY <1>0, <1>1 DEF NInv

\* print_node_in_progress_ is set exactly while a context-menu Print() waits
\* for its ScriptedPrint reply: the reply of a Print() nested in its pump
\* leaves it set, so a second context-menu print stays refused, and its own
\* reply clears it, whatever the order of the nested calls.
THEOREM NodeFlagTracksCallerHolds == Spec => []NodeFlagTracksCaller
<1>1. Init => NInv
  <2> SUFFICES ASSUME Init PROVE NInv
    OBVIOUS
  <2>1. Len(stack) = 0 /\ nodeInProgress = FALSE
    BY EmptySeq DEF Init
  <2>2. 1 .. Len(stack) = {}
    BY <2>1
  <2>3. NodeFlagTracksCaller /\ NodeUnique
    BY <2>1, <2>2 DEF NodeFlagTracksCaller, NodeUnique
  <2>. QED BY <2>3, InitIInv DEF NInv
<1>2. NInv => NodeFlagTracksCaller
  BY DEF NInv
<1>. QED BY <1>1, <1>2, NInvNext, PTL DEF Spec

=============================================================================
