------------------------- MODULE PrintSessionProofs -------------------------
(***************************************************************************)
(* Proofs about PrintSession for every number of sessions and every set of *)
(* page counts: the type invariant, that the borrowed view is restored and *)
(* a copy view lives exactly as long as its prep_frame_view_, and that     *)
(* every notice the host receives carries the cookie of its own session.   *)
(*                                                                         *)
(* None of these is inductive alone.  The cookie of a notice sent from the *)
(* posted CallOnReady is read from print_pages_params_, so the proof needs *)
(* PrepOwnsParams (a live prep_frame_view_ owns the params); DidStopLoading *)
(* posts a task under the copy view's session, so it needs that a loading *)
(* copy view belongs to a live prep_frame_view_; and every step needs the  *)
(* borrowed view idle at its start to leave it idle at its end.            *)
(***************************************************************************)
EXTENDS PrintSession, SequenceTheorems, TLAPS

\* The notices received so far are well formed and carry their own cookie.
GoodMsgs(ms) ==
    /\ ms \subseteq Notice
    /\ \A m \in ms : m.kind # "invalid" => m.cookie = m.sid

\* Between handlers the borrowed view is back at its own size, out of
\* paginated-print mode and with backgrounds off (FinishPrinting, RestoreSize),
\* and a copy view is open exactly while the PrepareFrameAndViewForPrint that
\* owns it is prep_frame_view_ (the destructor closes it).
SurfacesReleased ==
    /\ origView = IdleView
    /\ copyView.sid = prep

\* A copy view that is still loading belongs to a live prep_frame_view_.
LoadingOwned == copyView.loading => copyView.sid # 0

\* The inductive invariant.
IInv ==
    /\ TypeOK
    /\ SurfacesReleased
    /\ PrepOwnsParams
    /\ LoadingOwned
    /\ GoodMsgs(msgs)

\* What the steps shared by several handlers leave behind, in the variables
\* they set: the part of IInv' about params, prep, notify, copyView, msgs and
\* origView.
SessionPost ==
    /\ params' \in Params \cup {NoParams}
    /\ prep' \in 0 .. MaxSessions
    /\ notify' \in BOOLEAN
    /\ origView' = IdleView
    /\ copyView' \in CopyView
    /\ copyView'.sid = prep'
    /\ prep' # 0 => params'.cookie = prep'
    /\ copyView'.loading => copyView'.sid # 0
    /\ GoodMsgs(msgs')

-----------------------------------------------------------------------------
(* Lemmas about the helpers.                                                *)

\* A view with every flag off is the idle view (record extensionality).
LEMMA ViewIdle ==
    ASSUME NEW v \in View, ~v.resized, ~v.printing, ~v.bg
    PROVE  v = IdleView
BY DEF View, IdleView

\* Printing on the borrowed view and finishing restores it, and so does
\* taking the selection markup (StartPrinting/FinishPrinting, CopySelection).
LEMMA ViewRestored ==
    ASSUME NEW b \in BOOLEAN
    PROVE  /\ FinishPrinting(StartPrinting(IdleView, b)) = IdleView
           /\ CopySelection(IdleView) = IdleView
<1>1. /\ StartPrinting(IdleView, b) \in View
      /\ StartPrinting(IdleView, b).printing
  BY DEF StartPrinting, ResizeForPrinting, IdleView, View
<1>2. ASSUME NEW v \in View, v.printing
      PROVE  /\ FinishPrinting(v) \in View
             /\ ~FinishPrinting(v).resized
             /\ ~FinishPrinting(v).printing
             /\ ~FinishPrinting(v).bg
  BY <1>2 DEF FinishPrinting, RestoreSize, View
<1>3. /\ CopySelection(IdleView) \in View
      /\ ~CopySelection(IdleView).resized
      /\ ~CopySelection(IdleView).printing
      /\ ~CopySelection(IdleView).bg
  BY DEF CopySelection, ResizeForPrinting, RestoreSize, IdleView, View
<1>. QED BY <1>1, <1>2, <1>3, ViewIdle

\* A notice of a session about its own cookie keeps the notices good.
LEMMA AddOwnNotice ==
    ASSUME NEW ms, GoodMsgs(ms), NEW k \in Kinds \ {"invalid"}, NEW s \in Sids,
           NEW l \in BOOLEAN
    PROVE  GoodMsgs(ms \cup {Msg(k, s, s, l)})
BY DEF GoodMsgs, Msg, Notice, Sids

\* DidFinishPrinting for a session s with no params or its own params: it
\* releases prep_frame_view_ and the copy view and keeps the notices good.
LEMMA DidFinishPost ==
    ASSUME NEW r, NEW n \in BOOLEAN, NEW p \in Params \cup {NoParams},
           NEW s \in Sids, NEW ms, GoodMsgs(ms),
           p = NoParams \/ p.cookie = s,
           DidFinishPrinting(r, n, p, s, ms)
    PROVE  /\ params' = NoParams
           /\ prep' = 0
           /\ notify' = TRUE
           /\ copyView' = NoCopy
           /\ GoodMsgs(msgs')
<1>1. CASE r = "FAIL_PRINT" /\ n /\ p # NoParams
  <2>1. msgs' = ms \cup {Msg("failed", s, s, TRUE)}
    BY <1>1 DEF DidFinishPrinting
  <2>2. "failed" \in Kinds \ {"invalid"}
    BY DEF Kinds
  <2>3. GoodMsgs(ms \cup {Msg("failed", s, s, TRUE)})
    BY <2>2, AddOwnNotice
  <2>. QED BY <1>1, <2>1, <2>3 DEF DidFinishPrinting
<1>2. CASE ~(r = "FAIL_PRINT" /\ n /\ p # NoParams)
  BY <1>2 DEF DidFinishPrinting, GoodMsgs
<1>. QED BY <1>1, <1>2

\* A step that ends with no prep_frame_view_, no copy view and the borrowed
\* view idle establishes SessionPost.
LEMMA ReleasedPost ==
    ASSUME params' \in Params \cup {NoParams}, prep' = 0, notify' \in BOOLEAN,
           copyView' = NoCopy, origView' = IdleView, GoodMsgs(msgs')
    PROVE  SessionPost
BY SessionsAssumption DEF SessionPost, NoCopy, CopyView

\* PrintPages of session s with its own params on the idle borrowed view:
\* every outcome releases the session, and the page count and pages carry
\* the session's cookie.
LEMMA PrintPagesPost ==
    ASSUME notify \in BOOLEAN, copyView \in CopyView,
           NEW s \in Sids, NEW q \in Params, q.cookie = s,
           NEW onCopy \in BOOLEAN, NEW ms, GoodMsgs(ms),
           PrintPages(s, q, onCopy, IdleView, ms)
    PROVE  SessionPost
<1> DEFINE loaded == ~(onCopy /\ copyView.loading)
           ms1 == ms \cup {Msg("count", q.cookie, s, loaded)}
<1>1. PICK m \in PageCounts, ok \in BOOLEAN :
        /\ origView' = IF onCopy THEN IdleView
                       ELSE FinishPrinting(StartPrinting(IdleView, q.bg))
        /\ \/ m = 0 /\ DidFinishPrinting("FAIL_PRINT", notify, q, s, ms)
           \/ m # 0 /\ ~ok /\ DidFinishPrinting("FAIL_PRINT", notify, q, s, ms1)
           \/ /\ m # 0 /\ ok
              /\ msgs' = ms1 \cup {Msg("pages", q.cookie, s, loaded)}
              /\ prep' = 0 /\ copyView' = NoCopy /\ params' = q
              /\ notify' = notify
  BY DEF PrintPages
<1>2. origView' = IdleView
  <2>1. q.bg \in BOOLEAN
    BY DEF Params
  <2>. QED BY <1>1, <2>1, ViewRestored
<1>3. loaded \in BOOLEAN
  BY DEF CopyView
<1>4. GoodMsgs(ms1)
  BY <1>3, AddOwnNotice DEF Kinds
<1>5. CASE m = 0 /\ DidFinishPrinting("FAIL_PRINT", notify, q, s, ms)
  BY <1>2, <1>5, DidFinishPost, ReleasedPost
<1>6. CASE m # 0 /\ ~ok /\ DidFinishPrinting("FAIL_PRINT", notify, q, s, ms1)
  BY <1>2, <1>4, <1>6, DidFinishPost, ReleasedPost
<1>7. CASE /\ m # 0 /\ ok
           /\ msgs' = ms1 \cup {Msg("pages", q.cookie, s, loaded)}
           /\ prep' = 0 /\ copyView' = NoCopy /\ params' = q
           /\ notify' = notify
  <2>1. GoodMsgs(msgs')
    BY <1>3, <1>4, <1>7, AddOwnNotice DEF Kinds
  <2>. QED BY <1>2, <1>7, <2>1, ReleasedPost
<1>. QED BY <1>1, <1>5, <1>6, <1>7

\* The end of Print() for session s with its own params on the idle view:
\* a failure releases everything, a selection leaves prep_frame_view_ of s
\* with the params of s and a loading copy view of s, anything else prints.
LEMMA RenderPhasePost ==
    ASSUME notify \in BOOLEAN, copyView \in CopyView,
           NEW s \in Sids, NEW alive \in BOOLEAN, NEW bg \in BOOLEAN,
           NEW p \in Params, p.cookie = s, NEW ms, GoodMsgs(ms),
           RenderPhase(s, alive, bg, p, IdleView, ms)
    PROVE  SessionPost
<1> DEFINE q == [p EXCEPT !.bg = bg]
<1>1. q \in Params /\ q.cookie = s
  BY DEF Params
<1>2. CASE (~alive \/ prep # 0)
           /\ DidFinishPrinting("FAIL_PRINT", notify, q, s, ms)
           /\ origView' = IdleView
  BY <1>1, <1>2, DidFinishPost, ReleasedPost
<1>3. CASE /\ alive /\ prep = 0 /\ q.sel
           /\ prep' = s
           /\ copyView' = [sid |-> s, loading |-> TRUE]
           /\ params' = q
           /\ origView' = CopySelection(IdleView)
           /\ msgs' = ms
           /\ notify' = notify
  <2>1. origView' = IdleView
    BY <1>3, ViewRestored
  <2>2. GoodMsgs(msgs')
    BY <1>3 DEF GoodMsgs
  <2>. QED BY <1>1, <1>3, <2>1, <2>2 DEF SessionPost, CopyView, Sids
<1>4. CASE alive /\ prep = 0 /\ ~q.sel /\ PrintPages(s, q, FALSE, IdleView, ms)
  BY <1>1, <1>4, PrintPagesPost
<1>. QED BY <1>2, <1>3, <1>4 DEF RenderPhase

\* SessionPost and the types of the other variables give the invariant.
LEMMA IInvFromPost ==
    ASSUME SessionPost, nodeInProgress' \in BOOLEAN, stack' \in Seq(Frame),
           tasks' \subseteq Sids, nextSid' \in 1 .. MaxSessions + 1,
           jobs' \subseteq Sids, doneSent' \subseteq Sids
    PROVE  IInv'
BY DEF SessionPost, IInv, TypeOK, SurfacesReleased, PrepOwnsParams,
       LoadingOwned, GoodMsgs, View, IdleView

\* The ShowInvalidPrinterSettingsError notice keeps the notices good.
LEMMA AddInvalidNotice ==
    ASSUME NEW ms, GoodMsgs(ms), NEW s \in Sids
    PROVE  GoodMsgs(ms \cup {Msg("invalid", 0, s, TRUE)})
<1>1. Msg("invalid", 0, s, TRUE) \in Notice
  BY SessionsAssumption DEF Msg, Notice, Kinds
<1>2. Msg("invalid", 0, s, TRUE).kind = "invalid"
  BY DEF Msg
<1>. QED BY <1>1, <1>2 DEF GoodMsgs

\* CalculateNumberOfPages with no prep_frame_view_ (Print() got past its
\* guard): the new session fails, renders, or waits on top of the stack.
LEMMA CalculatePost ==
    ASSUME IInv, prep = 0, NEW origin \in Origins, NEW silent \in BOOLEAN,
           NEW bg \in BOOLEAN, CalculateNumberOfPages(origin, silent, bg)
    PROVE  /\ SessionPost
           /\ stack' \in Seq(Frame)
           /\ nextSid' \in 1 .. MaxSessions + 1
           /\ UNCHANGED <<tasks, jobs, doneSent>>
<1> DEFINE s == nextSid
<1>1. s \in Sids /\ nextSid' \in 1 .. MaxSessions + 1
      /\ UNCHANGED <<tasks, jobs, doneSent>>
  BY SessionsAssumption DEF IInv, TypeOK, CalculateNumberOfPages, Sids
<1>2. /\ notify \in BOOLEAN /\ copyView \in CopyView /\ origView = IdleView
      /\ stack \in Seq(Frame) /\ GoodMsgs(msgs) /\ copyView.sid = 0
      /\ ~copyView.loading
  BY DEF IInv, TypeOK, SurfacesReleased, LoadingOwned
<1>3. CASE /\ DidFinishPrinting("FAIL_PRINT_INIT", FALSE, NoParams, s,
                                 msgs \cup {Msg("invalid", 0, s, TRUE)})
           /\ UNCHANGED <<stack, origView>>
  BY <1>1, <1>2, <1>3, AddInvalidNotice, DidFinishPost, ReleasedPost
<1>4. CASE ~(/\ DidFinishPrinting("FAIL_PRINT_INIT", FALSE, NoParams, s,
                                  msgs \cup {Msg("invalid", 0, s, TRUE)})
             /\ UNCHANGED <<stack, origView>>)
  <2>1. PICK pdf \in BOOLEAN, n \in PageCounts :
            LET p == [cookie |-> s, sel |-> FALSE,
                      fit |-> ~(origin = "node" \/ pdf), bg |-> FALSE]
                v == FinishPrinting(StartPrinting(origView, FALSE))
            IN
            \/ /\ n = 0
               /\ DidFinishPrinting("FAIL_PRINT", notify, p, s, msgs)
               /\ origView' = v
               /\ UNCHANGED stack
            \/ /\ n # 0 /\ silent
               /\ RenderPhase(s, TRUE, bg, p, v, msgs)
               /\ UNCHANGED stack
            \/ /\ n # 0 /\ ~silent
               /\ params' = NoParams
               /\ stack' = Append(stack, [sid |-> s, origin |-> origin,
                                          bg |-> bg, fit |-> p.fit,
                                          alive |-> TRUE])
               /\ origView' = v
               /\ UNCHANGED <<prep, copyView, notify, msgs>>
    BY <1>4 DEF CalculateNumberOfPages
  <2> DEFINE p == [cookie |-> s, sel |-> FALSE,
                   fit |-> ~(origin = "node" \/ pdf), bg |-> FALSE]
             v == FinishPrinting(StartPrinting(origView, FALSE))
  <2>2. p \in Params /\ p.cookie = s /\ v = IdleView
    BY <1>1, <1>2, ViewRestored DEF Params
  <2>3. CASE n = 0 /\ DidFinishPrinting("FAIL_PRINT", notify, p, s, msgs)
             /\ origView' = v /\ UNCHANGED stack
    BY <1>1, <1>2, <2>2, <2>3, DidFinishPost, ReleasedPost
  <2>4. CASE n # 0 /\ silent /\ RenderPhase(s, TRUE, bg, p, v, msgs)
             /\ UNCHANGED stack
    BY <1>1, <1>2, <2>2, <2>4, RenderPhasePost
  <2>5. CASE /\ n # 0 /\ ~silent
             /\ params' = NoParams
             /\ stack' = Append(stack, [sid |-> s, origin |-> origin,
                                        bg |-> bg, fit |-> p.fit,
                                        alive |-> TRUE])
             /\ origView' = v
             /\ UNCHANGED <<prep, copyView, notify, msgs>>
    <3>1. [sid |-> s, origin |-> origin, bg |-> bg, fit |-> p.fit,
           alive |-> TRUE] \in Frame
      BY <1>1, <2>2 DEF Frame, Params
    <3>2. stack' \in Seq(Frame)
      BY <1>2, <2>5, <3>1, AppendProperties
    <3>3. SessionPost
      BY <1>2, <2>2, <2>5 DEF SessionPost, IInv, TypeOK, GoodMsgs
    <3>. QED BY <1>1, <3>2, <3>3
  <2>. QED BY <2>1, <2>3, <2>4, <2>5
<1>. QED BY <1>3, <1>4

\* A step that changes nothing keeps the invariant.
LEMMA StutterPost ==
    ASSUME IInv, UNCHANGED vars
    PROVE  IInv'
BY DEF vars, IInv, TypeOK, SurfacesReleased, PrepOwnsParams, LoadingOwned,
       GoodMsgs

\* Print() from any caller keeps the invariant, given what the caller does
\* with print_node_in_progress_.
LEMMA HelperPrintPost ==
    ASSUME IInv, NEW origin \in Origins, NEW silent \in BOOLEAN,
           NEW bg \in BOOLEAN, HelperPrint(origin, silent, bg),
           nodeInProgress' \in BOOLEAN
    PROVE  IInv'
<1>1. CASE prep # 0 /\ UNCHANGED vars
  BY <1>1, StutterPost
<1>2. CASE prep = 0 /\ CalculateNumberOfPages(origin, silent, bg)
  BY <1>2, CalculatePost, IInvFromPost DEF IInv, TypeOK
<1>. QED BY <1>1, <1>2 DEF HelperPrint

-----------------------------------------------------------------------------
(* The invariant is inductive.                                              *)

THEOREM InitIInv == Init => IInv
<1> SUFFICES ASSUME Init PROVE IInv
  OBVIOUS
<1>1. TypeOK
  <2>1. stack \in Seq(Frame)
    BY EmptySeq DEF Init
  <2>2. origView \in View /\ copyView \in CopyView
    BY SessionsAssumption DEF Init, View, IdleView, CopyView, NoCopy
  <2>3. /\ params \in Params \cup {NoParams}
        /\ prep \in 0 .. MaxSessions
        /\ nextSid \in 1 .. MaxSessions + 1
    BY SessionsAssumption DEF Init
  <2>4. /\ notify \in BOOLEAN /\ nodeInProgress \in BOOLEAN
        /\ tasks \subseteq Sids /\ jobs \subseteq Sids
        /\ msgs \subseteq Notice /\ doneSent \subseteq Sids
    BY DEF Init
  <2>. QED BY <2>1, <2>2, <2>3, <2>4 DEF TypeOK
<1>2. SurfacesReleased /\ PrepOwnsParams /\ LoadingOwned /\ GoodMsgs(msgs)
  BY DEF Init, SurfacesReleased, PrepOwnsParams, LoadingOwned, GoodMsgs, NoCopy
<1>. QED BY <1>1, <1>2 DEF IInv

THEOREM NextIInv == IInv /\ [Next]_vars => IInv'
<1> SUFFICES ASSUME IInv, [Next]_vars PROVE IInv'
  OBVIOUS
<1>1. CASE PrintPage
  BY <1>1, HelperPrintPost DEF PrintPage, Origins, IInv, TypeOK
<1>2. CASE OnPrintPages
  BY <1>2, HelperPrintPost DEF OnPrintPages, Origins, IInv, TypeOK
<1>3. CASE PrintNode
  <2>1. CASE nodeInProgress /\ UNCHANGED vars
    BY <2>1, StutterPost
  <2>2. CASE ~nodeInProgress /\ HelperPrint("node", FALSE, FALSE)
             /\ nodeInProgress' = (stack' # stack)
    BY <2>2, HelperPrintPost DEF Origins
  <2>. QED BY <1>3, <2>1, <2>2 DEF PrintNode
<1>4. CASE ScriptedPrintReply
  <2> DEFINE f == stack[Len(stack)]
  <2>0. /\ stack # << >> /\ stack \in Seq(Frame)
        /\ stack' = SubSeq(stack, 1, Len(stack) - 1)
        /\ nodeInProgress' \in BOOLEAN
        /\ UNCHANGED <<tasks, nextSid, doneSent>>
    BY <1>4 DEF ScriptedPrintReply, IInv, TypeOK
  <2>1. /\ stack # << >> /\ stack \in Seq(Frame)
        /\ f \in Frame /\ f.sid \in Sids
        /\ stack' = SubSeq(stack, 1, Len(stack) - 1)
        /\ nodeInProgress' \in BOOLEAN
        /\ UNCHANGED <<tasks, nextSid, doneSent>>
    <3>1. Len(stack) \in 1 .. Len(stack)
      BY <2>0, EmptySeq, LenProperties
    <3>2. f \in Frame
      BY <2>0, <3>1, ElementOfSeq
    <3>. QED BY <2>0, <3>2 DEF Frame
  <2>2. stack' \in Seq(Frame)
    BY <2>1, SubSeqProperties, LenProperties
  <2>3. /\ notify \in BOOLEAN /\ copyView \in CopyView /\ origView = IdleView
        /\ GoodMsgs(msgs) /\ jobs \subseteq Sids /\ tasks \subseteq Sids
        /\ nextSid \in 1 .. MaxSessions + 1 /\ doneSent \subseteq Sids
    BY DEF IInv, TypeOK, SurfacesReleased
  <2>4. CASE DidFinishPrinting("OK", notify, NoParams, f.sid, msgs)
             /\ UNCHANGED <<origView, jobs>>
    <3>1. /\ params' = NoParams /\ prep' = 0 /\ notify' = TRUE
          /\ copyView' = NoCopy /\ GoodMsgs(msgs')
      BY <2>1, <2>3, <2>4, DidFinishPost
    <3>2. SessionPost
      BY <2>3, <2>4, <3>1, ReleasedPost
    <3>. QED BY <2>1, <2>2, <2>3, <2>4, <3>2, IInvFromPost
  <2>5. ASSUME NEW sel \in BOOLEAN, jobs' = jobs \cup {f.sid},
               RenderPhase(f.sid, f.alive, f.bg,
                           [cookie |-> f.sid, sel |-> sel, fit |-> f.fit,
                            bg |-> FALSE], origView, msgs)
        PROVE  IInv'
    <3>1. [cookie |-> f.sid, sel |-> sel, fit |-> f.fit, bg |-> FALSE] \in Params
      BY <2>1 DEF Frame, Params
    <3>2. SessionPost
      BY <2>1, <2>3, <2>5, <3>1, RenderPhasePost DEF Frame
    <3>3. jobs' \subseteq Sids
      BY <2>1, <2>3, <2>5
    <3>. QED BY <2>1, <2>2, <2>3, <3>2, <3>3, IInvFromPost
  <2>. QED BY <1>4, <2>4, <2>5 DEF ScriptedPrintReply
<1>5. CASE OnPrintingDone
  <2>1. PICK c \in Sids, success \in BOOLEAN :
          /\ doneSent' = doneSent \cup {c}
          /\ DidFinishPrinting(IF success THEN "OK" ELSE "FAIL_PRINT",
                               FALSE, params, c, msgs)
          /\ UNCHANGED <<nodeInProgress, stack, origView, tasks, nextSid, jobs>>
    BY <1>5 DEF OnPrintingDone
  <2>2. /\ params' = NoParams /\ prep' = 0 /\ notify' = TRUE
        /\ copyView' = NoCopy /\ msgs' = msgs
    BY <2>1 DEF DidFinishPrinting
  <2>3. SessionPost
    BY <2>1, <2>2, ReleasedPost DEF IInv, SurfacesReleased, GoodMsgs
  <2>. QED BY <2>1, <2>3, IInvFromPost DEF IInv, TypeOK
<1>6. CASE DidStopLoading
  <2>1. copyView.sid \in Sids
    BY <1>6 DEF DidStopLoading, IInv, TypeOK, LoadingOwned, CopyView, Sids
  <2>2. /\ copyView' \in CopyView
        /\ copyView'.sid = copyView.sid
        /\ copyView'.loading = FALSE
    BY <1>6 DEF DidStopLoading, IInv, TypeOK, CopyView
  <2>3. tasks' \subseteq Sids
    BY <1>6, <2>1 DEF DidStopLoading, IInv, TypeOK
  <2>. QED BY <1>6, <2>2, <2>3
           DEF DidStopLoading, IInv, TypeOK, SurfacesReleased, PrepOwnsParams,
               LoadingOwned, GoodMsgs
<1>7. CASE RunPostedTask
  <2>1. PICK t \in tasks :
          /\ tasks' = tasks \ {t}
          /\ \/ WeakPtrValid(t) /\ PrintPages(prep, params, TRUE, origView, msgs)
             \/ /\ ~WeakPtrValid(t)
                /\ UNCHANGED <<params, prep, notify, origView, copyView, msgs>>
          /\ UNCHANGED <<nodeInProgress, stack, nextSid, jobs, doneSent>>
    BY <1>7 DEF RunPostedTask
  <2>2. CASE WeakPtrValid(t) /\ PrintPages(prep, params, TRUE, origView, msgs)
    <3>1. prep \in Sids /\ params.cookie = prep
      BY <2>2 DEF WeakPtrValid, IInv, TypeOK, PrepOwnsParams, Sids
    <3>2. params \in Params
      BY <3>1 DEF IInv, TypeOK, NoParams, Sids
    <3>3. SessionPost
      BY <2>2, <3>1, <3>2, PrintPagesPost DEF IInv, TypeOK, SurfacesReleased
    <3>. QED BY <2>1, <3>3, IInvFromPost DEF IInv, TypeOK
  <2>3. CASE ~WeakPtrValid(t)
             /\ UNCHANGED <<params, prep, notify, origView, copyView, msgs>>
    BY <2>1, <2>3 DEF IInv, TypeOK, SurfacesReleased, PrepOwnsParams,
                      LoadingOwned, GoodMsgs
  <2>. QED BY <2>1, <2>2, <2>3
<1>8. CASE DetachFrame
  <2>1. PICK i \in 1 .. Len(stack) :
          /\ stack' = [stack EXCEPT ![i].alive = FALSE]
          /\ UNCHANGED <<params, prep, notify, nodeInProgress, origView,
                         copyView, tasks, nextSid, jobs, msgs, doneSent>>
    BY <1>8 DEF DetachFrame
  <2>2. stack' \in Seq(Frame)
    <3>1. stack \in Seq(Frame) /\ stack[i] \in Frame
      BY DEF IInv, TypeOK
    <3>2. [stack[i] EXCEPT !.alive = FALSE] \in Frame
      BY <3>1 DEF Frame
    <3>. QED BY <2>1, <3>1, <3>2, ExceptSeq
  <2>. QED BY <2>1, <2>2 DEF IInv, TypeOK, SurfacesReleased, PrepOwnsParams,
                            LoadingOwned, GoodMsgs
<1>9. CASE Quiescent
  BY <1>9, StutterPost DEF Quiescent
<1>10. CASE UNCHANGED vars
  BY <1>10, StutterPost
<1>. QED BY <1>1, <1>2, <1>3, <1>4, <1>5, <1>6, <1>7, <1>8, <1>9, <1>10
         DEF Next

-----------------------------------------------------------------------------
(* The invariants of the runs hold in every behaviour, for every number of  *)
(* sessions and every set of page counts.                                   *)

\* IInv holds in every reachable state.
THEOREM IInvHolds == Spec => []IInv
BY InitIInv, NextIInv, PTL DEF Spec

\* Type correctness of every variable of the controller.
THEOREM TypeCorrect == Spec => []TypeOK
<1>1. IInv => TypeOK
  BY DEF IInv
<1>. QED BY <1>1, IInvHolds, PTL

\* A live prep_frame_view_ always owns print_pages_params_, whatever
\* handlers run while it waits for its selection copy to load.
THEOREM PrepOwnsParamsHolds == Spec => []PrepOwnsParams
<1>1. IInv => PrepOwnsParams
  BY DEF IInv
<1>. QED BY <1>1, IInvHolds, PTL

=============================================================================
