---------------------------- MODULE OutcomeProofs ----------------------------
(***************************************************************************)
(* Proof that a job whose pages the host has received is never reported    *)
(* failed to it (PrintedNeverFailed), for every number of sessions and     *)
(* every set of page counts.                                               *)
(*                                                                         *)
(* The property is not inductive.  Every notice of a step carries the      *)
(* cookie of the one session the step ends (a fresh one, the innermost     *)
(* waiting Print(), or prep_frame_view_'s through print_pages_params_),    *)
(* and that session either fails or prints, never both.  What is needed   *)
(* beyond SInv is that a failed cookie, like a printed one, is used up:    *)
(* issued, held neither by prep_frame_view_ nor by a waiting Print().      *)
(***************************************************************************)
EXTENDS PrintSurfaceProofs

\* The cookies of the PrintingFailed notices among ms.
FailedSent(ms) == {m.cookie : m \in {x \in ms : x.kind = "failed"}}

\* A failed job's cookie is used up.
FailedUsed ==
    /\ \A c \in FailedSent(msgs) : c < nextSid /\ c # prep
    /\ \A i \in 1 .. Len(stack) : stack[i].sid \notin FailedSent(msgs)
    /\ FailedSent(msgs) \cap PagesSent(msgs) = {}

\* What a step does to the outcomes among ms, the notices before it, for
\* the session s it ends: s may fail and nothing is printed, or s is
\* printed and nothing fails.
MsgsOutcome(ms, s) ==
    \/ /\ FailedSent(msgs') \subseteq FailedSent(ms) \cup {s}
       /\ PagesSent(msgs') = PagesSent(ms)
    \/ /\ FailedSent(msgs') = FailedSent(ms)
       /\ PagesSent(msgs') = PagesSent(ms) \cup {s}

-----------------------------------------------------------------------------
(* Lemmas about the notices.                                                *)

\* A notice other than a PrintingFailed adds no failed job.
LEMMA FailedSentOther ==
    ASSUME NEW ms, NEW k, NEW c, NEW s, NEW l, k # "failed"
    PROVE  FailedSent(ms \cup {Msg(k, c, s, l)}) = FailedSent(ms)
BY DEF FailedSent, Msg

\* A PrintingFailed for cookie c adds c.
LEMMA FailedSentFailed ==
    ASSUME NEW ms, NEW c, NEW s, NEW l
    PROVE  FailedSent(ms \cup {Msg("failed", c, s, l)}) = FailedSent(ms) \cup {c}
<1>1. Msg("failed", c, s, l).kind = "failed" /\ Msg("failed", c, s, l).cookie = c
  BY DEF Msg
<1>2. \A y : y \in FailedSent(ms \cup {Msg("failed", c, s, l)})
              <=> y \in FailedSent(ms) \cup {c}
  BY <1>1 DEF FailedSent
<1>. QED BY <1>2

\* The failed jobs among well-formed notices are sessions.
LEMMA FailedSentSids ==
    ASSUME NEW ms, GoodMsgs(ms)
    PROVE  FailedSent(ms) \subseteq Sids
<1> SUFFICES ASSUME NEW m \in ms, m.kind = "failed" PROVE m.cookie \in Sids
  BY DEF FailedSent
<1>1. m \in Notice /\ m.cookie = m.sid
  BY DEF GoodMsgs
<1>. QED BY <1>1 DEF Notice

-----------------------------------------------------------------------------
(* What the shared steps send.                                              *)

\* DidFinishPrinting for session s, with no params or s's own, sends at
\* most a PrintingFailed for s.
LEMMA DidFinishMsgs ==
    ASSUME NEW r, NEW n, NEW p, NEW s, NEW ms,
           p = NoParams \/ p.cookie = s,
           DidFinishPrinting(r, n, p, s, ms)
    PROVE  /\ FailedSent(msgs') \subseteq FailedSent(ms) \cup {s}
           /\ PagesSent(msgs') = PagesSent(ms)
           /\ prep' = 0
<1>1. CASE r = "FAIL_PRINT" /\ n /\ p # NoParams
  <2>1. msgs' = ms \cup {Msg("failed", s, s, TRUE)}
    BY <1>1 DEF DidFinishPrinting
  <2>2. FailedSent(msgs') = FailedSent(ms) \cup {s}
    BY <2>1, FailedSentFailed
  <2>3. PagesSent(msgs') = PagesSent(ms)
    <3>1. PagesSent(ms \cup {Msg("failed", s, s, TRUE)}) = PagesSent(ms)
      BY DEF PagesSent, Msg
    <3>. QED BY <2>1, <3>1
  <2>. QED BY <2>2, <2>3 DEF DidFinishPrinting
<1>2. CASE ~(r = "FAIL_PRINT" /\ n /\ p # NoParams)
  BY <1>2 DEF DidFinishPrinting
<1>. QED BY <1>1, <1>2

\* PrintPages of session s with its own params ends s: it fails or prints.
LEMMA PrintPagesMsgs ==
    ASSUME NEW s, NEW q, q.cookie = s, NEW onCopy, NEW v, NEW ms,
           PrintPages(s, q, onCopy, v, ms)
    PROVE  MsgsOutcome(ms, s) /\ prep' = 0
<1> DEFINE ld == ~(onCopy /\ copyView.loading)
           ms1 == ms \cup {Msg("count", q.cookie, s, ld)}
<1>1. PICK m \in PageCounts, ok \in BOOLEAN :
        \/ m = 0 /\ DidFinishPrinting("FAIL_PRINT", notify, q, s, ms)
        \/ m # 0 /\ ~ok /\ DidFinishPrinting("FAIL_PRINT", notify, q, s, ms1)
        \/ /\ m # 0 /\ ok
           /\ msgs' = ms1 \cup {Msg("pages", q.cookie, s, ld)}
           /\ prep' = 0
  BY DEF PrintPages
<1>2. FailedSent(ms1) = FailedSent(ms) /\ PagesSent(ms1) = PagesSent(ms)
  BY FailedSentOther, PagesSentOther DEF ms1
<1>3. CASE m = 0 /\ DidFinishPrinting("FAIL_PRINT", notify, q, s, ms)
  BY <1>3, DidFinishMsgs DEF MsgsOutcome
<1>4. CASE m # 0 /\ ~ok /\ DidFinishPrinting("FAIL_PRINT", notify, q, s, ms1)
  <2>1. /\ FailedSent(msgs') \subseteq FailedSent(ms1) \cup {s}
        /\ PagesSent(msgs') = PagesSent(ms1)
        /\ prep' = 0
    BY <1>4, DidFinishMsgs
  <2>. QED BY <1>2, <2>1 DEF MsgsOutcome
<1>5. CASE /\ m # 0 /\ ok
           /\ msgs' = ms1 \cup {Msg("pages", q.cookie, s, ld)}
           /\ prep' = 0
  <2>1. /\ FailedSent(msgs') = FailedSent(ms1)
        /\ PagesSent(msgs') = PagesSent(ms1) \cup {s}
    BY <1>5, FailedSentOther, PagesSentPages
  <2>. QED BY <1>2, <1>5, <2>1 DEF MsgsOutcome
<1>. QED BY <1>1, <1>3, <1>4, <1>5

\* The end of Print() for session s: it fails, prints, or takes the surface
\* for its copy without sending anything.
LEMMA RenderPhaseMsgs ==
    ASSUME NEW s, NEW alive, NEW bg, NEW p \in Params, p.cookie = s, NEW v,
           NEW ms, RenderPhase(s, alive, bg, p, v, ms)
    PROVE  /\ MsgsOutcome(ms, s)
           /\ prep' = 0 \/ (prep' = s /\ msgs' = ms)
<1> DEFINE q == [p EXCEPT !.bg = bg]
<1>1. q.cookie = s
  BY DEF Params
<1>2. CASE (~alive \/ prep # 0)
           /\ DidFinishPrinting("FAIL_PRINT", notify, q, s, ms)
  BY <1>1, <1>2, DidFinishMsgs DEF MsgsOutcome
<1>3. CASE alive /\ prep = 0 /\ q.sel /\ prep' = s /\ msgs' = ms
  BY <1>3 DEF MsgsOutcome
<1>4. CASE alive /\ prep = 0 /\ ~q.sel /\ PrintPages(s, q, FALSE, v, ms)
  BY <1>1, <1>4, PrintPagesMsgs
<1>. QED BY <1>2, <1>3, <1>4 DEF RenderPhase

-----------------------------------------------------------------------------
(* The steps.                                                               *)

\* A step ending session s, whose cookie was issued and is used up by none
\* of the outcomes so far, leaves every failed cookie used up, provided s
\* ends holding prep_frame_view_ only if it sent nothing, and no waiting
\* Print() is s's or failed.
LEMMA EndStep ==
    ASSUME IInv, IInv', FailedUsed, NEW s \in Sids,
           s \notin FailedSent(msgs) \cup PagesSent(msgs),
           nextSid \in Nat, nextSid' \in Nat, nextSid <= nextSid', s < nextSid',
           MsgsOutcome(msgs, s),
           prep' = 0 \/ (prep' = s /\ msgs' = msgs),
           \A i \in 1 .. Len(stack') : stack'[i].sid \notin FailedSent(msgs) \cup {s}
    PROVE  FailedUsed'
<1>1. FailedSent(msgs') \subseteq FailedSent(msgs) \cup {s}
  BY DEF MsgsOutcome
<1>2. FailedSent(msgs') \subseteq Sids /\ FailedSent(msgs) \subseteq Sids
  <2>1. GoodMsgs(msgs) /\ GoodMsgs(msgs')
    BY DEF IInv
  <2>. QED BY <2>1, FailedSentSids
<1>3. \A c \in FailedSent(msgs') : c < nextSid'
  BY <1>1, <1>2 DEF FailedUsed, Sids
<1>4. \A c \in FailedSent(msgs') : c # prep'
  <2>1. CASE prep' = 0
    BY <1>2, <2>1 DEF Sids
  <2>2. CASE prep' = s /\ msgs' = msgs
    BY <2>2
  <2>. QED BY <2>1, <2>2
<1>5. \A i \in 1 .. Len(stack') : stack'[i].sid \notin FailedSent(msgs')
  BY <1>1
<1>6. FailedSent(msgs') \cap PagesSent(msgs') = {}
  BY DEF MsgsOutcome, FailedUsed
<1>. QED BY <1>3, <1>4, <1>5, <1>6 DEF FailedUsed

\* A step that sends nothing and changes neither prep_frame_view_, the
\* waiting Print() calls' sessions nor the cookie counter.
LEMMA QuietStep ==
    ASSUME FailedUsed, msgs' = msgs, prep' \in {0, prep}, nextSid' = nextSid,
           Len(stack') = Len(stack),
           \A i \in 1 .. Len(stack) : stack'[i].sid = stack[i].sid,
           IInv
    PROVE  FailedUsed'
<1>1. FailedSent(msgs) \subseteq Sids
  <2>1. GoodMsgs(msgs)
    BY DEF IInv
  <2>. QED BY <2>1, FailedSentSids
<1>. QED BY <1>1 DEF FailedUsed, Sids

\* Print() past its guard: the fresh session fails, prints, takes the
\* surface, or waits on top of the stack with a cookie nobody has used.
LEMMA CalculateOutcome ==
    ASSUME IInv, IInv', FreshSids, FailedUsed, prep = 0,
           NEW origin \in Origins, NEW silent \in BOOLEAN, NEW bg \in BOOLEAN,
           CalculateNumberOfPages(origin, silent, bg)
    PROVE  FailedUsed'
<1> DEFINE s == nextSid
<1>1. /\ s \in Sids /\ s \in Nat /\ nextSid' = s + 1
      /\ stack \in Seq(Frame) /\ stack' \in Seq(Frame)
  BY SessionsAssumption DEF IInv, TypeOK, CalculateNumberOfPages, Sids
<1>2. /\ PagesSent(msgs) = PrintedCookies
      /\ \A c \in PrintedCookies : c < nextSid
      /\ StackOK(stack, nextSid, PrintedCookies, tasks, prep)
  BY PrintedIsPagesSent DEF FreshSids
<1>3. s \notin FailedSent(msgs) \cup PagesSent(msgs)
  BY <1>1, <1>2 DEF FailedUsed
<1>4. \A i \in 1 .. Len(stack) : stack[i].sid \notin FailedSent(msgs) \cup {s}
  BY <1>1, <1>2 DEF StackOK, FailedUsed
<1>5. nextSid' \in Nat /\ nextSid <= nextSid' /\ s < nextSid'
  BY <1>1
<1>6. CASE /\ DidFinishPrinting("FAIL_PRINT_INIT", FALSE, NoParams, s,
                                 msgs \cup {Msg("invalid", 0, s, TRUE)})
           /\ UNCHANGED <<stack, origView>>
  <2> DEFINE ms == msgs \cup {Msg("invalid", 0, s, TRUE)}
  <2>1. FailedSent(ms) = FailedSent(msgs) /\ PagesSent(ms) = PagesSent(msgs)
    BY DEF FailedSent, PagesSent, Msg, ms
  <2>2. /\ FailedSent(msgs') \subseteq FailedSent(ms) \cup {s}
        /\ PagesSent(msgs') = PagesSent(ms)
        /\ prep' = 0
    BY <1>6, DidFinishMsgs DEF ms
  <2>3. MsgsOutcome(msgs, s)
    BY <2>1, <2>2 DEF MsgsOutcome
  <2>. QED BY <1>1, <1>3, <1>4, <1>5, <1>6, <2>2, <2>3, EndStep
<1>7. CASE ~(/\ DidFinishPrinting("FAIL_PRINT_INIT", FALSE, NoParams, s,
                                  msgs \cup {Msg("invalid", 0, s, TRUE)})
             /\ UNCHANGED <<stack, origView>>)
  <2>1. PICK pdf \in BOOLEAN, n \in PageCounts :
            LET p == [cookie |-> s, sel |-> FALSE,
                      fit |-> ~(origin = "node" \/ pdf), bg |-> FALSE]
                v == FinishPrinting(StartPrinting(origView, FALSE))
            IN
            \/ /\ DidFinishPrinting("FAIL_PRINT", notify, p, s, msgs)
               /\ UNCHANGED stack
            \/ /\ RenderPhase(s, TRUE, bg, p, v, msgs)
               /\ UNCHANGED stack
            \/ /\ stack' = Append(stack, [sid |-> s, origin |-> origin,
                                          bg |-> bg, fit |-> p.fit,
                                          alive |-> TRUE])
               /\ UNCHANGED <<prep, msgs>>
    BY <1>7 DEF CalculateNumberOfPages
  <2> DEFINE p == [cookie |-> s, sel |-> FALSE,
                   fit |-> ~(origin = "node" \/ pdf), bg |-> FALSE]
             v == FinishPrinting(StartPrinting(origView, FALSE))
             fr == [sid |-> s, origin |-> origin, bg |-> bg, fit |-> p.fit,
                    alive |-> TRUE]
  <2>2. p \in Params /\ p.cookie = s
    BY <1>1 DEF Params
  <2>3. CASE DidFinishPrinting("FAIL_PRINT", notify, p, s, msgs)
             /\ UNCHANGED stack
    <3>1. MsgsOutcome(msgs, s) /\ prep' = 0
      BY <2>2, <2>3, DidFinishMsgs DEF MsgsOutcome
    <3>. QED BY <1>1, <1>3, <1>4, <1>5, <2>3, <3>1, EndStep
  <2>4. CASE RenderPhase(s, TRUE, bg, p, v, msgs) /\ UNCHANGED stack
    <3>1. /\ MsgsOutcome(msgs, s)
          /\ prep' = 0 \/ (prep' = s /\ msgs' = msgs)
      BY <2>2, <2>4, RenderPhaseMsgs
    <3>. QED BY <1>1, <1>3, <1>4, <1>5, <2>4, <3>1, EndStep
  <2>5. CASE stack' = Append(stack, fr) /\ UNCHANGED <<prep, msgs>>
    <3>1. FailedSent(msgs) \subseteq Sids
      <4>1. GoodMsgs(msgs)
        BY DEF IInv
      <4>. QED BY <4>1, FailedSentSids
    <3>2. \A c \in FailedSent(msgs') : c < nextSid' /\ c # prep'
      BY <1>1, <2>5, <3>1 DEF FailedUsed, Sids
    <3>3. \A i \in 1 .. Len(stack') : stack'[i].sid \notin FailedSent(msgs')
      <4>1. fr \in Frame /\ fr.sid = s
        BY <1>1, <2>2 DEF Frame, Params
      <4>2. /\ Len(stack') = Len(stack) + 1
            /\ stack'[Len(stack) + 1] = fr
            /\ \A i \in 1 .. Len(stack) : stack'[i] = stack[i]
        BY <1>1, <2>5, <4>1, AppendProperties
      <4>. QED BY <1>1, <1>3, <1>4, <2>5, <4>1, <4>2
    <3>4. FailedSent(msgs') \cap PagesSent(msgs') = {}
      BY <2>5 DEF FailedUsed
    <3>. QED BY <3>2, <3>3, <3>4 DEF FailedUsed
  <2>. QED BY <2>1, <2>3, <2>4, <2>5
<1>. QED BY <1>6, <1>7

\* The ScriptedPrint reply ends the innermost waiting Print(), whose
\* cookie nobody else holds or has used.
LEMMA ReplyOutcome ==
    ASSUME IInv, IInv', FreshSids, FailedUsed, ScriptedPrintReply
    PROVE  FailedUsed'
<1> DEFINE f == stack[Len(stack)]
           s == f.sid
<1>1. /\ stack # << >> /\ stack \in Seq(Frame)
      /\ stack' = SubSeq(stack, 1, Len(stack) - 1)
      /\ UNCHANGED nextSid
      /\ nextSid \in Nat
  BY DEF ScriptedPrintReply, IInv, TypeOK
<1>2. Len(stack) \in 1 .. Len(stack)
  BY <1>1, EmptySeq, LenProperties
<1>3. f \in Frame /\ s \in Sids
  <2>1. f \in Frame
    BY <1>1, <1>2, ElementOfSeq DEF f
  <2>. QED BY <2>1 DEF Frame, s
<1>4. /\ StackOK(stack, nextSid, PrintedCookies, tasks, prep)
      /\ PagesSent(msgs) = PrintedCookies
  BY PrintedIsPagesSent DEF FreshSids
<1>5. /\ s \notin FailedSent(msgs) \cup PagesSent(msgs)
      /\ s < nextSid
  BY <1>2, <1>4 DEF StackOK, FailedUsed
<1>6. \A i \in 1 .. Len(stack') : stack'[i].sid \notin FailedSent(msgs) \cup {s}
  <2>1. StackOK(stack, nextSid, PrintedCookies \cup FailedSent(msgs), tasks, prep)
    BY <1>4 DEF StackOK, FailedUsed
  <2>2. StackOK(stack', nextSid, (PrintedCookies \cup FailedSent(msgs)) \cup {s},
                tasks \cup {s}, s)
    BY <1>1, <2>1, StackPop
  <2>. QED BY <2>2 DEF StackOK
<1>7. CASE DidFinishPrinting("OK", notify, NoParams, s, msgs)
  <2>1. MsgsOutcome(msgs, s) /\ prep' = 0
    BY <1>7, DidFinishMsgs DEF MsgsOutcome
  <2>. QED BY <1>1, <1>3, <1>5, <1>6, <2>1, EndStep
<1>8. ASSUME NEW sel \in BOOLEAN,
             RenderPhase(s, f.alive, f.bg,
                         [cookie |-> s, sel |-> sel, fit |-> f.fit,
                          bg |-> FALSE], origView, msgs)
      PROVE  FailedUsed'
  <2>1. [cookie |-> s, sel |-> sel, fit |-> f.fit, bg |-> FALSE] \in Params
    BY <1>3 DEF Frame, Params
  <2>2. /\ MsgsOutcome(msgs, s)
        /\ prep' = 0 \/ (prep' = s /\ msgs' = msgs)
    BY <1>8, <2>1, RenderPhaseMsgs
  <2>. QED BY <1>1, <1>3, <1>5, <1>6, <2>2, EndStep
<1>. QED BY <1>7, <1>8 DEF ScriptedPrintReply

\* PrintingDone turns notification off before DidFinishPrinting: it sends
\* nothing, whatever session it releases.
LEMMA DoneOutcome ==
    ASSUME IInv, FailedUsed, OnPrintingDone
    PROVE  FailedUsed'
<1>1. PICK c \in Sids, success \in BOOLEAN :
        /\ DidFinishPrinting(IF success THEN "OK" ELSE "FAIL_PRINT",
                             FALSE, params, c, msgs)
        /\ UNCHANGED <<stack, nextSid>>
  BY DEF OnPrintingDone
<1>2. msgs' = msgs /\ prep' = 0
  BY <1>1 DEF DidFinishPrinting
<1>. QED BY <1>1, <1>2, QuietStep

\* The posted CallOnReady of the live prep_frame_view_ ends its session
\* with the params it owns; a stale one does nothing.
LEMMA TaskOutcome ==
    ASSUME IInv, IInv', FreshSids, FailedUsed, RunPostedTask
    PROVE  FailedUsed'
<1>1. PICK t \in tasks :
        /\ \/ WeakPtrValid(t) /\ PrintPages(prep, params, TRUE, origView, msgs)
           \/ /\ ~WeakPtrValid(t)
              /\ UNCHANGED <<prep, msgs>>
        /\ UNCHANGED <<stack, nextSid>>
  BY DEF RunPostedTask
<1>2. /\ tasks \subseteq Sids /\ nextSid \in Nat /\ stack \in Seq(Frame)
      /\ prep \in 0 .. MaxSessions
  BY DEF IInv, TypeOK
<1>3. CASE WeakPtrValid(t) /\ PrintPages(prep, params, TRUE, origView, msgs)
  <2>1. prep = t /\ prep \in Sids /\ params.cookie = prep
    BY <1>2, <1>3 DEF WeakPtrValid, IInv, PrepOwnsParams, Sids
  <2>2. MsgsOutcome(msgs, prep) /\ prep' = 0
    BY <1>3, <2>1, PrintPagesMsgs
  <2>3. /\ prep \notin FailedSent(msgs) \cup PagesSent(msgs)
        /\ prep < nextSid
        /\ StackOK(stack, nextSid, PrintedCookies, tasks, prep)
    BY PrintedIsPagesSent DEF FreshSids, FailedUsed
  <2>4. \A i \in 1 .. Len(stack') : stack'[i].sid \notin FailedSent(msgs) \cup {prep}
    BY <1>1, <2>3 DEF StackOK, FailedUsed
  <2>. QED BY <1>1, <1>2, <2>1, <2>2, <2>3, <2>4, EndStep
<1>4. CASE ~WeakPtrValid(t) /\ UNCHANGED <<prep, msgs>>
  BY <1>1, <1>4, QuietStep
<1>. QED BY <1>1, <1>3, <1>4

\* The inductive invariant of PrintedNeverFailed.
OInv == SInv /\ FailedUsed

-----------------------------------------------------------------------------
(* The theorems.                                                            *)

\* At the start nothing has failed.
THEOREM OInvInit == Init => OInv
<1> SUFFICES ASSUME Init PROVE OInv
  OBVIOUS
<1>1. FailedSent(msgs) = {} /\ PagesSent(msgs) = {}
  BY DEF Init, FailedSent, PagesSent
<1>2. SInv
  BY InitIInv, FreshInit DEF SInv
<1>. QED BY <1>1, <1>2, EmptySeq DEF Init, FailedUsed, OInv

\* Every step keeps OInv.
THEOREM OInvNext == OInv /\ [Next]_vars => OInv'
<1> SUFFICES ASSUME IInv, FreshSids, FailedUsed, [Next]_vars
             PROVE  OInv'
  BY DEF OInv, SInv
<1>0. IInv' /\ FreshSids'
  BY NextIInv, FreshNext
<1>1. FailedUsed'
  <2>1. CASE PrintPage \/ OnPrintPages
          \/ (~nodeInProgress /\ HelperPrint("node", FALSE, FALSE))
    <3>1. PICK origin \in Origins, silent \in BOOLEAN, bg \in BOOLEAN :
            HelperPrint(origin, silent, bg)
      BY <2>1 DEF PrintPage, OnPrintPages, Origins
    <3>2. CASE prep # 0 /\ UNCHANGED vars
      BY <3>2, QuietStep DEF vars
    <3>3. CASE prep = 0 /\ CalculateNumberOfPages(origin, silent, bg)
      BY <1>0, <3>3, CalculateOutcome
    <3>. QED BY <3>1, <3>2, <3>3 DEF HelperPrint
  <2>2. CASE ScriptedPrintReply
    BY <1>0, <2>2, ReplyOutcome
  <2>3. CASE OnPrintingDone
    BY <2>3, DoneOutcome
  <2>4. CASE RunPostedTask
    BY <1>0, <2>4, TaskOutcome
  <2>5. CASE DidStopLoading
    BY <2>5, QuietStep DEF DidStopLoading
  <2>6. CASE DetachFrame
    <3>1. PICK i \in 1 .. Len(stack) :
            /\ stack' = [stack EXCEPT ![i].alive = FALSE]
            /\ UNCHANGED <<prep, nextSid, msgs>>
      BY <2>6 DEF DetachFrame
    <3>2. /\ Len(stack') = Len(stack)
          /\ \A k \in 1 .. Len(stack) : stack'[k].sid = stack[k].sid
      BY <3>1 DEF IInv, TypeOK
    <3>. QED BY <3>1, <3>2, QuietStep
  <2>7. CASE Quiescent \/ UNCHANGED vars \/ (nodeInProgress /\ UNCHANGED vars)
    BY <2>7, QuietStep DEF Quiescent, vars
  <2>. QED BY <2>1, <2>2, <2>3, <2>4, <2>5, <2>6, <2>7 DEF Next, PrintNode
<1>. QED BY <1>0, <1>1 DEF OInv, SInv

\* OInv holds in every reachable state.
THEOREM OInvHolds == Spec => []OInv
BY OInvInit, OInvNext, PTL DEF Spec

\* A job whose pages the host has received is never also reported failed:
\* PrintingDone turns notify_browser_of_print_failure_ off before it tears
\* down, and every other PrintingFailed is sent under the cookie of a
\* session that ends without printing, whatever nested Print() calls,
\* stale tasks and late PrintingDone messages intervene.
THEOREM PrintedNeverFailedHolds == Spec => []PrintedNeverFailed
<1>1. OInv => PrintedNeverFailed
  <2> SUFFICES ASSUME OInv, NEW m \in msgs, m.kind = "failed"
               PROVE  ~Printed(m.cookie)
    BY DEF PrintedNeverFailed
  <2>1. m.cookie \in FailedSent(msgs)
    BY DEF FailedSent
  <2>2. m.cookie \notin PagesSent(msgs)
    BY <2>1 DEF OInv, FailedUsed
  <2>. QED BY <2>2 DEF Printed, PagesSent
<1>. QED BY <1>1, OInvHolds, PTL

=============================================================================
