---------------------------- MODULE PrintSession ----------------------------
(***************************************************************************)
(* The print-session controller of print_web_view_helper.cc:               *)
(* PrintWebViewHelper::Print and the handlers around it, together with the *)
(* lifecycle of the PrepareFrameAndViewForPrint object (prep_frame_view_)  *)
(* and the surfaces it resizes, puts in paginated-print mode, copies and   *)
(* closes.                                                                 *)
(*                                                                         *)
(* Everything runs on the render thread, so every handler is one atomic    *)
(* step, with two exceptions the code itself creates:                      *)
(*  - GetPrintSettingsFromUser sends the ScriptedPrint sync message with   *)
(*    message pumping: the rest of Print() runs only when the reply comes, *)
(*    and any handler, Print() included, may run in between.  The Print()  *)
(*    calls waiting for a reply form a stack (innermost last).             *)
(*  - CopySelection loads the selection into a new view; didStopLoading    *)
(*    posts CallOnReady to the message loop through a weak pointer to the  *)
(*    PrepareFrameAndViewForPrint.                                         *)
(* A session is identified by the document cookie the host issues for it.  *)
(***************************************************************************)
EXTENDS Naturals, Sequences

CONSTANTS
    MaxSessions,   \* number of print requests the host and the page make
    PageCounts     \* page counts the rendering engine may report

ASSUME SessionsAssumption == MaxSessions \in Nat \ {0}
ASSUME PageCountsAssumption == PageCounts \subseteq Nat

Sids == 1 .. MaxSessions

\* print_pages_params_: NoParams is the null scoped_ptr.  Only the fields the
\* controller reads are kept: the cookie, selection_only, the scaling option
\* (fit to printable area or not) and should_print_backgrounds.
NoParams == [cookie |-> 0, sel |-> FALSE, fit |-> FALSE, bg |-> FALSE]
Params == [cookie : Sids, sel : BOOLEAN, fit : BOOLEAN, bg : BOOLEAN]

\* A WebView as the print code sees it: resized to the print layout size,
\* inside printBegin/printEnd, and its shouldPrintBackgrounds setting.
View == [resized : BOOLEAN, printing : BOOLEAN, bg : BOOLEAN]
IdleView == [resized |-> FALSE, printing |-> FALSE, bg |-> FALSE]

\* The WebView owned by a PrepareFrameAndViewForPrint after CopySelection;
\* sid 0 means no such view is open.
NoCopy == [sid |-> 0, loading |-> FALSE]
CopyView == [sid : 0 .. MaxSessions, loading : BOOLEAN]

\* Who called Print(): window.print() (PrintPage), the host's PrintMsg_PrintPages
\* (OnPrintPages) or PrintNode.
Origins == {"script", "host", "node"}

\* The locals of a Print() call suspended in ScriptedPrint: its session, caller,
\* print_background argument, the saved scaling option, and whether its frame
\* (frame_ref) is still attached.
Frame == [sid : Sids, origin : Origins, bg : BOOLEAN, fit : BOOLEAN,
          alive : BOOLEAN]

\* Notices the host receives: ShowInvalidPrinterSettingsError, PrintingFailed,
\* DidGetPrintedPagesCount and the printed pages.  sid and loaded are history:
\* the session whose code path sent the notice, and whether the surface the
\* pages came from had finished loading.
Kinds == {"invalid", "failed", "count", "pages"}
Notice == [kind : Kinds, cookie : 0 .. MaxSessions, sid : Sids, loaded : BOOLEAN]
Msg(k, c, s, l) == [kind |-> k, cookie |-> c, sid |-> s, loaded |-> l]

VARIABLES
    params,          \* print_pages_params_
    prep,            \* prep_frame_view_: sid of the live object, 0 when null
    notify,          \* notify_browser_of_print_failure_
    nodeInProgress,  \* print_node_in_progress_
    stack,           \* Print() calls waiting for their ScriptedPrint reply
    origView,        \* the borrowed WebView of the page being printed
    copyView,        \* the WebView owned by prep_frame_view_ (selection copy)
    tasks,           \* posted CallOnReady tasks, by the sid of their weak pointer
    nextSid,         \* the cookie the host issues to the next session
    jobs,            \* host: cookies of ScriptedPrint replies it awaits pages for
    msgs,            \* host: notices received
    doneSent         \* host: cookies it has sent PrintMsg_PrintingDone for

vars == <<params, prep, notify, nodeInProgress, stack, origView, copyView,
          tasks, nextSid, jobs, msgs, doneSent>>

TypeOK ==
    /\ params \in Params \cup {NoParams}
    /\ prep \in 0 .. MaxSessions
    /\ notify \in BOOLEAN
    /\ nodeInProgress \in BOOLEAN
    /\ stack \in Seq(Frame)
    /\ origView \in View
    /\ copyView \in CopyView
    /\ tasks \subseteq Sids
    /\ nextSid \in 1 .. MaxSessions + 1
    /\ jobs \subseteq Sids
    /\ msgs \subseteq Notice
    /\ doneSent \subseteq Sids

Init ==
    /\ params = NoParams
    /\ prep = 0
    /\ notify = TRUE
    /\ nodeInProgress = FALSE
    /\ stack = << >>
    /\ origView = IdleView
    /\ copyView = NoCopy
    /\ tasks = {}
    /\ nextSid = 1
    /\ jobs = {}
    /\ msgs = {}
    /\ doneSent = {}

-----------------------------------------------------------------------------
(* Surface operations of PrepareFrameAndViewForPrint on the borrowed view.  *)

\* Backs up size and scroll offset and resizes to the print layout size.
ResizeForPrinting(v) == [v EXCEPT !.resized = TRUE]

\* Resizes back to the backed-up size and scroll offset.
RestoreSize(v) == [v EXCEPT !.resized = FALSE]

\* Resize, apply the background preference, printBegin.
StartPrinting(v, bg) == [ResizeForPrinting(v) EXCEPT !.printing = TRUE, !.bg = bg]

\* printEnd and, the view being borrowed, backgrounds off and size restored.
FinishPrinting(v) ==
    IF v.printing
    THEN RestoreSize([v EXCEPT !.printing = FALSE, !.bg = FALSE])
    ELSE v

-----------------------------------------------------------------------------
(* Steps shared by several handlers.  Each sets params, prep, notify,       *)
(* copyView and msgs; ms is the set of notices sent earlier in the step.    *)

\* DidFinishPrinting: a PrintingFailed notice for FAIL_PRINT when n (the
\* notify flag) is set and there are params; then prep_frame_view_.reset(),
\* whose destructor closes an owned copy view, params reset, notify re-armed.
DidFinishPrinting(result, n, p, s, ms) ==
    /\ msgs' = IF result = "FAIL_PRINT" /\ n /\ p # NoParams
               THEN ms \cup {Msg("failed", p.cookie, s, TRUE)}
               ELSE ms
    /\ prep' = 0
    /\ copyView' = NoCopy
    /\ params' = NoParams
    /\ notify' = TRUE

\* CopySelection: the selection markup is taken with the view resized for
\* printing, then the size is restored before the copy view is created.
CopySelection(v) == RestoreSize(ResizeForPrinting(v))

\* PrintPages on the surface of prep_frame_view_ (the copy view when onCopy),
\* followed by FinishFramePrinting.  StartPrinting reports m pages; m = 0 and
\* a PrintPagesNative failure end in FAIL_PRINT.  On success the params stay
\* until the host's PrintingDone.
PrintPages(s, q, onCopy, v, ms) ==
    \E m \in PageCounts, ok \in BOOLEAN :
        LET loaded == ~(onCopy /\ copyView.loading)
            ms1 == ms \cup {Msg("count", q.cookie, s, loaded)}
        IN
        /\ origView' = IF onCopy THEN v ELSE FinishPrinting(StartPrinting(v, q.bg))
        /\ \/ /\ m = 0
              /\ DidFinishPrinting("FAIL_PRINT", notify, q, s, ms)
           \/ /\ m # 0 /\ ~ok
              /\ DidFinishPrinting("FAIL_PRINT", notify, q, s, ms1)
           \/ /\ m # 0 /\ ok
              /\ msgs' = ms1 \cup {Msg("pages", q.cookie, s, loaded)}
              /\ prep' = 0
              /\ copyView' = NoCopy
              /\ params' = q
              /\ notify' = notify

\* Mutant: RenderPagesForPrint without its prep_frame_view_ check.
RenderPhaseNoPrepCheck(s, alive, bg, p, v, ms) ==
    LET q == [p EXCEPT !.bg = bg] IN
    \/ /\ ~alive
       /\ DidFinishPrinting("FAIL_PRINT", notify, q, s, ms)
       /\ origView' = v
    \/ /\ alive /\ q.sel
       /\ prep' = s
       /\ copyView' = [sid |-> s, loading |-> TRUE]
       /\ params' = q
       /\ origView' = CopySelection(v)
       /\ msgs' = ms
       /\ notify' = notify
    \/ /\ alive /\ ~q.sel
       /\ PrintPages(s, q, FALSE, v, ms)

\* The end of Print() once the settings are final: should_print_backgrounds
\* from the caller, then RenderPagesForPrint, which fails when the frame is
\* gone or a prep_frame_view_ exists; otherwise a new PrepareFrameAndViewForPrint
\* and CopySelectionIfNeeded: a selection is copied into a new view that starts
\* loading, anything else is printed at once (CallOnReady runs synchronously).
RenderPhase(s, alive, bg, p, v, ms) ==
    LET q == [p EXCEPT !.bg = bg] IN
    \/ /\ ~alive \/ prep # 0
       /\ DidFinishPrinting("FAIL_PRINT", notify, q, s, ms)
       /\ origView' = v
    \/ /\ alive /\ prep = 0 /\ q.sel
       /\ prep' = s
       /\ copyView' = [sid |-> s, loading |-> TRUE]
       /\ params' = q
       /\ origView' = CopySelection(v)
       /\ msgs' = ms
       /\ notify' = notify
    \/ /\ alive /\ prep = 0 /\ ~q.sel
       /\ PrintPages(s, q, FALSE, v, ms)

\* CalculateNumberOfPages asks the host for default settings (InitPrintSettings;
\* invalid ones end in FAIL_PRINT_INIT after ShowInvalidPrinterSettingsError)
\* and counts pages with a provisional PrepareFrameAndViewForPrint (printBegin,
\* StartPrinting, FinishPrinting in its destructor); zero pages end in
\* FAIL_PRINT.  A silent print goes on to render; otherwise
\* GetPrintSettingsFromUser resets the params, sends ScriptedPrint and the call
\* waits for the reply.
CalculateNumberOfPages(origin, silent, bg) ==
    /\ nextSid <= MaxSessions
    /\ nextSid' = nextSid + 1
    /\ UNCHANGED <<tasks, jobs, doneSent>>
    /\ LET s == nextSid IN
       \/ /\ DidFinishPrinting("FAIL_PRINT_INIT", FALSE, NoParams, s,
                               msgs \cup {Msg("invalid", 0, s, TRUE)})
          /\ UNCHANGED <<stack, origView>>
       \/ \E pdf \in BOOLEAN, n \in PageCounts :
            LET p == [cookie |-> s, sel |-> FALSE,
                      fit |-> ~(origin = "node" \/ pdf), bg |-> FALSE]
                v == FinishPrinting(StartPrinting(origView, FALSE))
            IN
            \/ /\ n = 0
               /\ DidFinishPrinting("FAIL_PRINT", notify, p, s, msgs)
               /\ origView' = v
               /\ UNCHANGED stack
            \/ /\ n # 0 /\ silent
               /\ RenderPhase(s, TRUE, bg, p, v, msgs)
               /\ UNCHANGED stack
            \/ /\ n # 0 /\ ~silent
               /\ params' = NoParams
               /\ stack' = Append(stack, [sid |-> s, origin |-> origin,
                                          bg |-> bg, fit |-> p.fit,
                                          alive |-> TRUE])
               /\ origView' = v
               /\ UNCHANGED <<prep, copyView, notify, msgs>>

\* Mutant: Print() without its "still not finished" check.
PrintUnguarded(origin, silent, bg) == CalculateNumberOfPages(origin, silent, bg)

\* Print(): ignored while a prep_frame_view_ exists.
HelperPrint(origin, silent, bg) ==
    \/ /\ prep # 0
       /\ UNCHANGED vars
    \/ /\ prep = 0
       /\ CalculateNumberOfPages(origin, silent, bg)

-----------------------------------------------------------------------------
(* Handlers.                                                                *)

\* The host has pages for cookie c.
Printed(c) == \E m \in msgs : m.kind = "pages" /\ m.cookie = c

\* PrintPage: window.print() in the page.
PrintPage ==
    /\ HelperPrint("script", FALSE, FALSE)
    /\ UNCHANGED nodeInProgress

\* OnPrintPages: the host's PrintMsg_PrintPages(silent, print_background).
OnPrintPages ==
    \E silent, bg \in BOOLEAN :
        /\ HelperPrint("host", silent, bg)
        /\ UNCHANGED nodeInProgress

\* PrintNode: ignored while print_node_in_progress_; the flag is cleared when
\* Print() returns, which is after the ScriptedPrint reply if it waits for one.
PrintNode ==
    \/ /\ nodeInProgress
       /\ UNCHANGED vars
    \/ /\ ~nodeInProgress
       /\ HelperPrint("node", FALSE, FALSE)
       /\ nodeInProgress' = (stack' # stack)

\* Mutant: PrintNode's flag is not cleared when its Print() returns late.
ScriptedPrintReplyKeepsNodeFlag ==
    /\ stack # << >>
    /\ LET f == stack[Len(stack)] IN
       /\ stack' = SubSeq(stack, 1, Len(stack) - 1)
       /\ UNCHANGED nodeInProgress
       /\ \/ /\ DidFinishPrinting("OK", notify, NoParams, f.sid, msgs)
             /\ UNCHANGED <<origView, jobs>>
          \/ \E sel \in BOOLEAN :
               /\ jobs' = jobs \cup {f.sid}
               /\ RenderPhase(f.sid, f.alive, f.bg,
                              [cookie |-> f.sid, sel |-> sel, fit |-> f.fit,
                               bg |-> FALSE],
                              origView, msgs)
    /\ UNCHANGED <<tasks, nextSid, doneSent>>

\* Mutant: any ScriptedPrint reply clears PrintNode's flag, also the reply of
\* a Print() nested in the context-menu Print()'s pump.
ScriptedPrintReplyClearsNodeFlag ==
    /\ stack # << >>
    /\ LET f == stack[Len(stack)] IN
       /\ stack' = SubSeq(stack, 1, Len(stack) - 1)
       /\ nodeInProgress' = FALSE
       /\ \/ /\ DidFinishPrinting("OK", notify, NoParams, f.sid, msgs)
             /\ UNCHANGED <<origView, jobs>>
          \/ \E sel \in BOOLEAN :
               /\ jobs' = jobs \cup {f.sid}
               /\ RenderPhase(f.sid, f.alive, f.bg,
                              [cookie |-> f.sid, sel |-> sel, fit |-> f.fit,
                               bg |-> FALSE],
                              origView, msgs)
    /\ UNCHANGED <<tasks, nextSid, doneSent>>

\* The ScriptedPrint reply reaches the innermost waiting Print(): the saved
\* scaling option is restored into the new params; a reply without dpi or
\* cookie (the user cancelled) releases everything silently with OK.
ScriptedPrintReply ==
    /\ stack # << >>
    /\ LET f == stack[Len(stack)] IN
       /\ stack' = SubSeq(stack, 1, Len(stack) - 1)
       /\ nodeInProgress' = IF f.origin = "node" THEN FALSE ELSE nodeInProgress
       /\ \/ /\ DidFinishPrinting("OK", notify, NoParams, f.sid, msgs)
             /\ UNCHANGED <<origView, jobs>>
          \/ \E sel \in BOOLEAN :
               /\ jobs' = jobs \cup {f.sid}
               /\ RenderPhase(f.sid, f.alive, f.bg,
                              [cookie |-> f.sid, sel |-> sel, fit |-> f.fit,
                               bg |-> FALSE],
                              origView, msgs)
    /\ UNCHANGED <<tasks, nextSid, doneSent>>

\* Mutant: OnPrintingDone that leaves failure notification on.
OnPrintingDoneNotifying ==
    \E c \in Sids, success \in BOOLEAN :
        /\ Printed(c)
        /\ c \notin doneSent
        /\ doneSent' = doneSent \cup {c}
        /\ DidFinishPrinting(IF success THEN "OK" ELSE "FAIL_PRINT",
                             notify, params, c, msgs)
        /\ UNCHANGED <<nodeInProgress, stack, origView, tasks, nextSid, jobs>>

\* OnPrintingDone: the host's PrintMsg_PrintingDone(success) for a job whose
\* pages it has; it carries no cookie.  Notification is turned off, then
\* DidFinishPrinting releases whatever session is current.
OnPrintingDone ==
    \E c \in Sids, success \in BOOLEAN :
        /\ Printed(c)
        /\ c \notin doneSent
        /\ doneSent' = doneSent \cup {c}
        /\ DidFinishPrinting(IF success THEN "OK" ELSE "FAIL_PRINT",
                             FALSE, params, c, msgs)
        /\ UNCHANGED <<nodeInProgress, stack, origView, tasks, nextSid, jobs>>

\* Mutant: didStopLoading that posts no CallOnReady.
DidStopLoadingNoTask ==
    /\ copyView.loading
    /\ copyView' = [copyView EXCEPT !.loading = FALSE]
    /\ UNCHANGED <<params, prep, notify, nodeInProgress, stack, origView,
                   tasks, nextSid, jobs, msgs, doneSent>>

\* didStopLoading of the copy view posts CallOnReady with a weak pointer to
\* the PrepareFrameAndViewForPrint that owns the view.
DidStopLoading ==
    /\ copyView.loading
    /\ copyView' = [copyView EXCEPT !.loading = FALSE]
    /\ tasks' = tasks \cup {copyView.sid}
    /\ UNCHANGED <<params, prep, notify, nodeInProgress, stack, origView,
                   nextSid, jobs, msgs, doneSent>>

\* Mutant: the task bound with base::Unretained instead of a weak pointer.
WeakPtrIgnored(t) == prep # 0

\* The posted task runs only if its weak pointer is still valid, that is the
\* PrepareFrameAndViewForPrint it was bound to is still prep_frame_view_.
WeakPtrValid(t) == prep = t

\* The posted task: CallOnReady -> OnFramePreparedForPrintPages -> PrintPages
\* on prep_frame_view_'s surface with the current params -> FinishFramePrinting.
RunPostedTask ==
    \E t \in tasks :
        /\ tasks' = tasks \ {t}
        /\ \/ /\ WeakPtrValid(t)
              /\ PrintPages(prep, params, TRUE, origView, msgs)
           \/ /\ ~WeakPtrValid(t)
              /\ UNCHANGED <<params, prep, notify, origView, copyView, msgs>>
        /\ UNCHANGED <<nodeInProgress, stack, nextSid, jobs, doneSent>>

\* The frame of a Print() waiting for its reply is detached (navigation).
DetachFrame ==
    \E i \in 1 .. Len(stack) :
        /\ stack[i].alive
        /\ stack' = [stack EXCEPT ![i].alive = FALSE]
        /\ UNCHANGED <<params, prep, notify, nodeInProgress, origView, copyView,
                       tasks, nextSid, jobs, msgs, doneSent>>

\* All requests made and all work finished: the renderer idles.
Quiescent ==
    /\ nextSid > MaxSessions
    /\ stack = << >>
    /\ prep = 0
    /\ tasks = {}
    /\ \A c \in Sids : Printed(c) => c \in doneSent
    /\ UNCHANGED vars

Next ==
    \/ PrintPage
    \/ OnPrintPages
    \/ PrintNode
    \/ ScriptedPrintReply
    \/ OnPrintingDone
    \/ DidStopLoading
    \/ RunPostedTask
    \/ DetachFrame
    \/ Quiescent

Spec == Init /\ [][Next]_vars

-----------------------------------------------------------------------------
(* Properties.                                                              *)

\* While a PrepareFrameAndViewForPrint is prep_frame_view_, print_pages_params_
\* are those of its own session: nothing a handler does in between (a nested
\* Print(), a ScriptedPrint reply, PrintingDone) leaves other params under a
\* live prep_frame_view_, so its posted CallOnReady prints with its own cookie.
PrepOwnsParams ==
    prep # 0 => params.cookie = prep

\* Pages printed from a selection copy are rendered only once that copy has
\* finished loading: the posted CallOnReady never runs PrintPages on a view
\* still loading (the weak pointer of didStopLoading).
PagesFromLoadedSurface ==
    \A m \in msgs : m.loaded

\* A job whose pages the host has received is never also reported failed to
\* it: once PrintPages sends a job's pages its print_pages_params_ stay set
\* until PrintingDone, which turns notify_browser_of_print_failure_ off before
\* DidFinishPrinting, and no failure of a later session (a nested Print(), a
\* stale posted CallOnReady, a stale PrintingDone) is sent under a printed
\* job's cookie.
PrintedNeverFailed ==
    \A m \in msgs : m.kind = "failed" => ~Printed(m.cookie)

\* print_node_in_progress_ is set exactly while a context-menu Print() waits
\* for its ScriptedPrint reply: the reply of a Print() nested in its pump
\* does not clear it, so a second context-menu print stays refused, and its
\* own reply does (PrintNode, ScriptedPrintReply).
NodeFlagTracksCaller ==
    nodeInProgress = (\E i \in 1 .. Len(stack) : stack[i].origin = "node")

\* The spec (sections 3 and 5): a new print request while a session is active
\* is rejected without altering state.  Checked as: no new session starts
\* while a Print() waits for its settings or a prep_frame_view_ exists.
NoNestedSession ==
    [][nextSid' # nextSid => stack = << >> /\ prep = 0]_vars

\* The DCHECK(!frame->isLoading()) of FinishPrinting: an owned copy view is
\* never closed while it is still loading.
CopyNeverClosedLoading ==
    [][copyView.loading => copyView'.sid = copyView.sid]_vars

\* The spec (section 4.3): failure after the settings are obtained is reported
\* to the host.  Every job the host accepted through ScriptedPrint gets a page
\* count or a PrintingFailed, or is still being prepared.
JobsAnswered ==
    \A c \in jobs :
        \/ prep = c
        \/ \E m \in msgs : m.cookie = c /\ m.kind \in {"count", "failed"}


-----------------------------------------------------------------------------
(* Liveness.                                                                *)

\* What the code relies on to make progress: the host eventually answers a
\* ScriptedPrint message (the Send at line 939 has no timeout), Blink
\* eventually stops loading the data: URL of a selection copy, and the
\* render thread's message loop eventually runs a posted task.  Nothing
\* is assumed of the page, the user or the host's other messages.
Fairness ==
    /\ WF_vars(ScriptedPrintReply)
    /\ WF_vars(DidStopLoading)
    /\ WF_vars(RunPostedTask)

LiveSpec == Spec /\ Fairness

\* PrintNode's print_node_in_progress_ is always cleared again, so a later
\* context-menu print is not refused forever: the Print() it guards returns
\* once the ScriptedPrint replies of it and of every call nested in its
\* pump have come (PrintNode, ScriptedPrintReply).
NodeGuardReleased ==
    nodeInProgress ~> ~nodeInProgress

\* A PrepareFrameAndViewForPrint is never held forever: a selection copy
\* finishes loading, didStopLoading's posted CallOnReady prints it and
\* FinishFramePrinting resets prep_frame_view_, unless a failure or
\* PrintingDone releases it first; otherwise Print() would ignore every
\* later request.
PrepReleased ==
    \A s \in Sids : prep = s ~> prep # s

-----------------------------------------------------------------------------
(* Refinement of the surface promise (PrintSurface).                       *)

\* The jobs whose pages the host has received.
PrintedCookies == {m.cookie : m \in {x \in msgs : x.kind = "pages"}}

Surface == INSTANCE PrintSurface
    WITH Sessions <- Sids,
         owner <- prep,
         ready <- copyView.sid # 0 /\ ~copyView.loading,
         printed <- PrintedCookies

\* The controller keeps the surface promise: prep_frame_view_ is only
\* created when none exists, pages are sent from a selection copy only by
\* the job owning it and only after it loaded, a job is printed directly
\* only while no copy is held, and no job's pages are sent twice, across
\* nested Print() calls, late PrintingDone and stale posted tasks.
SurfaceSpec == Surface!Spec

=============================================================================
