------------------------- MODULE PrintSurfaceProofs -------------------------
(***************************************************************************)
(* Proof that the print controller keeps the surface promise of            *)
(* PrintSurface (Spec => SurfaceSpec), and that every page batch comes     *)
(* from a loaded surface (PagesFromLoadedSurface), for every number of     *)
(* sessions and every set of page counts.                                  *)
(*                                                                         *)
(* Besides IInv the proof needs that session ids are never reused:         *)
(* cookies are issued in order (nextSid), and a session waiting on the     *)
(* stack, holding prep_frame_view_ or named by a posted task has had no    *)
(* pages sent.  Without it, a job taking the surface or printing directly  *)
(* could be one whose pages were already sent.  It also needs that a task  *)
(* posted for the live prep_frame_view_ finds its copy loaded, which holds *)
(* because a session's copy is loaded once.                                *)
(***************************************************************************)
EXTENDS PrintSessionProofs

\* The cookies of the page batches among the notices ms.
PagesSent(ms) == {m.cookie : m \in {x \in ms : x.kind = "pages"}}

\* Every notice among ms was sent from a loaded surface.
AllLoaded(ms) == \A m \in ms : m.loaded

\* The Print() calls waiting on stack st hold distinct session ids, issued
\* before N, none of them in P (printed) or T (tasks) or equal to pr
\* (prep_frame_view_).
StackOK(st, N, P, T, pr) ==
    \A i \in 1 .. Len(st) :
        /\ st[i].sid < N
        /\ st[i].sid \notin P \cup T \cup {pr}
        /\ \A j \in 1 .. Len(st) : j # i => st[j].sid # st[i].sid

\* Session ids are used once.
FreshSids ==
    /\ \A c \in PrintedCookies \cup tasks : c < nextSid
    /\ prep < nextSid
    /\ prep \notin PrintedCookies
    /\ prep \in tasks => ~copyView.loading
    /\ AllLoaded(msgs)
    /\ StackOK(stack, nextSid, PrintedCookies, tasks, prep)

\* The inductive invariant of the refinement.
SInv == IInv /\ FreshSids

\* What a shared step may do to the abstract state: release the surface
\* without sending pages, send the pages of s with no surface held after,
\* or give the surface to s with its copy loading.
Released ==
    /\ prep' = 0 /\ copyView' = NoCopy
    /\ PrintedCookies' = PrintedCookies
PrintedBy(s) ==
    /\ prep' = 0 /\ copyView' = NoCopy
    /\ PrintedCookies' = PrintedCookies \cup {s}
Acquired(s) ==
    /\ prep' = s /\ copyView' = [sid |-> s, loading |-> TRUE]
    /\ PrintedCookies' = PrintedCookies

-----------------------------------------------------------------------------
(* Lemmas about the notices.                                                *)

\* A notice other than a page batch adds no printed job.
LEMMA PagesSentOther ==
    ASSUME NEW ms, NEW k, NEW c, NEW s, NEW l, k # "pages"
    PROVE  PagesSent(ms \cup {Msg(k, c, s, l)}) = PagesSent(ms)
BY DEF PagesSent, Msg

\* A page batch for cookie c adds c.
LEMMA PagesSentPages ==
    ASSUME NEW ms, NEW c, NEW s, NEW l
    PROVE  PagesSent(ms \cup {Msg("pages", c, s, l)}) = PagesSent(ms) \cup {c}
<1>1. Msg("pages", c, s, l).kind = "pages" /\ Msg("pages", c, s, l).cookie = c
  BY DEF Msg
<1>2. \A y : y \in PagesSent(ms \cup {Msg("pages", c, s, l)})
              <=> y \in PagesSent(ms) \cup {c}
  BY <1>1 DEF PagesSent
<1>. QED BY <1>2

\* The printed jobs are those of the current notices.
LEMMA PrintedIsPagesSent ==
    /\ PrintedCookies = PagesSent(msgs)
    /\ PrintedCookies' = PagesSent(msgs')
BY DEF PrintedCookies, PagesSent

\* A printed job is a session.
LEMMA PrintedInSids ==
    ASSUME IInv
    PROVE  PrintedCookies \subseteq Sids
<1> SUFFICES ASSUME NEW m \in msgs, m.kind = "pages" PROVE m.cookie \in Sids
  BY DEF PrintedCookies
<1>1. m \in Notice /\ m.cookie = m.sid
  BY DEF IInv, TypeOK, GoodMsgs
<1>. QED BY <1>1 DEF Notice

-----------------------------------------------------------------------------
(* What the shared steps do to the abstract state.                          *)

\* DidFinishPrinting releases the surface and sends no pages.
LEMMA DidFinishOutcome ==
    ASSUME NEW r, NEW n, NEW p, NEW s, NEW ms,
           PagesSent(ms) = PrintedCookies, AllLoaded(ms),
           DidFinishPrinting(r, n, p, s, ms)
    PROVE  Released /\ AllLoaded(msgs')
<1>1. PagesSent(msgs') = PagesSent(ms) /\ AllLoaded(msgs')
  <2>1. CASE r = "FAIL_PRINT" /\ n /\ p # NoParams
    <3>1. msgs' = ms \cup {Msg("failed", p.cookie, s, TRUE)}
      BY <2>1 DEF DidFinishPrinting
    <3>2. PagesSent(ms \cup {Msg("failed", p.cookie, s, TRUE)}) = PagesSent(ms)
      <4>1. Msg("failed", p.cookie, s, TRUE).kind # "pages"
        BY DEF Msg
      <4>2. \A y : y \in PagesSent(ms \cup {Msg("failed", p.cookie, s, TRUE)})
                    <=> y \in PagesSent(ms)
        BY <4>1 DEF PagesSent
      <4>. QED BY <4>2
    <3>3. AllLoaded(msgs')
      BY <3>1 DEF AllLoaded, Msg
    <3>. QED BY <3>1, <3>2, <3>3
  <2>2. CASE ~(r = "FAIL_PRINT" /\ n /\ p # NoParams)
    BY <2>2 DEF DidFinishPrinting
  <2>. QED BY <2>1, <2>2
<1>. QED BY <1>1, PrintedIsPagesSent DEF DidFinishPrinting, Released

\* PrintPages of session s with its own params, from a loaded surface:
\* it releases the surface, and sends the pages of s if it succeeds.
LEMMA PrintPagesOutcome ==
    ASSUME NEW s, NEW q, q.cookie = s, NEW onCopy \in BOOLEAN, NEW v, NEW ms,
           PagesSent(ms) = PrintedCookies, AllLoaded(ms),
           onCopy => ~copyView.loading,
           PrintPages(s, q, onCopy, v, ms)
    PROVE  (Released \/ PrintedBy(s)) /\ AllLoaded(msgs')
<1> DEFINE ld == ~(onCopy /\ copyView.loading)
           ms1 == ms \cup {Msg("count", q.cookie, s, ld)}
<1>1. PICK m \in PageCounts, ok \in BOOLEAN :
        /\ origView' = IF onCopy THEN v ELSE FinishPrinting(StartPrinting(v, q.bg))
        /\ \/ m = 0 /\ DidFinishPrinting("FAIL_PRINT", notify, q, s, ms)
           \/ m # 0 /\ ~ok /\ DidFinishPrinting("FAIL_PRINT", notify, q, s, ms1)
           \/ /\ m # 0 /\ ok
              /\ msgs' = ms1 \cup {Msg("pages", q.cookie, s, ld)}
              /\ prep' = 0
              /\ copyView' = NoCopy
              /\ params' = q
              /\ notify' = notify
  BY DEF PrintPages
<1>2. ld
  BY DEF ld
<1>3. PagesSent(ms1) = PrintedCookies /\ AllLoaded(ms1)
  <2>1. PagesSent(ms \cup {Msg("count", q.cookie, s, ld)}) = PagesSent(ms)
    BY PagesSentOther
  <2>2. Msg("count", q.cookie, s, ld).loaded
    BY <1>2 DEF Msg
  <2>3. AllLoaded(ms1)
    BY <2>2 DEF AllLoaded, ms1
  <2>. QED BY <2>1, <2>3 DEF ms1
<1>4. CASE m = 0 /\ DidFinishPrinting("FAIL_PRINT", notify, q, s, ms)
  BY <1>4, DidFinishOutcome
<1>5. CASE m # 0 /\ ~ok /\ DidFinishPrinting("FAIL_PRINT", notify, q, s, ms1)
  BY <1>3, <1>5, DidFinishOutcome
<1>6. CASE /\ m # 0 /\ ok
           /\ msgs' = ms1 \cup {Msg("pages", q.cookie, s, ld)}
           /\ prep' = 0
           /\ copyView' = NoCopy
           /\ params' = q
           /\ notify' = notify
  <2>1. PagesSent(ms1 \cup {Msg("pages", q.cookie, s, ld)}) = PagesSent(ms1) \cup {s}
    BY PagesSentPages
  <2>2. PrintedCookies' = PrintedCookies \cup {s}
    BY <1>3, <1>6, <2>1, PrintedIsPagesSent
  <2>3. Msg("pages", q.cookie, s, ld).loaded
    BY <1>2 DEF Msg
  <2>4. AllLoaded(msgs')
    BY <1>3, <1>6, <2>3 DEF AllLoaded
  <2>. QED BY <1>6, <2>2, <2>4 DEF PrintedBy
<1>. QED BY <1>1, <1>4, <1>5, <1>6

\* The end of Print() for session s: a failure releases the surface; with
\* no surface held, s prints directly or takes the surface for its copy.
LEMMA RenderPhaseOutcome ==
    ASSUME NEW s, NEW alive, NEW bg, NEW p \in Params, p.cookie = s, NEW v,
           NEW ms, PagesSent(ms) = PrintedCookies, AllLoaded(ms),
           RenderPhase(s, alive, bg, p, v, ms)
    PROVE  /\ AllLoaded(msgs')
           /\ \/ Released
              \/ prep = 0 /\ PrintedBy(s)
              \/ prep = 0 /\ Acquired(s)
<1> DEFINE q == [p EXCEPT !.bg = bg]
<1>1. q.cookie = s
  BY DEF Params
<1>2. CASE (~alive \/ prep # 0)
           /\ DidFinishPrinting("FAIL_PRINT", notify, q, s, ms)
  BY <1>2, DidFinishOutcome
<1>3. CASE /\ alive /\ prep = 0 /\ q.sel
           /\ prep' = s
           /\ copyView' = [sid |-> s, loading |-> TRUE]
           /\ msgs' = ms
  BY <1>3, PrintedIsPagesSent DEF Acquired
<1>4. CASE alive /\ prep = 0 /\ ~q.sel /\ PrintPages(s, q, FALSE, v, ms)
  BY <1>1, <1>4, PrintPagesOutcome
<1>. QED BY <1>2, <1>3, <1>4 DEF RenderPhase

-----------------------------------------------------------------------------
(* Lemmas about the stack of waiting Print() calls.                         *)

\* StackOK is kept by a later bound, fewer printed jobs or tasks, and a
\* prep_frame_view_ that is released or unchanged; a printed job or task
\* may be added only for the old prep_frame_view_, which no frame holds.
LEMMA StackMono ==
    ASSUME NEW st \in Seq(Frame), NEW N, NEW P, NEW T, NEW pr,
           StackOK(st, N, P, T, pr),
           NEW N2 \in Nat, N \in Nat, N <= N2,
           NEW P2, P2 \subseteq P \cup {pr}, NEW T2, T2 \subseteq T \cup {pr},
           NEW pr2 \in {0, pr}
    PROVE  StackOK(st, N2, P2, T2, pr2)
<1> SUFFICES ASSUME NEW i \in 1 .. Len(st)
             PROVE  /\ st[i].sid < N2
                    /\ st[i].sid \notin P2 \cup T2 \cup {pr2}
                    /\ \A j \in 1 .. Len(st) : j # i => st[j].sid # st[i].sid
  BY DEF StackOK
<1>1. st[i] \in Frame
  BY ElementOfSeq
<1>2. st[i].sid \in Sids
  BY <1>1 DEF Frame
<1>3. /\ st[i].sid < N
      /\ st[i].sid \notin P \cup T \cup {pr}
      /\ \A j \in 1 .. Len(st) : j # i => st[j].sid # st[i].sid
  BY DEF StackOK
<1>. QED BY <1>2, <1>3 DEF Sids

\* No waiting Print() holds the next cookie to be issued.
LEMMA StackNext ==
    ASSUME NEW st \in Seq(Frame), NEW N \in Nat, NEW P, NEW T, NEW pr,
           StackOK(st, N, P, T, pr)
    PROVE  StackOK(st, N, P, T, N)
<1> SUFFICES ASSUME NEW i \in 1 .. Len(st)
             PROVE  /\ st[i].sid < N
                    /\ st[i].sid \notin P \cup T \cup {N}
                    /\ \A j \in 1 .. Len(st) : j # i => st[j].sid # st[i].sid
  BY DEF StackOK
<1>0. st[i] \in Frame
  BY ElementOfSeq
<1>1. st[i].sid \in Sids
  BY <1>0 DEF Frame
<1>2. /\ st[i].sid < N
      /\ st[i].sid \notin P \cup T
      /\ \A j \in 1 .. Len(st) : j # i => st[j].sid # st[i].sid
  BY DEF StackOK
<1>. QED BY <1>1, <1>2 DEF Sids

\* A Print() that starts waiting holds the cookie just issued.
LEMMA StackPush ==
    ASSUME NEW st \in Seq(Frame), NEW N \in Nat, NEW P, NEW T, NEW pr,
           StackOK(st, N, P, T, pr), N \notin P \cup T, pr # N,
           NEW fr \in Frame, fr.sid = N
    PROVE  StackOK(Append(st, fr), N + 1, P, T, pr)
<1> DEFINE st2 == Append(st, fr)
<1>1. /\ st2 \in Seq(Frame) /\ Len(st2) = Len(st) + 1
      /\ \A k \in 1 .. Len(st) : st2[k] = st[k]
      /\ st2[Len(st) + 1] = fr
  BY AppendProperties
<1>2. \A k \in 1 .. Len(st) : st[k].sid \in Sids /\ st[k].sid < N
  <2> SUFFICES ASSUME NEW k \in 1 .. Len(st) PROVE st[k].sid \in Sids /\ st[k].sid < N
    OBVIOUS
  <2>1. st[k] \in Frame
    BY ElementOfSeq
  <2>. QED BY <2>1 DEF StackOK, Frame
<1> SUFFICES ASSUME NEW i \in 1 .. Len(st2)
             PROVE  /\ st2[i].sid < N + 1
                    /\ st2[i].sid \notin P \cup T \cup {pr}
                    /\ \A j \in 1 .. Len(st2) : j # i => st2[j].sid # st2[i].sid
  BY DEF StackOK
<1>3. CASE i = Len(st) + 1
  BY <1>1, <1>2, <1>3 DEF Sids
<1>4. CASE i \in 1 .. Len(st)
  <2>1. /\ st[i].sid \notin P \cup T \cup {pr}
        /\ \A j \in 1 .. Len(st) : j # i => st[j].sid # st[i].sid
    BY <1>4 DEF StackOK
  <2>2. st2[i] = st[i] /\ st[i].sid < N
    BY <1>1, <1>2, <1>4
  <2>3. ASSUME NEW j \in 1 .. Len(st2), j # i PROVE st2[j].sid # st2[i].sid
    <3>1. CASE j = Len(st) + 1
      BY <1>1, <2>2, <3>1
    <3>2. CASE j \in 1 .. Len(st)
      BY <1>1, <2>1, <2>2, <2>3, <3>2
    <3>. QED BY <1>1, <3>1, <3>2
  <2>. QED BY <1>2, <2>1, <2>2, <2>3 DEF Sids
<1>. QED BY <1>1, <1>3, <1>4

\* The innermost Print() leaves the stack: the frames below it hold none
\* of its cookie, so it may become printed, tasked or prep_frame_view_.
LEMMA StackPop ==
    ASSUME NEW st \in Seq(Frame), st # << >>, NEW N, NEW P, NEW T, NEW pr,
           StackOK(st, N, P, T, pr)
    PROVE  LET top == st[Len(st)].sid IN
           StackOK(SubSeq(st, 1, Len(st) - 1), N, P \cup {top}, T \cup {top},
                   top)
<1> DEFINE top == st[Len(st)].sid
           st2 == SubSeq(st, 1, Len(st) - 1)
<1>0. Len(st) \in Nat \ {0}
  BY EmptySeq, LenProperties
<1>1. Len(st) \in Nat /\ Len(st) >= 1
  BY <1>0
<1>2. /\ Len(st2) = Len(st) - 1
      /\ \A k \in 1 .. Len(st) - 1 : st2[k] = st[k]
  <2>1. \A k \in 1 .. Len(st) - 1 : st[k] \in Frame
    BY <1>1, ElementOfSeq
  <2>2. /\ Len(SubSeq(st, 1, Len(st) - 1)) = IF 1 <= Len(st) - 1 THEN Len(st) - 1 ELSE 0
        /\ \A k \in 1 .. Len(st) - 1 : SubSeq(st, 1, Len(st) - 1)[k] = st[1 + k - 1]
    BY <1>1, <2>1, SubSeqProperties
  <2>3. Len(SubSeq(st, 1, Len(st) - 1)) = Len(st) - 1
    <3>1. CASE Len(st) = 1
      <4>1. SubSeq(st, 1, Len(st) - 1) = << >>
        BY <3>1, SubSeqEmpty
      <4>. QED BY <3>1, <4>1, EmptySeq
    <3>2. CASE Len(st) # 1
      <4>0. \A x \in Nat : x >= 1 /\ x # 1 => 1 <= x - 1
        OBVIOUS
      <4>1. 1 <= Len(st) - 1
        BY <1>1, <3>2, <4>0, Zenon
      <4>. QED BY <2>2, <4>1
    <3>. QED BY <3>1, <3>2
  <2>4. \A k \in 1 .. Len(st) - 1 : SubSeq(st, 1, Len(st) - 1)[k] = st[k]
    BY <1>1, <2>2
  <2>. QED BY <2>3, <2>4 DEF st2
<1> SUFFICES ASSUME NEW i \in 1 .. Len(st2)
             PROVE  /\ st2[i].sid < N
                    /\ st2[i].sid \notin P \cup {top} \cup (T \cup {top}) \cup {top}
                    /\ \A j \in 1 .. Len(st2) : j # i => st2[j].sid # st2[i].sid
  BY DEF StackOK
<1>3. i \in 1 .. Len(st) /\ i # Len(st) /\ Len(st) \in 1 .. Len(st)
  BY <1>1, <1>2
<1>4. /\ st[i].sid < N
      /\ st[i].sid \notin P \cup T \cup {pr}
      /\ \A j \in 1 .. Len(st) : j # i => st[j].sid # st[i].sid
  BY <1>3 DEF StackOK
<1>. QED BY <1>1, <1>2, <1>3, <1>4

\* Detaching a waiting Print()'s frame keeps every cookie on the stack.
LEMMA StackDetach ==
    ASSUME NEW st \in Seq(Frame), NEW N, NEW P, NEW T, NEW pr,
           StackOK(st, N, P, T, pr), NEW i \in 1 .. Len(st)
    PROVE  StackOK([st EXCEPT ![i].alive = FALSE], N, P, T, pr)
<1> DEFINE st2 == [st EXCEPT ![i].alive = FALSE]
<1>1. /\ Len(st2) = Len(st)
      /\ \A k \in 1 .. Len(st) : st2[k].sid = st[k].sid
  OBVIOUS
<1>. QED BY <1>1 DEF StackOK

-----------------------------------------------------------------------------
(* The abstract steps.                                                      *)

\* Releasing the surface is the abstract Release, or a stutter if none was
\* held.
LEMMA ReleaseStep ==
    ASSUME prep \in 0 .. MaxSessions, copyView.sid = prep, Released
    PROVE  [Surface!Next]_Surface!svars
<1>1. CASE prep = 0
  BY <1>1 DEF Released, NoCopy, Surface!svars
<1>2. CASE prep # 0
  BY <1>2 DEF Released, NoCopy, Surface!Next, Surface!Release
<1>. QED BY <1>1, <1>2

\* With no surface held, printing a fresh job is the abstract PrintDirect,
\* and taking the surface for it is Acquire.
LEMMA FreshJobStep ==
    ASSUME prep = 0, copyView.sid = 0, NEW s \in Sids,
           s \notin PrintedCookies, PrintedBy(s) \/ Acquired(s)
    PROVE  Surface!Next
<1>1. CASE PrintedBy(s)
  BY <1>1 DEF PrintedBy, NoCopy, Surface!Next, Surface!PrintDirect
<1>2. CASE Acquired(s)
  BY <1>2 DEF Acquired, Surface!Next, Surface!Acquire, Sids
<1>. QED BY <1>1, <1>2

\* The posted CallOnReady of the live prep_frame_view_ printing from its
\* loaded copy is the abstract PrintFromSurface.
LEMMA PrintFromStep ==
    ASSUME prep \in Sids, copyView.sid = prep, ~copyView.loading,
           prep \notin PrintedCookies, PrintedBy(prep)
    PROVE  Surface!Next
BY DEF PrintedBy, NoCopy, Surface!Next, Surface!PrintFromSurface, Sids

-----------------------------------------------------------------------------
(* The end of a session, and the release of the surface.                    *)

\* The jobs among well-formed notices are sessions.
LEMMA PagesSentSids ==
    ASSUME NEW ms, GoodMsgs(ms)
    PROVE  PagesSent(ms) \subseteq Sids
<1> SUFFICES ASSUME NEW m \in ms, m.kind = "pages" PROVE m.cookie \in Sids
  BY DEF PagesSent
<1>1. m \in Notice /\ m.cookie = m.sid
  BY DEF GoodMsgs
<1>. QED BY <1>1 DEF Notice

\* Session s, issued and not yet printed, tasked or holding the surface,
\* ends its Print(): it fails, prints directly or takes the surface.  Its
\* cookie is used up, and the step is an abstract one.
LEMMA SessionEnd ==
    ASSUME IInv, IInv', FreshSids, stack' \in Seq(Frame),
           NEW s \in Sids, s \notin PrintedCookies \cup tasks, s # prep,
           nextSid' \in Nat, nextSid <= nextSid', s < nextSid', tasks' = tasks,
           StackOK(stack', nextSid', PrintedCookies \cup {s}, tasks \cup {s}, s),
           AllLoaded(msgs'),
           \/ Released
           \/ prep = 0 /\ PrintedBy(s)
           \/ prep = 0 /\ Acquired(s)
    PROVE  FreshSids' /\ [Surface!Next]_Surface!svars
<1>1. /\ PrintedCookies \subseteq Sids /\ PrintedCookies' \subseteq Sids
      /\ tasks \subseteq Sids /\ nextSid \in Nat
      /\ prep \in 0 .. MaxSessions /\ copyView.sid = prep
  BY PagesSentSids, PrintedIsPagesSent
     DEF IInv, TypeOK, SurfacesReleased
<1>2. /\ prep' \in {0, s}
      /\ PrintedCookies' \subseteq PrintedCookies \cup {s}
      /\ prep' = s => PrintedCookies' = PrintedCookies
  BY DEF Released, PrintedBy, Acquired
<1>3. /\ \A c \in PrintedCookies \cup tasks : c < nextSid
      /\ prep < nextSid
  BY DEF FreshSids
<1>4. \A c \in PrintedCookies' \cup tasks' : c < nextSid'
  BY <1>1, <1>2, <1>3 DEF Sids
<1>5. prep' < nextSid' /\ prep' \notin PrintedCookies'
  BY <1>1, <1>2, <1>3 DEF Sids
<1>6. prep' \in tasks' => ~copyView'.loading
  BY <1>1, <1>2 DEF Sids
<1>7. StackOK(stack', nextSid', PrintedCookies', tasks', prep')
  BY <1>2, StackMono
<1>8. FreshSids'
  BY <1>4, <1>5, <1>6, <1>7 DEF FreshSids
<1>9. [Surface!Next]_Surface!svars
  BY <1>1, ReleaseStep, FreshJobStep DEF Sids
<1>. QED BY <1>8, <1>9

\* A step that releases the surface, perhaps printing its holder's pages,
\* and removes at most a task, keeps the cookies fresh.
LEMMA ReleaseEnd ==
    ASSUME IInv, IInv', FreshSids, UNCHANGED <<stack, nextSid>>,
           tasks' \subseteq tasks, AllLoaded(msgs'),
           prep' = 0, copyView' = NoCopy,
           PrintedCookies' \subseteq PrintedCookies \cup {prep}
    PROVE  FreshSids'
<1>1. /\ PrintedCookies' \subseteq Sids /\ tasks \subseteq Sids
      /\ nextSid \in 1 .. MaxSessions + 1 /\ stack \in Seq(Frame)
  BY PagesSentSids, PrintedIsPagesSent DEF IInv, TypeOK
<1>2. /\ \A c \in PrintedCookies \cup tasks : c < nextSid
      /\ prep < nextSid
      /\ StackOK(stack, nextSid, PrintedCookies, tasks, prep)
  BY DEF FreshSids
<1>3. \A c \in PrintedCookies' \cup tasks' : c < nextSid'
  BY <1>2
<1>4. StackOK(stack', nextSid', PrintedCookies', tasks', prep')
  BY <1>1, <1>2, StackMono
<1>. QED BY <1>1, <1>3, <1>4 DEF FreshSids, Sids, NoCopy

-----------------------------------------------------------------------------
(* The handlers.                                                            *)

\* Print() past its guard issues a fresh cookie: the new session fails,
\* prints directly, takes the surface, or waits on top of the stack.
LEMMA CalculateRefines ==
    ASSUME IInv, IInv', FreshSids, prep = 0, NEW origin \in Origins,
           NEW silent \in BOOLEAN, NEW bg \in BOOLEAN,
           CalculateNumberOfPages(origin, silent, bg)
    PROVE  FreshSids' /\ [Surface!Next]_Surface!svars
<1> DEFINE s == nextSid
<1>1. /\ s \in Sids /\ nextSid' = s + 1 /\ UNCHANGED tasks
      /\ stack \in Seq(Frame) /\ stack' \in Seq(Frame) /\ tasks \subseteq Sids
  BY SessionsAssumption DEF IInv, TypeOK, CalculateNumberOfPages, Sids
<1>2. /\ \A c \in PrintedCookies \cup tasks : c < nextSid
      /\ StackOK(stack, nextSid, PrintedCookies, tasks, prep)
      /\ AllLoaded(msgs)
      /\ PagesSent(msgs) = PrintedCookies
  BY PrintedIsPagesSent DEF FreshSids
<1>3. /\ s \notin PrintedCookies \cup tasks /\ s # prep
      /\ s \in Nat /\ nextSid' \in Nat /\ nextSid <= nextSid' /\ s < nextSid'
  BY <1>1, <1>2 DEF Sids
<1>4. StackOK(stack, nextSid', PrintedCookies \cup {s}, tasks \cup {s}, s)
  <2>1. StackOK(stack, s, PrintedCookies, tasks, s)
    BY <1>1, <1>2, <1>3, StackNext
  <2>. QED BY <1>1, <1>3, <2>1, StackMono
<1>5. CASE /\ DidFinishPrinting("FAIL_PRINT_INIT", FALSE, NoParams, s,
                                 msgs \cup {Msg("invalid", 0, s, TRUE)})
           /\ UNCHANGED <<stack, origView>>
  <2> DEFINE ms == msgs \cup {Msg("invalid", 0, s, TRUE)}
  <2>1. Msg("invalid", 0, s, TRUE).kind # "pages"
        /\ Msg("invalid", 0, s, TRUE).loaded
    BY DEF Msg
  <2>2. PagesSent(ms) = PrintedCookies
    <3>1. \A y : y \in PagesSent(ms) <=> y \in PagesSent(msgs)
      BY <2>1 DEF PagesSent, ms
    <3>. QED BY <1>2, <3>1
  <2>3. AllLoaded(ms)
    BY <1>2, <2>1 DEF AllLoaded, ms
  <2>4. Released /\ AllLoaded(msgs')
    BY <1>5, <2>2, <2>3, DidFinishOutcome DEF ms
  <2>. QED BY <1>1, <1>3, <1>4, <1>5, <2>4, SessionEnd
<1>6. CASE ~(/\ DidFinishPrinting("FAIL_PRINT_INIT", FALSE, NoParams, s,
                                  msgs \cup {Msg("invalid", 0, s, TRUE)})
             /\ UNCHANGED <<stack, origView>>)
  <2>1. PICK pdf \in BOOLEAN, n \in PageCounts :
            LET p == [cookie |-> s, sel |-> FALSE,
                      fit |-> ~(origin = "node" \/ pdf), bg |-> FALSE]
                v == FinishPrinting(StartPrinting(origView, FALSE))
            IN
            \/ /\ n = 0
               /\ DidFinishPrinting("FAIL_PRINT", notify, p, s, msgs)
               /\ origView' = v
               /\ UNCHANGED stack
            \/ /\ n # 0 /\ silent
               /\ RenderPhase(s, TRUE, bg, p, v, msgs)
               /\ UNCHANGED stack
            \/ /\ n # 0 /\ ~silent
               /\ params' = NoParams
               /\ stack' = Append(stack, [sid |-> s, origin |-> origin,
                                          bg |-> bg, fit |-> p.fit,
                                          alive |-> TRUE])
               /\ origView' = v
               /\ UNCHANGED <<prep, copyView, notify, msgs>>
    BY <1>6 DEF CalculateNumberOfPages
  <2> DEFINE p == [cookie |-> s, sel |-> FALSE,
                   fit |-> ~(origin = "node" \/ pdf), bg |-> FALSE]
             v == FinishPrinting(StartPrinting(origView, FALSE))
             fr == [sid |-> s, origin |-> origin, bg |-> bg, fit |-> p.fit,
                    alive |-> TRUE]
  <2>2. p \in Params /\ p.cookie = s
    BY <1>1 DEF Params
  <2>3. CASE n = 0 /\ DidFinishPrinting("FAIL_PRINT", notify, p, s, msgs)
             /\ origView' = v /\ UNCHANGED stack
    <3>1. Released /\ AllLoaded(msgs')
      BY <1>2, <2>3, DidFinishOutcome
    <3>. QED BY <1>1, <1>3, <1>4, <2>3, <3>1, SessionEnd
  <2>4. CASE n # 0 /\ silent /\ RenderPhase(s, TRUE, bg, p, v, msgs)
             /\ UNCHANGED stack
    <3>1. /\ AllLoaded(msgs')
          /\ \/ Released
             \/ prep = 0 /\ PrintedBy(s)
             \/ prep = 0 /\ Acquired(s)
      BY <1>2, <2>2, <2>4, RenderPhaseOutcome
    <3>. QED BY <1>1, <1>3, <1>4, <2>4, <3>1, SessionEnd
  <2>5. CASE /\ n # 0 /\ ~silent
             /\ params' = NoParams
             /\ stack' = Append(stack, fr)
             /\ origView' = v
             /\ UNCHANGED <<prep, copyView, notify, msgs>>
    <3>1. fr \in Frame /\ fr.sid = s
      BY <1>1, <2>2 DEF Frame, Params
    <3>2. StackOK(stack', nextSid', PrintedCookies, tasks, prep)
      BY <1>1, <1>2, <1>3, <2>5, <3>1, StackPush
    <3>3. PrintedCookies' = PrintedCookies
      BY <2>5 DEF PrintedCookies
    <3>0. msgs' = msgs /\ prep' = prep /\ tasks' = tasks /\ copyView' = copyView
      BY <1>1, <2>5
    <3>4. /\ prep < nextSid /\ prep \notin PrintedCookies
          /\ prep \in tasks => ~copyView.loading
      BY DEF FreshSids
    <3>11. PrintedCookies \subseteq Sids /\ nextSid \in Nat /\ nextSid' = nextSid + 1
      BY <1>1, PrintedInSids DEF Sids
    <3>12. \A c \in PrintedCookies' \cup tasks' : c < nextSid'
      BY <1>1, <1>2, <3>0, <3>3, <3>11 DEF Sids
    <3>13. prep' < nextSid' /\ prep' \notin PrintedCookies'
      BY <3>0, <3>3, <3>4, <3>11
    <3>5. /\ \A c \in PrintedCookies' \cup tasks' : c < nextSid'
          /\ prep' < nextSid' /\ prep' \notin PrintedCookies'
          /\ prep' \in tasks' => ~copyView'.loading
      BY <3>0, <3>4, <3>12, <3>13
    <3>7. AllLoaded(msgs')
      BY <1>2, <3>0
    <3>9. StackOK(stack', nextSid', PrintedCookies', tasks', prep')
      BY <3>2, <3>3, <3>0
    <3>10. FreshSids'
      BY <3>5, <3>7, <3>9 DEF FreshSids
    <3>8. UNCHANGED Surface!svars
      BY <2>5, <3>3 DEF Surface!svars
    <3>. QED BY <3>10, <3>8
  <2>. QED BY <2>1, <2>3, <2>4, <2>5
<1>. QED BY <1>5, <1>6

\* The ScriptedPrint reply ends the innermost waiting Print(), whose cookie
\* was issued and is held by no one else.
LEMMA ReplyRefines ==
    ASSUME IInv, IInv', FreshSids, ScriptedPrintReply
    PROVE  FreshSids' /\ [Surface!Next]_Surface!svars
<1> DEFINE f == stack[Len(stack)]
           s == f.sid
<1>1. /\ stack # << >> /\ stack \in Seq(Frame) /\ stack' \in Seq(Frame)
      /\ stack' = SubSeq(stack, 1, Len(stack) - 1)
      /\ UNCHANGED <<tasks, nextSid>>
      /\ nextSid \in Nat
  BY DEF ScriptedPrintReply, IInv, TypeOK
<1>2. Len(stack) \in 1 .. Len(stack)
  BY <1>1, EmptySeq, LenProperties
<1>3. f \in Frame /\ s \in Sids
  <2>1. f \in Frame
    BY <1>1, <1>2, ElementOfSeq DEF f
  <2>. QED BY <2>1 DEF Frame, s
<1>4. /\ StackOK(stack, nextSid, PrintedCookies, tasks, prep)
      /\ AllLoaded(msgs)
      /\ PagesSent(msgs) = PrintedCookies
  BY PrintedIsPagesSent DEF FreshSids
<1>5. StackOK(stack', nextSid, PrintedCookies \cup {s}, tasks \cup {s}, s)
  BY <1>1, <1>4, StackPop
<1>6. /\ s < nextSid
      /\ s \notin PrintedCookies \cup tasks
      /\ s # prep
  BY <1>2, <1>4 DEF StackOK
<1>7. /\ nextSid' \in Nat /\ nextSid <= nextSid' /\ s < nextSid'
      /\ tasks' = tasks
  BY <1>1, <1>3, <1>6 DEF Sids
<1>8. CASE DidFinishPrinting("OK", notify, NoParams, s, msgs)
  <2>1. Released /\ AllLoaded(msgs')
    BY <1>4, <1>8, DidFinishOutcome
  <2>. QED BY <1>1, <1>3, <1>5, <1>6, <1>7, <2>1, SessionEnd
<1>9. ASSUME NEW sel \in BOOLEAN,
             RenderPhase(s, f.alive, f.bg,
                         [cookie |-> s, sel |-> sel, fit |-> f.fit,
                          bg |-> FALSE], origView, msgs)
      PROVE  FreshSids' /\ [Surface!Next]_Surface!svars
  <2>1. [cookie |-> s, sel |-> sel, fit |-> f.fit, bg |-> FALSE] \in Params
    BY <1>3 DEF Frame, Params
  <2>2. /\ AllLoaded(msgs')
        /\ \/ Released
           \/ prep = 0 /\ PrintedBy(s)
           \/ prep = 0 /\ Acquired(s)
    BY <1>4, <1>9, <2>1, RenderPhaseOutcome
  <2>. QED BY <1>1, <1>3, <1>5, <1>6, <1>7, <2>2, SessionEnd
<1>. QED BY <1>8, <1>9 DEF ScriptedPrintReply

\* A step that changes nothing is an abstract stutter.
LEMMA StutterRefines ==
    ASSUME FreshSids, UNCHANGED vars
    PROVE  FreshSids' /\ [Surface!Next]_Surface!svars
<1>1. PrintedCookies' = PrintedCookies
  BY DEF vars, PrintedCookies
<1>2. FreshSids'
  BY <1>1 DEF vars, FreshSids, AllLoaded
<1>3. UNCHANGED Surface!svars
  BY <1>1 DEF vars, Surface!svars
<1>. QED BY <1>2, <1>3

\* Print() from any caller.
LEMMA HelperPrintRefines ==
    ASSUME IInv, IInv', FreshSids, NEW origin \in Origins,
           NEW silent \in BOOLEAN, NEW bg \in BOOLEAN,
           HelperPrint(origin, silent, bg)
    PROVE  FreshSids' /\ [Surface!Next]_Surface!svars
<1>1. CASE prep # 0 /\ UNCHANGED vars
  BY <1>1, StutterRefines
<1>2. CASE prep = 0 /\ CalculateNumberOfPages(origin, silent, bg)
  BY <1>2, CalculateRefines
<1>. QED BY <1>1, <1>2 DEF HelperPrint

\* PrintingDone releases whatever surface is held.
LEMMA DoneRefines ==
    ASSUME IInv, IInv', FreshSids, OnPrintingDone
    PROVE  FreshSids' /\ [Surface!Next]_Surface!svars
<1>1. PICK c \in Sids, success \in BOOLEAN :
        /\ DidFinishPrinting(IF success THEN "OK" ELSE "FAIL_PRINT",
                             FALSE, params, c, msgs)
        /\ UNCHANGED <<nodeInProgress, stack, origView, tasks, nextSid, jobs>>
  BY DEF OnPrintingDone
<1>2. AllLoaded(msgs) /\ PagesSent(msgs) = PrintedCookies
  BY PrintedIsPagesSent DEF FreshSids
<1>3. Released /\ AllLoaded(msgs')
  BY <1>1, <1>2, DidFinishOutcome
<1>4. FreshSids'
  BY <1>1, <1>3, ReleaseEnd DEF Released
<1>5. [Surface!Next]_Surface!svars
  BY <1>3, ReleaseStep DEF IInv, TypeOK, SurfacesReleased
<1>. QED BY <1>4, <1>5

\* didStopLoading of the live copy posts its task: the abstract Loaded.
LEMMA StopLoadingRefines ==
    ASSUME IInv, FreshSids, DidStopLoading
    PROVE  FreshSids' /\ [Surface!Next]_Surface!svars
<1>1. /\ copyView.loading /\ copyView.sid = prep /\ prep \in Sids
      /\ copyView \in CopyView /\ tasks \subseteq Sids /\ nextSid \in Nat
      /\ stack \in Seq(Frame)
  BY DEF DidStopLoading, IInv, TypeOK, LoadingOwned, SurfacesReleased,
         CopyView, Sids
<1>2. /\ copyView'.sid = prep /\ ~copyView'.loading
      /\ tasks' = tasks \cup {prep}
      /\ UNCHANGED <<prep, stack, nextSid, msgs>>
  BY <1>1 DEF DidStopLoading, CopyView
<1>3. PrintedCookies' = PrintedCookies
  BY <1>2 DEF PrintedCookies
<1>4. /\ \A c \in PrintedCookies \cup tasks : c < nextSid
      /\ prep < nextSid /\ prep \notin PrintedCookies
      /\ AllLoaded(msgs)
      /\ StackOK(stack, nextSid, PrintedCookies, tasks, prep)
  BY DEF FreshSids
<1>5. StackOK(stack', nextSid', PrintedCookies', tasks', prep')
  <2>1. StackOK(stack, nextSid, PrintedCookies, tasks \cup {prep}, prep)
    BY <1>1, <1>4, StackMono
  <2>. QED BY <1>2, <1>3, <2>1
<1>6. FreshSids'
  BY <1>2, <1>3, <1>4, <1>5 DEF FreshSids
<1>7. Surface!Loaded
  BY <1>1, <1>2, <1>3 DEF Surface!Loaded, Sids
<1>. QED BY <1>6, <1>7 DEF Surface!Next

\* The posted CallOnReady: for the live prep_frame_view_ it prints from the
\* loaded copy or fails; for a destroyed one it does nothing.
LEMMA TaskRefines ==
    ASSUME IInv, IInv', FreshSids, RunPostedTask
    PROVE  FreshSids' /\ [Surface!Next]_Surface!svars
<1>1. PICK t \in tasks :
        /\ tasks' = tasks \ {t}
        /\ \/ WeakPtrValid(t) /\ PrintPages(prep, params, TRUE, origView, msgs)
           \/ /\ ~WeakPtrValid(t)
              /\ UNCHANGED <<params, prep, notify, origView, copyView, msgs>>
        /\ UNCHANGED <<nodeInProgress, stack, nextSid, jobs, doneSent>>
  BY DEF RunPostedTask
<1>2. /\ tasks \subseteq Sids /\ copyView.sid = prep /\ nextSid \in Nat
      /\ stack \in Seq(Frame) /\ prep \in 0 .. MaxSessions
  BY DEF IInv, TypeOK, SurfacesReleased
<1>3. /\ \A c \in PrintedCookies \cup tasks : c < nextSid
      /\ prep < nextSid /\ prep \notin PrintedCookies
      /\ prep \in tasks => ~copyView.loading
      /\ AllLoaded(msgs) /\ PagesSent(msgs) = PrintedCookies
      /\ StackOK(stack, nextSid, PrintedCookies, tasks, prep)
  BY PrintedIsPagesSent DEF FreshSids
<1>4. CASE WeakPtrValid(t) /\ PrintPages(prep, params, TRUE, origView, msgs)
  <2>1. prep = t /\ prep \in Sids /\ params.cookie = prep /\ ~copyView.loading
    BY <1>2, <1>3, <1>4 DEF WeakPtrValid, IInv, PrepOwnsParams, Sids
  <2>2. (Released \/ PrintedBy(prep)) /\ AllLoaded(msgs')
    BY <1>3, <1>4, <2>1, PrintPagesOutcome
  <2>3. FreshSids'
    BY <1>1, <2>2, ReleaseEnd DEF Released, PrintedBy
  <2>4. [Surface!Next]_Surface!svars
    BY <1>2, <1>3, <2>1, <2>2, ReleaseStep, PrintFromStep
  <2>. QED BY <2>3, <2>4
<1>5. CASE ~WeakPtrValid(t)
           /\ UNCHANGED <<params, prep, notify, origView, copyView, msgs>>
  <2>1. PrintedCookies' = PrintedCookies
    BY <1>5 DEF PrintedCookies
  <2>2. StackOK(stack', nextSid', PrintedCookies', tasks', prep')
    BY <1>1, <1>2, <1>3, <1>5, <2>1, StackMono
  <2>3. FreshSids'
    BY <1>1, <1>3, <1>5, <2>1, <2>2 DEF FreshSids
  <2>4. UNCHANGED Surface!svars
    BY <1>5, <2>1 DEF Surface!svars
  <2>. QED BY <2>3, <2>4
<1>. QED BY <1>1, <1>4, <1>5

\* Detaching a waiting Print()'s frame is an abstract stutter.
LEMMA DetachRefines ==
    ASSUME IInv, FreshSids, DetachFrame
    PROVE  FreshSids' /\ [Surface!Next]_Surface!svars
<1>1. PICK i \in 1 .. Len(stack) :
        /\ stack' = [stack EXCEPT ![i].alive = FALSE]
        /\ UNCHANGED <<params, prep, notify, nodeInProgress, origView,
                       copyView, tasks, nextSid, jobs, msgs, doneSent>>
  BY DEF DetachFrame
<1>2. PrintedCookies' = PrintedCookies
  BY <1>1 DEF PrintedCookies
<1>3. StackOK(stack', nextSid', PrintedCookies', tasks', prep')
  BY <1>1, <1>2, StackDetach DEF FreshSids, IInv, TypeOK
<1>4. FreshSids'
  BY <1>1, <1>2, <1>3 DEF FreshSids, AllLoaded
<1>5. UNCHANGED Surface!svars
  BY <1>1, <1>2 DEF Surface!svars
<1>. QED BY <1>4, <1>5

-----------------------------------------------------------------------------
(* The refinement.                                                          *)

\* Cookies are fresh at the start, and the start is the abstract start.
THEOREM FreshInit == Init => FreshSids /\ Surface!Init
<1> SUFFICES ASSUME Init PROVE FreshSids /\ Surface!Init
  OBVIOUS
<1>1. PrintedCookies = {}
  BY DEF Init, PrintedCookies
<1>2. StackOK(stack, nextSid, PrintedCookies, tasks, prep)
  BY EmptySeq DEF Init, StackOK
<1>3. FreshSids
  BY <1>1, <1>2 DEF Init, FreshSids, AllLoaded, NoCopy
<1>4. Surface!Init
  BY <1>1 DEF Init, NoCopy, Surface!Init
<1>. QED BY <1>3, <1>4

\* Every step keeps the cookies fresh and is a step of PrintSurface or a
\* stutter of it.
THEOREM FreshNext ==
    IInv /\ FreshSids /\ [Next]_vars => FreshSids' /\ [Surface!Next]_Surface!svars
<1> SUFFICES ASSUME IInv, FreshSids, [Next]_vars
             PROVE  FreshSids' /\ [Surface!Next]_Surface!svars
  OBVIOUS
<1>0. IInv'
  BY NextIInv
<1>1. CASE PrintPage
  BY <1>0, <1>1, HelperPrintRefines DEF PrintPage, Origins
<1>2. CASE OnPrintPages
  BY <1>0, <1>2, HelperPrintRefines DEF OnPrintPages, Origins
<1>3. CASE PrintNode
  <2>1. CASE nodeInProgress /\ UNCHANGED vars
    BY <2>1, StutterRefines
  <2>2. CASE ~nodeInProgress /\ HelperPrint("node", FALSE, FALSE)
    BY <1>0, <2>2, HelperPrintRefines DEF Origins
  <2>. QED BY <1>3, <2>1, <2>2 DEF PrintNode
<1>4. CASE ScriptedPrintReply
  BY <1>0, <1>4, ReplyRefines
<1>5. CASE OnPrintingDone
  BY <1>0, <1>5, DoneRefines
<1>6. CASE DidStopLoading
  BY <1>6, StopLoadingRefines
<1>7. CASE RunPostedTask
  BY <1>0, <1>7, TaskRefines
<1>8. CASE DetachFrame
  BY <1>8, DetachRefines
<1>9. CASE Quiescent
  BY <1>9, StutterRefines DEF Quiescent
<1>10. CASE UNCHANGED vars
  BY <1>10, StutterRefines
<1>. QED BY <1>1, <1>2, <1>3, <1>4, <1>5, <1>6, <1>7, <1>8, <1>9, <1>10
         DEF Next

\* SInv holds in every reachable state.
THEOREM SInvHolds == Spec => []SInv
<1>1. Init => SInv
  BY InitIInv, FreshInit DEF SInv
<1>2. SInv /\ [Next]_vars => SInv'
  BY NextIInv, FreshNext DEF SInv
<1>. QED BY <1>1, <1>2, PTL DEF Spec

\* Every page count and page batch the host receives was rendered from a
\* loaded surface: the posted CallOnReady runs PrintPages on a selection
\* copy only once didStopLoading has come for it, whatever nested Print()
\* calls, PrintingDone messages and stale tasks intervene.
THEOREM PagesFromLoadedSurfaceHolds == Spec => []PagesFromLoadedSurface
<1>1. SInv => PagesFromLoadedSurface
  BY DEF SInv, FreshSids, AllLoaded, PagesFromLoadedSurface
<1>. QED BY <1>1, SInvHolds, PTL

\* The controller implements PrintSurface under the mapping owner <-
\* prep_frame_view_, ready <- its copy view has loaded, printed <- the jobs
\* whose pages the host has: one surface at a time, printed from only by
\* its owner once loaded, and no job's pages sent twice.
THEOREM SurfaceRefinement == Spec => SurfaceSpec
<1>1. Init => Surface!Init
  BY FreshInit
<1>2. SInv /\ [Next]_vars => [Surface!Next]_Surface!svars
  BY FreshNext DEF SInv
<1>. QED BY <1>1, <1>2, SInvHolds, PTL DEF Spec, SurfaceSpec, Surface!Spec

=============================================================================
