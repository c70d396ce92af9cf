# Verification of the print helper

TLA+ models, TLC runs and TLAPS proofs for
`src/chromium_src/chrome/renderer/printing/print_web_view_helper.cc`. This
file is the renderer-side printing of atom-shell's copy of Chromium's
`PrintWebViewHelper`.

## The system

There are five parts in the file, and they interact as follows.

* **Session controller** (`PrintWebViewHelper`).
  * Entry points: `Print` and its callers `PrintPage` (window.print()),
    `OnPrintPages` (host IPC) and `PrintNode` (context menu).
  * Steps: `CalculateNumberOfPages` (default settings from the host, then a
    provisional page count) and `GetPrintSettingsFromUser` (ScriptedPrint
    sync IPC).
  * Rendering: `RenderPagesForPrint`, `PrintPages`, `FinishFramePrinting`.
  * Ending: `DidFinishPrinting` and the host's `OnPrintingDone`.
  * State: `print_pages_params_`, `prep_frame_view_`,
    `notify_browser_of_print_failure_`, `print_node_in_progress_`.
* **Surface lifecycle** (`PrepareFrameAndViewForPrint`).
  * It resizes the page's view for printing, starts and ends paginated
    printing, and restores the view.
  * For selection-only printing it copies the selection into a new WebView
    that it owns and loads. `didStopLoading` then posts `CallOnReady` through
    a weak pointer.
* **Geometry.** `GetCssPrintParams` (with its one-level fallback),
  `EnsureOrientationMatches`, `FitPrintParamsToPage`,
  `CalculatePrintParamsForCss`, `CalculatePageLayoutFromPrintParams`,
  `ComputePageLayoutInPointsForCss` and
  `GetPageSizeAndContentAreaFromPageLayout`.
* **Page dispatch.** `PrintPages` and the Mac `PrintPagesNative`, which
  chooses which page indices to print.
* **FrameReference.** A frame pointer re-validated against the view's frame
  tree before each use.

Everything runs on the render thread, with two exceptions that the code
creates itself:

1. The ScriptedPrint sync message is sent with `EnableMessagePumping`
   (line 938). While `Print()` waits for the user's settings, any handler can
   run, `Print()` included.
2. The selection copy loads asynchronously, and its continuation is a posted
   task guarded by a weak pointer (line 566).

Almost every hazard of this code comes from these two suspension points:

* `prep_frame_view_` is null while `Print()` waits, so the re-entrancy guard
  does not hold.
* `print_pages_params_` is overwritten when the reply returns (line 941).
* `PrintingDone` carries no cookie, so it ends whatever session is current.
* A posted task may find its surface gone.

## Modules

| Module | Models | Kind |
|---|---|---|
| `PrintSession` | session controller, surface lifecycle, FrameReference | state machine |
| `PrintSessionProofs` | theorems about `PrintSession` | TLAPS |
| `PrintSurface` | what the controller promises about its surface, seen from the host | abstract spec |
| `PrintSurfaceProofs` | proof that `PrintSession` refines `PrintSurface` | TLAPS |
| `OutcomeProofs` | proof that no printed job is reported failed | TLAPS |
| `NodeGuardProofs` | proof that PrintNode's flag tracks its waiting call | TLAPS |
| `MC_PrintSession` | 3 sessions, page counts {0, 2} | TLC instance |
| `PrintGeometry` | geometry functions, page selection | pure operators |
| `GeometryCheck` | harness: one printer page and one CSS layout per state | TLC harness |
| `MC_GeometryMac`, `MC_Geometry300` | Mac (72 dpi) and 300 dpi inputs | TLC instances |
| `PagesCheck`, `MC_Pages` | harness for the page list of PrintPagesNative | TLC harness |
| `GeometryProofs` | theorems about the geometry run's invariants | TLAPS |

### PrintSession

* **State.**
  * The controller's fields: `params`, `prep` (the session id of the live
    `prep_frame_view_`, 0 for null), `notify` and `nodeInProgress`.
  * `stack`: the `Print()` calls suspended in ScriptedPrint. Only the
    innermost can receive its reply, because nested pumps are LIFO.
  * `origView`: the page's borrowed view (resized, printing, backgrounds).
  * `copyView`: the owned selection copy (its session, and whether it is
    loading).
  * `tasks`: posted `CallOnReady` tasks, by the session of their weak
    pointer.
  * The host's side, needed to state properties: the next cookie `nextSid`,
    `jobs` (the cookies it returned settings for), `msgs` (the notices it
    received, each tagged with the session whose code sent it and whether
    its surface had loaded) and `doneSent`.
* **Actions.**
  * `PrintPage`, `OnPrintPages` and `PrintNode` call `HelperPrint` (the
    code's `Print`).
  * `ScriptedPrintReply`: the rest of `Print()` after the pump, with the
    user's settings or a cancel.
  * `OnPrintingDone`, `DidStopLoading` and `RunPostedTask` (`CallOnReady`,
    or a task dropped by a dead weak pointer).
  * `DetachFrame`: the frame of a waiting call goes away.
  * `Quiescent`: the final stutter, once all work is done.
* **Shared steps.** Each action includes all of its calls.
  * `DidFinishPrinting` and `PrintPages` (with `FinishFramePrinting`).
  * `RenderPhase`: `RenderPagesForPrint`, `CopySelectionIfNeeded`, and the
    synchronous `CallOnReady` for a non-selection print.
  * `CalculateNumberOfPages`, which includes `InitPrintSettings` and the
    provisional surface.
* **Data abstraction.**
  * A session is identified by its cookie.
  * Print settings keep only the cookie, `selection_only`, the scaling option
    and the backgrounds flag.
  * Whether the target is a PDF plugin, the page counts, the host's answers
    and the success of the platform `PrintPagesNative` are nondeterministic
    choices. The Mac version in this file always succeeds; the others are in
    other files.
  * The host's default settings are taken to have backgrounds and selection
    off.
  * Null nodes given to `PrintNode` return before any state change and are
    not modelled.
* **The host's PrintingDone is narrowed.** `OnPrintingDone` fires only for
  a cookie whose pages the host has, and once per cookie. The real browser
  can also send PrintingDone after a job that got only a page count or
  failed. The model leaves that out, so no run says anything about a
  PrintingDone for such a job. Since PrintingDone carries no cookie, the
  modelled one can still arrive while any later session is current.

### PrintSurface and the refinement

`PrintSurface` is the promise, with three variables:

* `owner`: the job holding the one `PrepareFrameAndViewForPrint`, 0 if none.
* `ready`: whether its selection copy has loaded.
* `printed`: the jobs whose pages were sent.

It has five actions:

* `Acquire(s)`: a job that has not printed takes the free surface.
* `Loaded`: the surface's copy finishes loading.
* `PrintFromSurface`: the holder prints once, from a loaded copy, and gives
  the surface up.
* `Release`: the surface is given up without printing.
* `PrintDirect(s)`: a job that has not printed prints from the page while no
  surface is held.

`PrintSession` defines `Surface == INSTANCE PrintSurface` with this mapping:

* `owner` is `prep`.
* `ready` is `copyView.sid # 0 /\ ~copyView.loading`.
* `printed` is `PrintedCookies`, the cookies of the page batches the host
  has.

Every concrete step is one abstract step or a stutter:

* `RenderPagesForPrint` copying a selection is `Acquire`.
* `didStopLoading` is `Loaded`.
* The posted `CallOnReady` is `PrintFromSurface` or `Release`.
* `DidFinishPrinting` and `PrintingDone` are `Release`.
* A non-selection print is `PrintDirect`.
* A waiting `Print()`, a dropped task and a detached frame are stutters.

### PrintGeometry and GeometryCheck

* **Parameters.** Print parameters are records in device units: page,
  content, top and left margins, printable area, dpi and cookie.
* **Conversions.**
  * `ConvertUnit` (printing/units.cc, outside `src/`, so spec-modelled)
    rounds half away from zero.
  * The doubles of `FitPrintParamsToPage` are computed exactly on rationals
    and truncated toward zero (`CDiv`), like `static_cast<int>`.
  * `gfx::Size` clamps negative values to 0.
* **CSS.** What a frame's `@page` rules declare is a record: no frame
  (`NoFrame`), or a size and margins, either of which may be `CssAuto`.
* **Harness.** `GeometryCheck` holds one printer page and one CSS layout per
  state. A step lays out the next page of the document with a new CSS
  declaration.

## Runs

Each row below is a run listed in `PROJECT.json`. A pass run's properties
hold. A violation run checks one property, and TLC finds it violated.

| Run | Expect | What it shows |
|---|---|---|
| session_core | pass | `PrintedNeverFailed`, `NodeFlagTracksCaller`, `PrepOwnsParams` and `PagesFromLoadedSurface` hold over 32,055 states. These cover nested calls in the pump, selection copies, stale tasks, detached frames, and a PrintingDone for a printed job arriving while any later session is current. `PrintedNeverFailed`: no job whose pages the host has is also reported failed. `NodeFlagTracksCaller`: `print_node_in_progress_` is set exactly while a context-menu `Print()` waits, so the reply to a `Print()` nested in its pump does not clear it. |
| session_nested | violation | `NoNestedSession`: window.print() during the pumped ScriptedPrint starts a second session. The spec says a second `Print()` is rejected. |
| session_copy_closed_loading | violation | `CopyNeverClosedLoading`: the `DCHECK(!frame->isLoading())` at line 612 is reachable. Session 1 waits, nested session 2 gets settings for a selection and starts loading its copy, then session 1's cancel runs `DidFinishPrinting(OK)`. |
| session_jobs_answered | violation | `JobsAnswered`: in the same trace, session 2's job gets neither a page count nor PrintingFailed. |
| session_live | pass | `NodeGuardReleased` and `PrepReleased` hold under `LiveSpec` (the fairness below): `print_node_in_progress_` is always cleared again, and no session keeps `prep_frame_view_` forever. |
| session_surface | pass | `SurfaceSpec`: `Spec` implements `PrintSurface` under the refinement mapping. This holds through nested calls, late PrintingDone and stale tasks. TLC also checked it with 4 sessions (808,497 states). |
| geometry_mac | pass | `FitStaysOnPage`, `ReconciledOrientation` and `NoCssKeepsPrinterLayout` hold on the Mac. |
| geometry_300_closure | violation | `LayoutClosure`: at 300 dpi, content and margins in points do not add up to the page size. |
| geometry_300_fallback | violation | `CssFallbackSucceeds`: content under a CSS pixel makes `CHECK(frame != NULL)` fire. |
| pages_filtered | violation | `RequestedPagesPrinted`: with a list such as <<1, 0>> on a 1-page document, nothing is printed, although the spec says the list is filtered. |

Each property of a pass run is killed by a plausible mutant of the code
(`PROJECT.json`, "mutants"):

| Mutant | Kills |
|---|---|
| any ScriptedPrint reply clears PrintNode's flag | `NodeFlagTracksCaller` |
| `OnPrintingDone` that leaves failure notification on | `PrintedNeverFailed` |
| `Print` without its `prep_frame_view_` check | `PrepOwnsParams` |
| the posted task bound unretained instead of weakly | `PagesFromLoadedSurface` |
| fit by the larger ratio | `FitStaysOnPage` |
| orientation swap of the content only | `ReconciledOrientation` |
| right margin derived from the top margin | `NoCssKeepsPrinterLayout` |
| PrintNode's flag not cleared when its `Print()` returns after the reply | `NodeGuardReleased` |
| `didStopLoading` that posts no `CallOnReady` | `PrepReleased` |
| `RenderPagesForPrint` without its `prep_frame_view_` check | `SurfaceSpec` |

### Bounds

* **Sessions.** Three sessions is the smallest number for which a nested
  session can run inside another's pump while a third request arrives.
  * Every order of two nested replies occurs.
  * A stale PrintingDone for one session can hit another's copy.
* **Page counts.** {0, 2} covers both the zero-page failure and the printing
  path.
* **Geometry inputs.**
  * Pages and content of a few units cover pages in both orientations,
    square pages, zero and non-zero margins, CSS sizes smaller and larger
    than the page in each dimension, and margins that leave no content.
  * At 300 dpi, content of 1 unit is less than a CSS pixel (96 per inch).
  * The rounding behaviour depends only on the residues, which these ranges
    cover.
* **Page lists.** Up to 3 entries out of 0..3, for documents of 1 to 3
  pages.

### Two observations from modelling

* **No CSS override.** A frame with no CSS override gets the printer's page
  size and margins back exactly on the Mac. Its content size can still drift
  by one unit, because it is recomputed in pixels from two separately
  rounded margins. With a top margin, the content can then reach one unit
  past the bottom of the page. The spec's single scenario (Letter, all values
  multiples of 3) is exact. `NoCssKeepsPrinterLayout` states the bound.
* **Square pages.** `EnsureOrientationMatches` compares strict
  landscape-ness, so it counts a square printer page as portrait. Under
  landscape CSS it swaps the page's content size and printable area. The
  page size stays the same, since its two sides are equal. The turned page
  is still square, so it cannot take the CSS orientation, and
  `ReconciledOrientation` states the orientation only for non-square
  printer pages.

### Fairness

`Spec` has no fairness, and the safety runs use it. `LiveSpec` adds weak
fairness on three actions, and only on these:

* `ScriptedPrintReply`. The code waits for the host's answer with no
  timeout (line 939), so the liveness properties hold only if the host
  answers. The run shows that nothing else is needed. A host that never
  answers hangs `Print()`, and the code does not guard against it.
* `DidStopLoading`. Blink finishes loading the `data:` URL of the
  selection copy.
* `RunPostedTask`. The render thread's message loop runs posted tasks.

Nothing is assumed of the page, the user or the host's other messages
(`PrintPage`, `OnPrintPages`, `PrintNode`, `OnPrintingDone`,
`DetachFrame`).

Deadlock checking is on. When all work is done, `Quiescent` is the final
stutter.

## Proofs

`PrintSessionProofs` proves these for every `MaxSessions` in Nat \ {0} and
every set of page counts in Nat (`SessionsAssumption`, `PageCountsAssumption`):

* `TypeCorrect`: `Spec => []TypeOK`.
* `PrepOwnsParamsHolds`: `Spec => []PrepOwnsParams`.

Both follow from `IInvHolds`: `Spec => []IInv`. `IInv` has five
conjuncts: `TypeOK`, `SurfacesReleased`, `PrepOwnsParams`, `LoadingOwned`
and `GoodMsgs(msgs)`.

* `SurfacesReleased`: between handlers the borrowed view is idle, and a
  copy view is open exactly while its `prep_frame_view_` lives.
* `GoodMsgs`: every notice carries the cookie of the session that sent it.

None of these is inductive alone, for three reasons:

* The posted task prints with whatever `print_pages_params_` holds when it
  runs, so the proof needs `PrepOwnsParams`: a live `prep_frame_view_` owns
  the params.
* `DidStopLoading` posts a task under the copy view's session, so it needs
  `LoadingOwned`: a loading copy belongs to a live `prep_frame_view_`.
* Every step restores the borrowed view only if the view was idle at its
  start.

The argument has the following parts:

* **Lemmas on shared steps.** Each shared step (`DidFinishPrinting`,
  `PrintPages`, `RenderPhase`, `CalculateNumberOfPages`) gets a lemma. Each
  says that, started from the invariant with the session's own params, the
  step re-establishes the invariant's part about the variables it writes
  (`SessionPost`).
* **Inductive step.** `NextIInv` has one step per action and cites these
  lemmas. Sequence facts come from `SequenceTheorems` (`AppendProperties`,
  `SubSeqProperties`, `ExceptSeq`).
* **Record lemmas.** Record equalities are proved by record extensionality
  (`ViewIdle`), because the SMT backend does not encode nested record EXCEPT.

TLC also checked `IInv` on the session_core instance. The proofs cite only
`SessionsAssumption`.

`PrintSurfaceProofs` proves three more theorems:

* `SurfaceRefinement`: `Spec => SurfaceSpec`.
* `PagesFromLoadedSurfaceHolds`: `Spec => []PagesFromLoadedSurface`.
* `SInvHolds`: `Spec => []SInv`.

The invariant is `SInv == IInv /\ FreshSids`. `FreshSids` says that
cookies are used once:

* Printed jobs, tasks and `prep` are below `nextSid`.
* `prep` has not printed.
* A task posted for the live `prep` finds its copy loaded.
* Every notice came from a loaded surface (`AllLoaded`).
* The waiting `Print()` calls hold distinct cookies, none of them printed,
  tasked or `prep` (`StackOK`).

Without `FreshSids`, the refinement step cannot exclude two cases. A job
taking the surface could be one whose pages were already sent. A posted task
could print from a copy that is still loading.

The proof has these steps:

* **Stack lemmas.** `StackMono`, `StackNext`, `StackPush`, `StackPop` and
  `StackDetach` say what a push, a pop and a detach do to `StackOK`.
* **Outcome lemmas.** Three lemmas (`DidFinishOutcome`,
  `PrintPagesOutcome`, `RenderPhaseOutcome`) reduce the shared steps to
  three outcomes: released, printed or acquired.
* **Abstract steps.** `ReleaseStep`, `FreshJobStep` and `PrintFromStep` map
  each outcome to an abstract step.
* **Per action.** There is one lemma per handler, and `FreshNext` combines
  them.

`FreshSids` and `IInv` were also checked by TLC on the session_core
instance.

`GeometryProofs` proves the three invariants of the geometry_mac run for
every printer page in `BaseParams` and every declaration in `CssLayouts`.
The only assumption is `ParamsTyped`: print parameters are integer records
(`ParamRec`), and CSS declarations give integer pixels or `CssAuto`
(`CssDecl`). The state invariant `GeoInv` (the pair is drawn from the
constant sets) is inductive as it stands. Each property is proved as a lemma
over all typed values.

* `ReconciledOrientationHolds`: `Spec => []ReconciledOrientation`.
  * `GetCssPrintParamsType` shows that both passes of `GetCssPrintParams`
    give integer parameters with non-negative content. This needs a positive
    dpi (`DPIPositive`, from `IsValid` or the Mac's 72).
  * `EnsureOrientationTurns` shows that the turned printer page has the CSS
    orientation.
  * `FitPrintParamsToPage` keeps either the CSS page, when the sizes are
    equal, or the turned printer page's size.
* `FitStaysOnPageHolds`: `Spec => []FitStaysOnPage`. The argument is
  nonlinear, so it is cut into small lemmas:
  * `FitScale`: the chosen ratio is at most 1 and fits both dimensions.
  * `FitAxis`: along one axis, the recentred margin is non-negative and
    margin plus scaled content stay within the page.
  * These rest on `DivBounds`, `MulMono` and `MulCancel`.
  * `FitOnPage` combines them per case of the code.
* `NoCssKeepsPrinterLayoutHolds`: `ASSUME OnMac PROVE Spec =>
  []NoCssKeepsPrinterLayout`.
  * On the Mac, points go to pixels by 4/3 and back by 3/4.
    `PointsToPixels` and `PixelsToPoints` bound each rounding.
    `PointsRoundTrip` shows that a margin comes back exactly.
  * `ContentRoundTrip` shows that the content, recomputed from three
    rounded terms, is off by at most one point.
  * The `OnMac` hypothesis is part of the result. With `GetDPI` the
    printer's dpi, a dpi above 96 loses margins in the round trip through
    pixels, so the property is not claimed off the Mac.

`OutcomeProofs` proves `PrintedNeverFailedHolds`: `Spec =>
[]PrintedNeverFailed`, under the same assumptions. No job whose pages the
host has received is ever reported failed to it.

* **Why it is not inductive.** `PrintedNeverFailed` alone says nothing
  about the sessions still running. A nested `Print()`, a posted task or a
  late PrintingDone could still send a PrintingFailed under a printed
  cookie.
* **The invariant.** `OInv == SInv /\ FailedUsed`. `FailedUsed` says that
  a failed cookie is used up, like a printed one:
  * it is below `nextSid`;
  * it is not `prep`;
  * no waiting `Print()` holds it;
  * it is not also a printed cookie.
* **Shared-step lemmas.** `DidFinishMsgs`, `PrintPagesMsgs` and
  `RenderPhaseMsgs` show that a shared step sends notices only under the
  cookie of the one session it ends. That session either fails or prints,
  never both (`MsgsOutcome`).
* **Step lemmas.** `EndStep` turns `MsgsOutcome` into `FailedUsed'`, given
  that the session's cookie was fresh and is left on no waiting call.
  `QuietStep` covers the steps that send nothing. `OnPrintingDone` is one
  of these, because it clears `notify_browser_of_print_failure_` first.
* **Per handler.** `CalculateOutcome`, `ReplyOutcome`, `DoneOutcome` and
  `TaskOutcome` each apply these lemmas. `StackOK`, with the printed and
  failed cookies passed together, gives the freshness facts.

TLC checked `OInv` on the session_core instance before the proof.

`NodeGuardProofs` proves `NodeFlagTracksCallerHolds`: `Spec =>
[]NodeFlagTracksCaller`.

* **Why it is not inductive.** When PrintNode's call is popped and the flag
  cleared, no other waiting call may be PrintNode's.
* **The invariant.** `NInv` is `IInv`, the property and `NodeUnique`: at
  most one waiting call is PrintNode's. This holds because PrintNode is
  refused while its flag is set.
* **Lemmas.** `PushOther`, `PushNode`, `PopNode` and `SameNode` cover the
  stack operations. `PushFrame` and `PopFrame` give the sequence facts
  behind them.

Only TLC checks the rest:

* the violation runs: `LayoutClosure`, `CssFallbackSucceeds`,
  `RequestedPagesPrinted` and the session's action properties, which are
  shown to fail;
* the liveness properties of session_live. Liveness under fairness and
  `ENABLED` are out of the prover's reach.

## Not modelled

* `ComputeWebKitPrintParamsInDesiredDpi`: its output is not distinguished by
  any property.
* `RenderPageContent` and `PrintPageInternal`: they paint and do not change
  the controller.
* `CopyMetafileDataToSharedMem`: shared-memory I/O.
* `GetPrintFrame` and `OnMessageReceived`: frame choice and dispatch.
* `UpdateFrameMarginsCssInfo`: never called in this file, so
  `ignore_css_margins_` is always false.
* `createChildFrame` and `frameDetached` of the copy document.

## Plan for later work

* **Liveness.** Check that every waiting `Print()` eventually returns,
  under the same fairness.
* **Session refinement.** Write a second abstract specification: one
  session at a time, each ending in OK, FAIL_PRINT_INIT or FAIL_PRINT. The
  nested behaviours should show where the mapping fails.
* **More geometry.**
  * Model `ignore_css_margins` with `fit_to_page` (the `DCHECK(!fit_to_page)`
    at line 296).
  * Check the spec's `FitToPage` idempotence and orientation involution.
* **More proofs.** `LayoutClosure` holds on the Mac instance, but only
  because converting 72 dpi to points is the identity there. The case
  worth proving is a bound on how far the layout misses closure at other
  dpi. The 300 dpi run shows that it does miss.
