---------------------------- MODULE PrintGeometry ----------------------------
(***************************************************************************)
(* The page-geometry functions of print_web_view_helper.cc: unit           *)
(* conversion, the CSS page layout of a frame (GetCssPrintParams),         *)
(* orientation matching, fit-to-page scaling, their reconciliation         *)
(* (CalculatePrintParamsForCss) and the layout in points, plus the choice  *)
(* of pages PrintPagesNative prints.                                       *)
(*                                                                         *)
(* Print parameters are records in printer device units (dpi):             *)
(*   pw, ph   page_size          cw, ch  content_size                      *)
(*   mt, ml   margin_top/left    aw, ah  printable_area size               *)
(* Right and bottom margins are never stored: they are page - content -    *)
(* left/top, as in the code.  The double arithmetic of FitPrintParamsToPage *)
(* is computed exactly on rationals and truncated like static_cast<int>.   *)
(***************************************************************************)
EXTENDS Integers, Sequences

CONSTANT OnMac   \* OS_MACOSX: GetDPI is kPointsPerInch whatever the printer says

ASSUME OnMacAssumption == OnMac \in BOOLEAN

kPointsPerInch == 72
kPixelsPerInch == 96

\* C++ integer division, which truncates toward zero (b > 0).
CDiv(a, b) == IF a >= 0 THEN a \div b ELSE -((-a) \div b)

\* printing::ConvertUnit: value * new / old rounded to the nearest integer,
\* half away from zero.
ConvertUnit(value, oldUnit, newUnit) ==
    IF value >= 0
    THEN CDiv(value * newUnit + oldUnit \div 2, oldUnit)
    ELSE CDiv(value * newUnit - oldUnit \div 2, oldUnit)

\* gfx::Size clamps a negative width or height to 0.
Clamp0(x) == IF x < 0 THEN 0 ELSE x

GetDPI(p) == IF OnMac THEN kPointsPerInch ELSE p.dpi

\* PrintMsg_Print_Params_IsValid, over the fields kept here (the shrink
\* factors and desired dpi are taken as present).
IsValid(p) ==
    /\ p.cw > 0 /\ p.ch > 0 /\ p.pw > 0 /\ p.ph > 0 /\ p.aw > 0 /\ p.ah > 0
    /\ p.cookie # 0
    /\ p.mt >= 0 /\ p.ml >= 0
    /\ p.dpi > 1

-----------------------------------------------------------------------------
(* GetCssPrintParams.                                                       *)

\* What pageSizeAndMarginsInPixels may declare for the page: CssAuto leaves the
\* value passed in; a size is <<w, h>>, margins <<top, right, bottom, left>>,
\* in CSS pixels.  NoFrame is the NULL frame.
CssAuto == << >>
NoFrame == [frame |-> FALSE, size |-> CssAuto, margins |-> CssAuto]

\* Mutant of DefaultPixels: the right margin derived from the top margin.
DefaultPixelsRightFromTop(p) ==
    LET d == GetDPI(p) IN
    [pw |-> ConvertUnit(p.pw, d, kPixelsPerInch),
     ph |-> ConvertUnit(p.ph, d, kPixelsPerInch),
     mt |-> ConvertUnit(p.mt, d, kPixelsPerInch),
     mr |-> ConvertUnit(p.pw - p.cw - p.mt, d, kPixelsPerInch),
     mb |-> ConvertUnit(p.ph - p.ch - p.mt, d, kPixelsPerInch),
     ml |-> ConvertUnit(p.ml, d, kPixelsPerInch)]

\* The page in CSS pixels before the frame is asked: page size and the four
\* margins converted from device units.
DefaultPixels(p) ==
    LET d == GetDPI(p) IN
    [pw |-> ConvertUnit(p.pw, d, kPixelsPerInch),
     ph |-> ConvertUnit(p.ph, d, kPixelsPerInch),
     mt |-> ConvertUnit(p.mt, d, kPixelsPerInch),
     mr |-> ConvertUnit(p.pw - p.cw - p.ml, d, kPixelsPerInch),
     mb |-> ConvertUnit(p.ph - p.ch - p.mt, d, kPixelsPerInch),
     ml |-> ConvertUnit(p.ml, d, kPixelsPerInch)]

\* pageSizeAndMarginsInPixels overwriting what the CSS declares.
ApplyCss(css, px) ==
    IF ~css.frame THEN px
    ELSE [pw |-> IF css.size = CssAuto THEN px.pw ELSE css.size[1],
          ph |-> IF css.size = CssAuto THEN px.ph ELSE css.size[2],
          mt |-> IF css.margins = CssAuto THEN px.mt ELSE css.margins[1],
          mr |-> IF css.margins = CssAuto THEN px.mr ELSE css.margins[2],
          mb |-> IF css.margins = CssAuto THEN px.mb ELSE css.margins[3],
          ml |-> IF css.margins = CssAuto THEN px.ml ELSE css.margins[4]]

\* One pass of GetCssPrintParams: ok is FALSE when the content left by the
\* page size and margins is less than a pixel wide or high.  The page size
\* is converted back only if the CSS changed it.
CssPassFrom(p, d, px, q) ==
    LET ncw == q.pw - q.ml - q.mr
        nch == q.ph - q.mt - q.mb
        sized == q.pw # px.pw \/ q.ph # px.ph
    IN [ok |-> ncw >= 1 /\ nch >= 1,
        params |->
          [p EXCEPT !.cw = Clamp0(ConvertUnit(ncw, kPixelsPerInch, d)),
                    !.ch = Clamp0(ConvertUnit(nch, kPixelsPerInch, d)),
                    !.pw = IF sized THEN Clamp0(ConvertUnit(q.pw, kPixelsPerInch, d)) ELSE p.pw,
                    !.ph = IF sized THEN Clamp0(ConvertUnit(q.ph, kPixelsPerInch, d)) ELSE p.ph,
                    !.mt = ConvertUnit(q.mt, kPixelsPerInch, d),
                    !.ml = ConvertUnit(q.ml, kPixelsPerInch, d)]]

\* The CSS applied to the default pixels px of p.
CssPassPixels(css, p, px) == CssPassFrom(p, GetDPI(p), px, ApplyCss(css, px))

\* The pass on page p: its pixels (px) and what the CSS makes of them (q).
CssPass(css, p) ==
    CssPassPixels(css, p, DefaultPixels(p))

\* The CHECK(frame != NULL) of GetCssPrintParams fails: the pass without a
\* frame (the first one, or the fallback) leaves no content either.
CssCheckFails(css, p) ==
    /\ ~CssPass(css, p).ok
    /\ (~css.frame \/ ~CssPass(NoFrame, p).ok)

\* GetCssPrintParams: a degenerate CSS layout falls back to the pass with no
\* frame, i.e. the page parameters converted to pixels and back.
GetCssPrintParams(css, p) ==
    IF CssPass(css, p).ok THEN CssPass(css, p).params
    ELSE CssPass(NoFrame, p).params

-----------------------------------------------------------------------------
(* Reconciliation.                                                          *)

Landscape(p) == p.pw > p.ph

\* Mutant of EnsureOrientationMatches: only the content is turned.
EnsureOrientationContentOnly(css, p) ==
    IF Landscape(p) = Landscape(css) THEN p
    ELSE [p EXCEPT !.cw = p.ch, !.ch = p.cw]

\* EnsureOrientationMatches: swap width and height of page, content and
\* printable area when the CSS page is not oriented like the printer page.
EnsureOrientationMatches(css, p) ==
    IF Landscape(p) = Landscape(css) THEN p
    ELSE [p EXCEPT !.pw = p.ph, !.ph = p.pw, !.cw = p.ch, !.ch = p.cw,
                   !.aw = p.ah, !.ah = p.aw]

\* A scale factor num/den as FitPrintParamsToPage computes it.
Scale(num, den) == [num |-> num, den |-> den]

\* Mutant of FitPrintParamsToPage: shrink by the larger of the two ratios.
FitByLargerRatio(pp, f) ==
    IF pp.pw = f.pw /\ pp.ph = f.ph
    THEN [params |-> f, scale |-> Scale(1, 1)]
    ELSE
      LET s == IF pp.pw < f.pw \/ pp.ph < f.ph
               THEN IF pp.pw * f.ph < pp.ph * f.pw
                    THEN Scale(pp.ph, f.ph) ELSE Scale(pp.pw, f.pw)
               ELSE Scale(1, 1)
      IN [params |->
            [f EXCEPT
               !.mt = CDiv(pp.ph * s.den - f.ph * s.num + 2 * f.mt * s.num,
                           2 * s.den),
               !.ml = CDiv(pp.pw * s.den - f.pw * s.num + 2 * f.ml * s.num,
                           2 * s.den),
               !.cw = (f.cw * s.num) \div s.den,
               !.ch = (f.ch * s.num) \div s.den,
               !.pw = pp.pw,
               !.ph = pp.ph],
          scale |-> s]

\* FitPrintParamsToPage(page_params = pp, params_to_fit = f): when the page
\* sizes differ, shrink by the smaller of the two ratios if f's page is
\* larger in some dimension, center the content with the scaled margins, and
\* take pp's page size.  Returns the fitted params and the scale.
FitPrintParamsToPage(pp, f) ==
    IF pp.pw = f.pw /\ pp.ph = f.ph
    THEN [params |-> f, scale |-> Scale(1, 1)]
    ELSE
      LET s == IF pp.pw < f.pw \/ pp.ph < f.ph
               THEN IF pp.pw * f.ph < pp.ph * f.pw
                    THEN Scale(pp.pw, f.pw) ELSE Scale(pp.ph, f.ph)
               ELSE Scale(1, 1)
      IN [params |->
            [f EXCEPT
               !.mt = CDiv(pp.ph * s.den - f.ph * s.num + 2 * f.mt * s.num,
                           2 * s.den),
               !.ml = CDiv(pp.pw * s.den - f.pw * s.num + 2 * f.ml * s.num,
                           2 * s.den),
               !.cw = (f.cw * s.num) \div s.den,
               !.ch = (f.ch * s.num) \div s.den,
               !.pw = pp.pw,
               !.ph = pp.ph],
          scale |-> s]

\* The tail of CalculatePrintParamsForCss, given css_params and params (the
\* printer page turned to the CSS orientation): with ignore_css_margins and
\* fit_to_page, params itself; with ignore_css_margins, the printer margins
\* replace the CSS ones and the content is what they leave of the CSS page;
\* with fit_to_page the result is fitted to params.  scaled tells whether
\* *scale_factor is written.
ResultParams(cssParams, params, ignoreCssMargins, fitToPage) ==
    LET defaultMr == params.pw - params.cw - params.ml
        defaultMb == params.ph - params.ch - params.mt
        result ==
          IF ignoreCssMargins
          THEN [cssParams EXCEPT
                  !.mt = params.mt, !.ml = params.ml,
                  !.cw = Clamp0(cssParams.pw - params.ml - defaultMr),
                  !.ch = Clamp0(cssParams.ph - params.mt - defaultMb)]
          ELSE cssParams
    IN
    IF ignoreCssMargins /\ fitToPage
    THEN [params |-> params, scale |-> Scale(1, 1), scaled |-> FALSE]
    ELSE IF fitToPage
    THEN LET fitted == FitPrintParamsToPage(params, result)
         IN [params |-> fitted.params, scale |-> fitted.scale, scaled |-> TRUE]
    ELSE [params |-> result, scale |-> Scale(1, 1), scaled |-> FALSE]

\* params = page_params, turned by EnsureOrientationMatches(css_params).
ReconcileCssParams(cssParams, p, ignoreCssMargins, fitToPage) ==
    ResultParams(cssParams, EnsureOrientationMatches(cssParams, p),
                 ignoreCssMargins, fitToPage)

\* CalculatePrintParamsForCss: the CSS layout of the page (GetCssPrintParams)
\* reconciled with the printer page.  Each intermediate value is passed as
\* an operator argument, so that it is computed once.
CalculatePrintParamsForCss(css, p, ignoreCssMargins, fitToPage) ==
    ReconcileCssParams(GetCssPrintParams(css, p), p, ignoreCssMargins, fitToPage)

\* CalculatePageLayoutFromPrintParams: content and margins in points.
PageLayoutInPoints(p) ==
    LET d == GetDPI(p) IN
    [cw |-> ConvertUnit(p.cw, d, kPointsPerInch),
     ch |-> ConvertUnit(p.ch, d, kPointsPerInch),
     mt |-> ConvertUnit(p.mt, d, kPointsPerInch),
     mr |-> ConvertUnit(p.pw - p.cw - p.ml, d, kPointsPerInch),
     mb |-> ConvertUnit(p.ph - p.ch - p.mt, d, kPointsPerInch),
     ml |-> ConvertUnit(p.ml, d, kPointsPerInch)]

\* GetPageSizeAndContentAreaFromPageLayout: the page size in points is the
\* sum of the content and the margins.
PageSizeFromLayout(l) == <<l.cw + l.mr + l.ml, l.ch + l.mt + l.mb>>

\* ComputePageLayoutInPointsForCss: the layout in points of a page, fitted
\* to the printer page when the scaling option is FitToPrintableArea.
ComputePageLayoutInPointsForCss(css, p, ignoreCssMargins, fitToPrintableArea) ==
    LET r == CalculatePrintParamsForCss(css, p, ignoreCssMargins, fitToPrintableArea)
    IN [layout |-> PageLayoutInPoints(r.params), scale |-> r.scale, params |-> r.params]

-----------------------------------------------------------------------------
(* PrintPagesNative (Mac).                                                  *)

\* The requested page indices, in the order given, up to (not including) the
\* first one at or beyond pageCount; all pages in order when none are
\* requested.
PagesToPrint(pages, pageCount) ==
    IF pages = << >> THEN [i \in 1 .. pageCount |-> i - 1]
    ELSE LET beyond == {i \in 1 .. Len(pages) : pages[i] >= pageCount}
             stop == IF beyond = {} THEN Len(pages) + 1
                     ELSE CHOOSE i \in beyond : \A j \in beyond : i <= j
         IN SubSeq(pages, 1, stop - 1)

=============================================================================
