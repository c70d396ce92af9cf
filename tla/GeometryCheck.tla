---------------------------- MODULE GeometryCheck ----------------------------
(***************************************************************************)
(* Checks the geometry functions of PrintGeometry over bounded inputs: a   *)
(* behaviour visits printer parameters and CSS page declarations, one pair *)
(* per state, and the properties are invariants over the pair.            *)
(***************************************************************************)
EXTENDS PrintGeometry

CONSTANTS
    BaseParams,   \* printer parameters (from GetDefaultPrintSettings)
    CssLayouts    \* what a frame's @page rules may declare, or NoFrame

\* Print parameters are integers in device units (the int fields of
\* PrintMsg_Print_Params and its gfx::Size/gfx::Rect members); a CSS
\* declaration gives integer pixels or leaves a value to the caller.
ParamRec ==
    [pw : Int, ph : Int, cw : Int, ch : Int, mt : Int, ml : Int,
     aw : Int, ah : Int, dpi : Int, cookie : Int]

CssDecl ==
    [frame : BOOLEAN, size : {CssAuto} \cup (Int \X Int),
     margins : {CssAuto} \cup (Int \X Int \X Int \X Int)]

ASSUME ParamsTyped == BaseParams \subseteq ParamRec /\ CssLayouts \subseteq CssDecl

VARIABLES page, css

vars == <<page, css>>

Init == page \in BaseParams /\ css \in CssLayouts

\* The next page of the document is laid out under the same printer
\* parameters; its frame may declare any CSS layout.
NextInput ==
    \E c \in CssLayouts : css' = c /\ UNCHANGED page

Spec == Init /\ [][NextInput]_vars

\* Printer parameters as the host sends them: valid, and content plus
\* margins within the page.
PrinterParams(p) ==
    /\ IsValid(p)
    /\ p.ml + p.cw <= p.pw
    /\ p.mt + p.ch <= p.ph

\* CSS margins declared non-negative (or not declared).
CssMarginsNonNegative(c) ==
    c.margins = CssAuto \/ \A i \in 1 .. 4 : c.margins[i] >= 0

\* The reconciliation the print path uses: CSS margins honoured
\* (ignore_css_margins_ is never set in this file), fit to page as asked.
Reconciled(fit) == CalculatePrintParamsForCss(css, page, FALSE, fit)

-----------------------------------------------------------------------------

\* A content area with its left and top margins inside its page.
OnPage(p) ==
    /\ p.ml >= 0 /\ p.mt >= 0
    /\ p.ml + p.cw <= p.pw /\ p.mt + p.ch <= p.ph

\* Fit to page (print_scaling_option FitToPrintableArea, used for plugin and
\* PDF frames) never enlarges, and a CSS layout whose content lies on its own
\* page, whatever page size it declares, is shrunk and recentred onto the
\* printer page, turned to the CSS orientation (FitPrintParamsToPage after
\* GetCssPrintParams and EnsureOrientationMatches).
FitStaysOnPage ==
    (PrinterParams(page) /\ OnPage(GetCssPrintParams(css, page))) =>
        LET r == Reconciled(TRUE) IN
        r.scale.num <= r.scale.den /\ OnPage(r.params)

\* With fit to page, the printer page the content is fitted to is turned to
\* the orientation of the page the CSS declares: portrait CSS on a landscape
\* printer page (or the reverse) is printed in the CSS orientation
\* (EnsureOrientationMatches before FitPrintParamsToPage).  A square printer
\* page has no orientation to turn, so it is left out.
ReconciledOrientation ==
    (PrinterParams(page) /\ page.pw # page.ph) =>
        Landscape(Reconciled(TRUE).params) =
            Landscape(GetCssPrintParams(css, page))

\* Section 8 of the spec: a frame that declares no page size and no margins
\* prints with the printer's own geometry through the conversions to CSS
\* pixels and back (GetCssPrintParams): page size and margins come back
\* exactly, and the content, recomputed in pixels as page minus margins with
\* each term rounded on its own, is off by at most one device unit.
NoCssKeepsPrinterLayout ==
    (PrinterParams(page) /\ css = [frame |-> TRUE, size |-> CssAuto, margins |-> CssAuto]) =>
        LET r == Reconciled(FALSE).params IN
        /\ r.pw = page.pw /\ r.ph = page.ph
        /\ r.mt = page.mt /\ r.ml = page.ml
        /\ r.cw - page.cw \in -1 .. 1 /\ r.ch - page.ch \in -1 .. 1

\* Section 8 of the spec: after reconciliation the layout in points closes,
\* content plus margins equal to the page size in points, whether or not the
\* page is fitted (ComputePageLayoutInPointsForCss, then
\* GetPageSizeAndContentAreaFromPageLayout).
LayoutClosure ==
    PrinterParams(page) =>
        \A fit \in BOOLEAN :
            LET c == ComputePageLayoutInPointsForCss(css, page, FALSE, fit)
                d == GetDPI(c.params)
            IN PageSizeFromLayout(c.layout) =
                   <<ConvertUnit(c.params.pw, d, kPointsPerInch),
                     ConvertUnit(c.params.ph, d, kPointsPerInch)>>

\* Section 4.1 of the spec: the fallback of GetCssPrintParams recurses once,
\* "because the no-surface path cannot fail": its CHECK(frame != NULL) never
\* fires for valid printer parameters.
CssFallbackSucceeds ==
    PrinterParams(page) => ~CssCheckFails(css, page)

=============================================================================
