---------------------------- MODULE GeometryProofs ---------------------------
(***************************************************************************)
(* Proofs about the page geometry of PrintGeometry, for all printer        *)
(* parameters and CSS declarations: what GetCssPrintParams returns is      *)
(* integer print parameters, the reconciled page is turned to the CSS      *)
(* orientation, and on the Mac a frame with no @page rules keeps the       *)
(* printer's geometry through the conversions to CSS pixels and back.      *)
(***************************************************************************)
EXTENDS GeometryCheck, TLAPS

\* The page in CSS pixels, as DefaultPixels and ApplyCss build it.
PxRec == [pw : Int, ph : Int, mt : Int, mr : Int, mb : Int, ml : Int]

-----------------------------------------------------------------------------
(* Integer arithmetic of the conversions.                                   *)

\* C++ division by a positive divisor gives an integer.
LEMMA CDivInt ==
    ASSUME NEW a \in Int, NEW b \in Nat \ {0}
    PROVE  CDiv(a, b) \in Int
BY DEF CDiv

\* ConvertUnit gives an integer for a positive old unit.
LEMMA ConvertUnitInt ==
    ASSUME NEW v \in Int, NEW o \in Nat \ {0}, NEW n \in Int
    PROVE  ConvertUnit(v, o, n) \in Int
<1>1. v * n + o \div 2 \in Int /\ v * n - o \div 2 \in Int
  OBVIOUS
<1>. QED
  BY <1>1, CDivInt DEF ConvertUnit

\* gfx::Size's clamp keeps an integer an integer, and makes it non-negative.
LEMMA Clamp0Int ==
    ASSUME NEW x \in Int
    PROVE  Clamp0(x) \in Nat
BY DEF Clamp0

\* The dpi GetCssPrintParams converts with is positive for valid printer
\* parameters, on the Mac and elsewhere.
LEMMA DPIPositive ==
    ASSUME NEW p \in ParamRec, IsValid(p)
    PROVE  GetDPI(p) \in Nat \ {0}
<1>1. OnMac \in BOOLEAN
  BY OnMacAssumption
<1>. QED
  BY <1>1 DEF GetDPI, IsValid, ParamRec, kPointsPerInch

-----------------------------------------------------------------------------
(* Types of the CSS pass.                                                   *)

LEMMA DefaultPixelsType ==
    ASSUME NEW p \in ParamRec, GetDPI(p) \in Nat \ {0}
    PROVE  DefaultPixels(p) \in PxRec
<1>1. \A v \in Int : ConvertUnit(v, GetDPI(p), kPixelsPerInch) \in Int
  <2>. SUFFICES ASSUME NEW v \in Int
                PROVE  ConvertUnit(v, GetDPI(p), kPixelsPerInch) \in Int
    OBVIOUS
  <2>1. kPixelsPerInch \in Int
    BY DEF kPixelsPerInch
  <2>. QED
    BY <2>1, ConvertUnitInt
<1>2. /\ p.pw \in Int /\ p.ph \in Int /\ p.mt \in Int /\ p.ml \in Int
      /\ p.pw - p.cw - p.ml \in Int /\ p.ph - p.ch - p.mt \in Int
  BY DEF ParamRec
<1>. QED
  BY <1>1, <1>2 DEF DefaultPixels, PxRec

LEMMA ApplyCssType ==
    ASSUME NEW c \in CssDecl, NEW px \in PxRec
    PROVE  ApplyCss(c, px) \in PxRec
<1>1. c.size # CssAuto => c.size[1] \in Int /\ c.size[2] \in Int
  BY DEF CssDecl
<1>2. c.margins # CssAuto =>
        \A i \in 1 .. 4 : c.margins[i] \in Int
  BY DEF CssDecl
<1>. QED
  BY <1>1, <1>2 DEF ApplyCss, PxRec

LEMMA CssPassFromType ==
    ASSUME NEW p \in ParamRec, NEW d \in Int, NEW px \in PxRec, NEW q \in PxRec
    PROVE  /\ CssPassFrom(p, d, px, q).params \in ParamRec
           /\ CssPassFrom(p, d, px, q).ok \in BOOLEAN
           /\ CssPassFrom(p, d, px, q).params.cw \in Nat
           /\ CssPassFrom(p, d, px, q).params.ch \in Nat
<1>1. \A v \in Int : ConvertUnit(v, kPixelsPerInch, d) \in Int
  BY ConvertUnitInt DEF kPixelsPerInch
<1>2. \A v \in Int : Clamp0(ConvertUnit(v, kPixelsPerInch, d)) \in Int
  BY <1>1, Clamp0Int
<1>3. /\ q.pw - q.ml - q.mr \in Int /\ q.ph - q.mt - q.mb \in Int
      /\ q.pw \in Int /\ q.ph \in Int /\ q.mt \in Int /\ q.ml \in Int
  BY DEF PxRec
<1>. DEFINE sized == q.pw # px.pw \/ q.ph # px.ph
            cw == Clamp0(ConvertUnit(q.pw - q.ml - q.mr, kPixelsPerInch, d))
            ch == Clamp0(ConvertUnit(q.ph - q.mt - q.mb, kPixelsPerInch, d))
            pw == IF sized THEN Clamp0(ConvertUnit(q.pw, kPixelsPerInch, d)) ELSE p.pw
            ph == IF sized THEN Clamp0(ConvertUnit(q.ph, kPixelsPerInch, d)) ELSE p.ph
            mt == ConvertUnit(q.mt, kPixelsPerInch, d)
            ml == ConvertUnit(q.ml, kPixelsPerInch, d)
<1>4. CssPassFrom(p, d, px, q).params =
        [p EXCEPT !.cw = cw, !.ch = ch, !.pw = pw, !.ph = ph, !.mt = mt, !.ml = ml]
  BY DEF CssPassFrom, cw, ch, pw, ph, mt, ml, sized
<1>5. {cw, ch, pw, ph, mt, ml} \subseteq Int
  BY <1>1, <1>2, <1>3 DEF ParamRec, cw, ch, pw, ph, mt, ml
<1>6. [p EXCEPT !.cw = cw, !.ch = ch, !.pw = pw, !.ph = ph, !.mt = mt, !.ml = ml]
        \in ParamRec
  BY <1>5 DEF ParamRec
<1>7. CssPassFrom(p, d, px, q).ok \in BOOLEAN
  BY DEF CssPassFrom
<1>8. cw \in Nat /\ ch \in Nat
  BY <1>1, <1>3, Clamp0Int DEF cw, ch
<1>. QED
  BY <1>4, <1>6, <1>7, <1>8 DEF ParamRec

\* GetCssPrintParams gives integer print parameters, whichever pass it
\* takes.
LEMMA GetCssPrintParamsType ==
    ASSUME NEW c \in CssDecl, NEW p \in ParamRec, GetDPI(p) \in Nat \ {0}
    PROVE  /\ GetCssPrintParams(c, p) \in ParamRec
           /\ GetCssPrintParams(c, p).cw \in Nat
           /\ GetCssPrintParams(c, p).ch \in Nat
<1>1. DefaultPixels(p) \in PxRec
  BY DefaultPixelsType
<1>2. NoFrame \in CssDecl
  BY DEF NoFrame, CssDecl, CssAuto
<1>3. \A x \in CssDecl : /\ CssPass(x, p).params \in ParamRec
                         /\ CssPass(x, p).params.cw \in Nat
                         /\ CssPass(x, p).params.ch \in Nat
  BY <1>1, ApplyCssType, CssPassFromType DEF CssPass, CssPassPixels
<1>. QED
  BY <1>2, <1>3 DEF GetCssPrintParams

-----------------------------------------------------------------------------
(* Orientation.                                                             *)

\* EnsureOrientationMatches turns a printer page that is not square to the
\* orientation of the CSS page, and keeps its fields integers.
LEMMA EnsureOrientationTurns ==
    ASSUME NEW c \in ParamRec, NEW p \in ParamRec, p.pw # p.ph
    PROVE  /\ EnsureOrientationMatches(c, p) \in ParamRec
           /\ Landscape(EnsureOrientationMatches(c, p)) = Landscape(c)
<1>1. CASE Landscape(p) = Landscape(c)
  BY <1>1 DEF EnsureOrientationMatches
<1>2. CASE Landscape(p) # Landscape(c)
  <2>. DEFINE E == [p EXCEPT !.pw = p.ph, !.ph = p.pw, !.cw = p.ch, !.ch = p.cw,
                              !.aw = p.ah, !.ah = p.aw]
  <2>1. EnsureOrientationMatches(c, p) = E
    BY <1>2 DEF EnsureOrientationMatches, E
  <2>2. E \in ParamRec /\ E.pw = p.ph /\ E.ph = p.pw
    BY DEF E, ParamRec
  <2>3. Landscape(E) = ~Landscape(p)
    BY <2>2 DEF Landscape, ParamRec
  <2>4. Landscape(p) \in BOOLEAN /\ Landscape(c) \in BOOLEAN
    BY DEF Landscape
  <2>. QED
    BY <1>2, <2>1, <2>2, <2>3, <2>4
<1>. QED
  BY <1>1, <1>2

\* With fit to page and the CSS margins honoured, the reconciled page has
\* the orientation of the CSS page (EnsureOrientationMatches, then
\* FitPrintParamsToPage, which takes the turned printer page's size unless
\* it already equals the CSS page's).
LEMMA ReconcileOrientation ==
    ASSUME NEW c \in ParamRec, NEW p \in ParamRec, p.pw # p.ph
    PROVE  Landscape(ReconcileCssParams(c, p, FALSE, TRUE).params) = Landscape(c)
<1>. DEFINE E == EnsureOrientationMatches(c, p)
            F == FitPrintParamsToPage(E, c)
<1>1. E \in ParamRec /\ Landscape(E) = Landscape(c)
  BY EnsureOrientationTurns DEF E
<1>2. ReconcileCssParams(c, p, FALSE, TRUE).params = F.params
  BY DEF ReconcileCssParams, ResultParams, E, F
<1>3. CASE E.pw = c.pw /\ E.ph = c.ph
  <2>1. F.params = c
    BY <1>3 DEF F, FitPrintParamsToPage
  <2>. QED
    BY <1>2, <2>1
<1>4. CASE ~(E.pw = c.pw /\ E.ph = c.ph)
  <2>1. F.params.pw = E.pw /\ F.params.ph = E.ph
    BY <1>4 DEF F, FitPrintParamsToPage, ParamRec
  <2>. QED
    BY <1>1, <1>2, <2>1 DEF Landscape
<1>. QED
  BY <1>3, <1>4

-----------------------------------------------------------------------------
(* The invariants of the geometry runs.                                     *)

\* Every state pairs printer parameters with a CSS declaration of the
\* constant sets: the printer page never changes, and each step takes a
\* declaration of CssLayouts.
GeoInv == page \in BaseParams /\ css \in CssLayouts

\* The pair visited is always one the constants allow.
THEOREM GeoInvHolds == Spec => []GeoInv
<1>1. Init => GeoInv
  BY DEF Init, GeoInv
<1>2. GeoInv /\ [NextInput]_vars => GeoInv'
  BY DEF GeoInv, NextInput, vars
<1>. QED
  BY <1>1, <1>2, PTL DEF Spec

\* The CSS layout GetCssPrintParams computes for a state's page and
\* declaration is integer print parameters, when the printer parameters are
\* valid.
LEMMA CssParamsTyped ==
    ASSUME GeoInv, IsValid(page)
    PROVE  /\ page \in ParamRec
           /\ GetCssPrintParams(css, page) \in ParamRec
           /\ GetCssPrintParams(css, page).cw \in Nat
           /\ GetCssPrintParams(css, page).ch \in Nat
<1>1. page \in ParamRec /\ css \in CssDecl
  BY ParamsTyped DEF GeoInv
<1>2. GetDPI(page) \in Nat \ {0}
  BY <1>1, DPIPositive
<1>. QED
  BY <1>1, <1>2, GetCssPrintParamsType

\* ReconciledOrientation for every printer page and CSS declaration: a
\* printed page with fit to page is always in the orientation the CSS
\* declares (EnsureOrientationMatches in CalculatePrintParamsForCss).
THEOREM ReconciledOrientationHolds == Spec => []ReconciledOrientation
<1>1. GeoInv => ReconciledOrientation
  <2>. SUFFICES ASSUME GeoInv, PrinterParams(page), page.pw # page.ph
                PROVE  Landscape(Reconciled(TRUE).params) =
                           Landscape(GetCssPrintParams(css, page))
    BY DEF ReconciledOrientation
  <2>1. page \in ParamRec /\ GetCssPrintParams(css, page) \in ParamRec
    BY CssParamsTyped DEF PrinterParams
  <2>2. Reconciled(TRUE) =
          ReconcileCssParams(GetCssPrintParams(css, page), page, FALSE, TRUE)
    BY DEF Reconciled, CalculatePrintParamsForCss
  <2>. QED
    BY <2>1, <2>2, ReconcileOrientation
<1>. QED
  BY <1>1, GeoInvHolds, PTL

-----------------------------------------------------------------------------
(* Points to CSS pixels and back (the Mac, where GetDPI is 72).             *)

\* A length in points, converted to CSS pixels, is 4/3 of it rounded: off
\* by at most a third of a pixel.
LEMMA PointsToPixels ==
    ASSUME NEW v \in Nat
    PROVE  /\ ConvertUnit(v, kPointsPerInch, kPixelsPerInch) \in Nat
           /\ 3 * ConvertUnit(v, kPointsPerInch, kPixelsPerInch) - 4 * v \in -1 .. 1
BY DEF ConvertUnit, CDiv, kPointsPerInch, kPixelsPerInch

\* A length in CSS pixels converted to points is 3/4 of it rounded half up.
LEMMA PixelsToPoints ==
    ASSUME NEW x \in Nat
    PROVE  /\ ConvertUnit(x, kPixelsPerInch, kPointsPerInch) \in Nat
           /\ 4 * ConvertUnit(x, kPixelsPerInch, kPointsPerInch) - 3 * x \in -1 .. 2
BY DEF ConvertUnit, CDiv, kPointsPerInch, kPixelsPerInch

\* A margin in points comes back exactly from CSS pixels.
LEMMA PointsRoundTrip ==
    ASSUME NEW v \in Nat
    PROVE  ConvertUnit(ConvertUnit(v, kPointsPerInch, kPixelsPerInch),
                       kPixelsPerInch, kPointsPerInch) = v
<1>. DEFINE x == ConvertUnit(v, kPointsPerInch, kPixelsPerInch)
            y == ConvertUnit(x, kPixelsPerInch, kPointsPerInch)
<1>1. x \in Nat /\ 3 * x - 4 * v \in -1 .. 1
  BY PointsToPixels
<1>2. y \in Nat /\ 4 * y - 3 * x \in -1 .. 2
  BY <1>1, PixelsToPoints
<1>. QED
  BY <1>1, <1>2

\* The content width (or height) in points, recomputed from the page and
\* the two margins converted to CSS pixels one by one, comes back within
\* one point: each of the three conversions is off by at most a third of a
\* pixel, three quarters of a point in all.
LEMMA ContentRoundTrip ==
    ASSUME NEW cw \in Nat \ {0}, NEW ml \in Nat, NEW mr \in Nat
    PROVE  LET R(v) == ConvertUnit(v, kPointsPerInch, kPixelsPerInch)
               n == R(cw + ml + mr) - R(ml) - R(mr)
           IN  Clamp0(ConvertUnit(n, kPixelsPerInch, kPointsPerInch)) - cw \in -1 .. 1
<1>. DEFINE R(v) == ConvertUnit(v, kPointsPerInch, kPixelsPerInch)
            n == R(cw + ml + mr) - R(ml) - R(mr)
<1>1. /\ R(cw + ml + mr) \in Nat /\ 3 * R(cw + ml + mr) - 4 * (cw + ml + mr) \in -1 .. 1
      /\ R(ml) \in Nat /\ 3 * R(ml) - 4 * ml \in -1 .. 1
      /\ R(mr) \in Nat /\ 3 * R(mr) - 4 * mr \in -1 .. 1
  BY PointsToPixels
<1>2. n \in Nat /\ 3 * n - 4 * cw \in -3 .. 3
  BY <1>1
<1>3. /\ ConvertUnit(n, kPixelsPerInch, kPointsPerInch) \in Nat
      /\ 4 * ConvertUnit(n, kPixelsPerInch, kPointsPerInch) - 3 * n \in -1 .. 2
  BY <1>2, PixelsToPoints
<1>. QED
  BY <1>2, <1>3 DEF Clamp0

-----------------------------------------------------------------------------
(* A frame with no @page rules.                                             *)

\* The declaration of a frame with no page size and no margins.
NoCss == [frame |-> TRUE, size |-> CssAuto, margins |-> CssAuto]

\* A pass whose CSS leaves the default pixels as they are keeps the printer
\* page size (not "sized") and converts the margins and the content left
\* by them back from pixels.
LEMMA UnchangedPass ==
    ASSUME NEW p \in ParamRec, NEW d, NEW px, NEW q,
           q.pw = px.pw, q.ph = px.ph, q.mt = px.mt, q.mr = px.mr,
           q.mb = px.mb, q.ml = px.ml
    PROVE  LET P == CssPassFrom(p, d, px, q).params IN
           /\ P.pw = p.pw /\ P.ph = p.ph
           /\ P.mt = ConvertUnit(px.mt, kPixelsPerInch, d)
           /\ P.ml = ConvertUnit(px.ml, kPixelsPerInch, d)
           /\ P.cw = Clamp0(ConvertUnit(px.pw - px.ml - px.mr, kPixelsPerInch, d))
           /\ P.ch = Clamp0(ConvertUnit(px.ph - px.mt - px.mb, kPixelsPerInch, d))
BY DEF CssPassFrom, ParamRec

\* Whichever pass GetCssPrintParams keeps for a frame with no @page rules,
\* it is the printer page converted to pixels and back.
LEMMA NoCssPass ==
    ASSUME NEW p \in ParamRec
    PROVE  LET px == DefaultPixels(p)
               P == GetCssPrintParams(NoCss, p)
               d == GetDPI(p)
           IN
           /\ P.pw = p.pw /\ P.ph = p.ph
           /\ P.mt = ConvertUnit(px.mt, kPixelsPerInch, d)
           /\ P.ml = ConvertUnit(px.ml, kPixelsPerInch, d)
           /\ P.cw = Clamp0(ConvertUnit(px.pw - px.ml - px.mr, kPixelsPerInch, d))
           /\ P.ch = Clamp0(ConvertUnit(px.ph - px.mt - px.mb, kPixelsPerInch, d))
<1>. DEFINE px == DefaultPixels(p)
<1>1. \A x \in {NoCss, NoFrame} :
        LET q == ApplyCss(x, px) IN
        q.pw = px.pw /\ q.ph = px.ph /\ q.mt = px.mt /\ q.mr = px.mr
        /\ q.mb = px.mb /\ q.ml = px.ml
  BY DEF ApplyCss, NoCss, NoFrame
<1>2. \A x \in {NoCss, NoFrame} :
        CssPass(x, p) = CssPassFrom(p, GetDPI(p), px, ApplyCss(x, px))
  BY DEF CssPass, CssPassPixels
<1>3. \E x \in {NoCss, NoFrame} : GetCssPrintParams(NoCss, p) = CssPass(x, p).params
  BY DEF GetCssPrintParams
<1>. QED
  BY <1>1, <1>2, <1>3, UnchangedPass

\* NoCssKeepsPrinterLayout on the Mac, for every printer page: a frame with
\* no @page rules prints with the printer's page size and margins exactly,
\* and its content within one point (GetCssPrintParams converting points to
\* CSS pixels and back).  Off the Mac GetDPI is the printer's dpi, and above
\* 96 dpi the margins do not survive the round trip through pixels: the
\* theorem is stated for OnMac, where the code converts with 72.
THEOREM NoCssKeepsPrinterLayoutHolds ==
    ASSUME OnMac
    PROVE  Spec => []NoCssKeepsPrinterLayout
<1>1. GeoInv => NoCssKeepsPrinterLayout
  <2>. SUFFICES ASSUME GeoInv, PrinterParams(page), css = NoCss
                PROVE  LET r == Reconciled(FALSE).params IN
                       /\ r.pw = page.pw /\ r.ph = page.ph
                       /\ r.mt = page.mt /\ r.ml = page.ml
                       /\ r.cw - page.cw \in -1 .. 1 /\ r.ch - page.ch \in -1 .. 1
    BY DEF NoCssKeepsPrinterLayout, NoCss
  <2>. DEFINE R(v) == ConvertUnit(v, kPointsPerInch, kPixelsPerInch)
              B(x) == ConvertUnit(x, kPixelsPerInch, kPointsPerInch)
              mr == page.pw - page.cw - page.ml
              mb == page.ph - page.ch - page.mt
              r == GetCssPrintParams(NoCss, page)
  <2>1. page \in ParamRec
    BY ParamsTyped DEF GeoInv
  <2>2. Reconciled(FALSE).params = r
    BY DEF Reconciled, CalculatePrintParamsForCss, ReconcileCssParams,
           ResultParams, r
  <2>3. GetDPI(page) = kPointsPerInch
    BY DEF GetDPI
  <2>4. /\ DefaultPixels(page).pw = R(page.pw)
        /\ DefaultPixels(page).ph = R(page.ph)
        /\ DefaultPixels(page).mt = R(page.mt)
        /\ DefaultPixels(page).ml = R(page.ml)
        /\ DefaultPixels(page).mr = R(mr)
        /\ DefaultPixels(page).mb = R(mb)
    BY <2>3 DEF DefaultPixels, R, mr, mb
  <2>5. /\ r.pw = page.pw /\ r.ph = page.ph
        /\ r.mt = B(R(page.mt)) /\ r.ml = B(R(page.ml))
        /\ r.cw = Clamp0(B(R(page.pw) - R(page.ml) - R(mr)))
        /\ r.ch = Clamp0(B(R(page.ph) - R(page.mt) - R(mb)))
    BY <2>1, <2>3, <2>4, NoCssPass DEF r, B
  <2>6. /\ page.mt \in Nat /\ page.ml \in Nat
        /\ page.cw \in Nat \ {0} /\ page.ch \in Nat \ {0}
        /\ mr \in Nat /\ mb \in Nat
        /\ page.pw = page.cw + page.ml + mr /\ page.ph = page.ch + page.mt + mb
    BY <2>1 DEF PrinterParams, IsValid, ParamRec, mr, mb
  <2>7. r.mt = page.mt /\ r.ml = page.ml
    BY <2>5, <2>6, PointsRoundTrip DEF R, B
  <2>8. r.cw - page.cw \in -1 .. 1
    <3>1. Clamp0(B(R(page.cw + page.ml + mr) - R(page.ml) - R(mr))) - page.cw
            \in -1 .. 1
      BY <2>6, ContentRoundTrip DEF R, B
    <3>. QED
      BY <2>5, <2>6, <3>1
  <2>9. r.ch - page.ch \in -1 .. 1
    <3>1. Clamp0(B(R(page.ch + page.mt + mb) - R(page.mt) - R(mb))) - page.ch
            \in -1 .. 1
      BY <2>6, ContentRoundTrip DEF R, B
    <3>. QED
      BY <2>5, <2>6, <3>1
  <2>. QED
    BY <2>2, <2>5, <2>7, <2>8, <2>9
<1>. QED
  BY <1>1, GeoInvHolds, PTL

-----------------------------------------------------------------------------
(* Fit to page: the arithmetic of one axis.                                 *)

\* Floor division by a positive divisor, as \div computes it.
LEMMA DivBounds ==
    ASSUME NEW a \in Int, NEW b \in Nat \ {0}
    PROVE  b * (a \div b) <= a /\ a < b * (a \div b) + b
OBVIOUS

\* Multiplying by a non-negative factor keeps an inequality.
LEMMA MulMono ==
    ASSUME NEW a \in Int, NEW b \in Int, NEW k \in Nat, a <= b
    PROVE  a * k <= b * k
OBVIOUS

\* A positive factor cancels from an inequality.
LEMMA MulCancel ==
    ASSUME NEW a \in Int, NEW b \in Int, NEW k \in Nat \ {0}, k * a <= k * b
    PROVE  a <= b
OBVIOUS

\* One axis of FitPrintParamsToPage: a content of length c at margin m on a
\* page of length W, scaled by num/den no larger than P/W and recentred on
\* a page of length P, starts at a non-negative margin and ends on the page.
LEMMA FitAxis ==
    ASSUME NEW P \in Int, NEW W \in Int, NEW m \in Int, NEW c \in Int,
           NEW num \in Nat, NEW den \in Nat \ {0},
           m >= 0, m + c <= W, W * num <= P * den
    PROVE  /\ CDiv(P * den - W * num + 2 * m * num, 2 * den) >= 0
           /\ CDiv(P * den - W * num + 2 * m * num, 2 * den) + (c * num) \div den <= P
<1>. DEFINE N == P * den - W * num + 2 * m * num
            m2 == N \div (2 * den)
            c2 == (c * num) \div den
<1>1. m * num \in Nat /\ N \in Nat
  BY DEF N
<1>2. CDiv(N, 2 * den) = m2
  BY <1>1 DEF CDiv, m2
<1>3. m2 \in Nat
  BY <1>1 DEF m2
<1>4. (2 * den) * m2 <= N /\ den * c2 <= c * num /\ c2 \in Int
  <2>1. 2 * den \in Nat \ {0} /\ c * num \in Int
    OBVIOUS
  <2>2. (2 * den) * (N \div (2 * den)) <= N
    BY <1>1, <2>1, DivBounds
  <2>3. den * ((c * num) \div den) <= c * num
    BY <2>1, DivBounds
  <2>. QED
    BY <2>2, <2>3 DEF m2, c2
<1>5. (m + c) * num <= W * num
  BY MulMono
<1>. HIDE DEF N, m2, c2
<1>6. (2 * den) * (m2 + c2) <= (2 * den) * P
  <2>1. (2 * den) * (m2 + c2) = (2 * den) * m2 + 2 * (den * c2)
    BY <1>3, <1>4
  <2>2. N + 2 * (c * num) = P * den - W * num + 2 * ((m + c) * num)
    BY DEF N
  <2>3. (2 * den) * P = 2 * (P * den)
    OBVIOUS
  <2>. QED
    BY <1>1, <1>3, <1>4, <1>5, <2>1, <2>2, <2>3
<1>7. m2 + c2 <= P
  <2>1. m2 + c2 \in Int /\ 2 * den \in Nat \ {0}
    BY <1>3, <1>4
  <2>. QED
    BY <1>6, <2>1, MulCancel
<1>. QED
  BY <1>2, <1>3, <1>7 DEF N, m2, c2

\* The scale FitPrintParamsToPage picks, for a printer page Pw x Ph and a
\* page Fw x Fh to fit: the smaller of the two ratios when the page to fit
\* is larger in some dimension, else 1.  It never enlarges, and the page to
\* fit, scaled by it, lies within the printer page in both dimensions.
LEMMA FitScale ==
    ASSUME NEW Pw \in Nat \ {0}, NEW Ph \in Nat \ {0}, NEW Fw \in Nat, NEW Fh \in Nat
    PROVE  LET s == IF Pw < Fw \/ Ph < Fh
                    THEN IF Pw * Fh < Ph * Fw THEN Scale(Pw, Fw) ELSE Scale(Ph, Fh)
                    ELSE Scale(1, 1)
           IN  /\ s.num \in Nat /\ s.den \in Nat \ {0} /\ s.num <= s.den
               /\ Fw * s.num <= Pw * s.den /\ Fh * s.num <= Ph * s.den
<1>1. CASE (Pw < Fw \/ Ph < Fh) /\ Pw * Fh < Ph * Fw
  <2>1. Fw # 0
    BY <1>1
  <2>2. Pw <= Fw
    <3>. SUFFICES ASSUME Fw < Pw PROVE FALSE
      OBVIOUS
    <3>1. Ph < Fh
      BY <1>1
    <3>2. Fw * Fh <= Pw * Fh /\ Fw * Ph <= Fw * Fh
      BY <3>1, MulMono
    <3>. QED
      BY <1>1, <3>2
  <2>. QED
    BY <1>1, <2>1, <2>2 DEF Scale
<1>2. CASE (Pw < Fw \/ Ph < Fh) /\ ~(Pw * Fh < Ph * Fw)
  <2>1. Fh # 0
    BY <1>2
  <2>2. Ph <= Fh
    <3>. SUFFICES ASSUME Fh < Ph PROVE FALSE
      OBVIOUS
    <3>1. Pw < Fw
      BY <1>2
    <3>2. Fh * Pw <= Fh * Fw /\ Fh * Fw < Ph * Fw
      BY <3>1, MulMono
    <3>. QED
      BY <1>2, <3>2
  <2>. QED
    BY <1>2, <2>1, <2>2 DEF Scale
<1>3. CASE ~(Pw < Fw \/ Ph < Fh)
  BY <1>3 DEF Scale
<1>. QED
  BY <1>1, <1>2, <1>3

\* FitPrintParamsToPage, for a printer page of positive size and a layout
\* whose content lies on its own page: the scale never enlarges, and the
\* fitted content starts at non-negative margins and ends on the printer
\* page.
LEMMA FitOnPage ==
    ASSUME NEW pp \in ParamRec, NEW f \in ParamRec, pp.pw > 0, pp.ph > 0,
           f.cw \in Nat, f.ch \in Nat, OnPage(f)
    PROVE  LET F == FitPrintParamsToPage(pp, f)
           IN  F.scale.num <= F.scale.den /\ OnPage(F.params)
<1>1. CASE pp.pw = f.pw /\ pp.ph = f.ph
  BY <1>1 DEF FitPrintParamsToPage, Scale
<1>2. CASE ~(pp.pw = f.pw /\ pp.ph = f.ph)
  <2>. DEFINE s == IF pp.pw < f.pw \/ pp.ph < f.ph
                   THEN IF pp.pw * f.ph < pp.ph * f.pw
                        THEN Scale(pp.pw, f.pw) ELSE Scale(pp.ph, f.ph)
                   ELSE Scale(1, 1)
              mt2 == CDiv(pp.ph * s.den - f.ph * s.num + 2 * f.mt * s.num, 2 * s.den)
              ml2 == CDiv(pp.pw * s.den - f.pw * s.num + 2 * f.ml * s.num, 2 * s.den)
              cw2 == (f.cw * s.num) \div s.den
              ch2 == (f.ch * s.num) \div s.den
  <2>1. /\ FitPrintParamsToPage(pp, f).scale = s
        /\ FitPrintParamsToPage(pp, f).params.pw = pp.pw
        /\ FitPrintParamsToPage(pp, f).params.ph = pp.ph
        /\ FitPrintParamsToPage(pp, f).params.mt = mt2
        /\ FitPrintParamsToPage(pp, f).params.ml = ml2
        /\ FitPrintParamsToPage(pp, f).params.cw = cw2
        /\ FitPrintParamsToPage(pp, f).params.ch = ch2
    BY <1>2 DEF FitPrintParamsToPage, ParamRec, s, mt2, ml2, cw2, ch2
  <2>2. /\ f.ml \in Nat /\ f.mt \in Nat
        /\ f.pw \in Nat /\ f.ph \in Nat
        /\ f.ml + f.cw <= f.pw /\ f.mt + f.ch <= f.ph
    BY DEF OnPage, ParamRec
  <2>3. /\ s.num \in Nat /\ s.den \in Nat \ {0} /\ s.num <= s.den
        /\ f.pw * s.num <= pp.pw * s.den /\ f.ph * s.num <= pp.ph * s.den
    <3>1. pp.pw \in Nat \ {0} /\ pp.ph \in Nat \ {0}
      BY DEF ParamRec
    <3>. QED
      BY <2>2, <3>1, FitScale DEF s
  <2>. HIDE DEF s
  <2>4. ml2 >= 0 /\ ml2 + cw2 <= pp.pw
    <3>1. pp.pw \in Int /\ f.cw \in Int
      BY DEF ParamRec
    <3>2. /\ CDiv(pp.pw * s.den - f.pw * s.num + 2 * f.ml * s.num, 2 * s.den) >= 0
          /\ CDiv(pp.pw * s.den - f.pw * s.num + 2 * f.ml * s.num, 2 * s.den)
               + (f.cw * s.num) \div s.den <= pp.pw
      <4>1. /\ f.pw \in Int /\ f.ml \in Int /\ f.ml >= 0
            /\ f.ml + f.cw <= f.pw /\ f.pw * s.num <= pp.pw * s.den
            /\ s.num \in Nat /\ s.den \in Nat \ {0}
        BY <2>2, <2>3
      <4>. QED
        BY <3>1, <4>1, FitAxis, Zenon
    <3>. QED
      BY <3>2 DEF ml2, cw2
  <2>5. mt2 >= 0 /\ mt2 + ch2 <= pp.ph
    <3>1. pp.ph \in Int /\ f.ch \in Int
      BY DEF ParamRec
    <3>2. /\ CDiv(pp.ph * s.den - f.ph * s.num + 2 * f.mt * s.num, 2 * s.den) >= 0
          /\ CDiv(pp.ph * s.den - f.ph * s.num + 2 * f.mt * s.num, 2 * s.den)
               + (f.ch * s.num) \div s.den <= pp.ph
      <4>1. /\ f.ph \in Int /\ f.mt \in Int /\ f.mt >= 0
            /\ f.mt + f.ch <= f.ph /\ f.ph * s.num <= pp.ph * s.den
            /\ s.num \in Nat /\ s.den \in Nat \ {0}
        BY <2>2, <2>3
      <4>. QED
        BY <3>1, <4>1, FitAxis, Zenon
    <3>. QED
      BY <3>2 DEF mt2, ch2
  <2>. QED
    BY <2>1, <2>3, <2>4, <2>5 DEF OnPage
<1>. QED
  BY <1>1, <1>2

\* The printer page turned by EnsureOrientationMatches keeps a positive
\* size.
LEMMA EnsureOrientationPositive ==
    ASSUME NEW c \in ParamRec, NEW p \in ParamRec, p.pw > 0, p.ph > 0
    PROVE  LET E == EnsureOrientationMatches(c, p)
           IN  E \in ParamRec /\ E.pw > 0 /\ E.ph > 0
BY DEF EnsureOrientationMatches, ParamRec

\* FitStaysOnPage for every printer page and CSS declaration: with fit to
\* page (plugin and PDF frames), a CSS layout whose content lies on its own
\* page is never enlarged and is printed within the printer page, turned
\* to the CSS orientation (CalculatePrintParamsForCss with fit_to_page).
THEOREM FitStaysOnPageHolds == Spec => []FitStaysOnPage
<1>1. GeoInv => FitStaysOnPage
  <2>. DEFINE c == GetCssPrintParams(css, page)
              E == EnsureOrientationMatches(c, page)
              F == FitPrintParamsToPage(E, c)
  <2>. SUFFICES ASSUME GeoInv, PrinterParams(page), OnPage(c)
                PROVE  LET r == Reconciled(TRUE) IN
                       r.scale.num <= r.scale.den /\ OnPage(r.params)
    BY DEF FitStaysOnPage, c
  <2>1. page \in ParamRec /\ c \in ParamRec /\ c.cw \in Nat /\ c.ch \in Nat
    BY CssParamsTyped DEF PrinterParams, c
  <2>2. E \in ParamRec /\ E.pw > 0 /\ E.ph > 0
    BY <2>1, EnsureOrientationPositive DEF PrinterParams, IsValid, E
  <2>3. Reconciled(TRUE).params = F.params /\ Reconciled(TRUE).scale = F.scale
    BY DEF Reconciled, CalculatePrintParamsForCss, ReconcileCssParams,
           ResultParams, c, E, F
  <2>4. F.scale.num <= F.scale.den /\ OnPage(F.params)
    <3>. HIDE DEF c, E
    <3>. QED
      BY <2>1, <2>2, FitOnPage DEF F
  <2>. QED
    BY <2>3, <2>4
<1>. QED
  BY <1>1, GeoInvHolds, PTL

=============================================================================
