--------------------------- MODULE MC_Geometry300 ---------------------------
(* Geometry off the Mac, where GetDPI is the printer's dpi: a 300 dpi      *)
(* printer, page sizes of a few device units so that the conversions to    *)
(* 96 px and 72 pt per inch round in both directions, and content as small *)
(* as one device unit, less than a CSS pixel.                              *)
EXTENDS GeometryCheck

MCBaseParams ==
    {p \in [pw : {10, 12}, ph : {10, 12}, cw : 1 .. 12, ch : {1, 8},
            mt : 0 .. 2, ml : 0 .. 2, aw : {10}, ah : {12}, dpi : {300},
            cookie : {1}] :
        p.ml + p.cw <= p.pw /\ p.mt + p.ch <= p.ph}

MCCssLayouts ==
    {NoFrame} \cup
    [frame : {TRUE}, size : {CssAuto, <<4, 4>>}, margins : {CssAuto, <<0, 1, 0, 1>>}]

=============================================================================
