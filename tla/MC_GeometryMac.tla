--------------------------- MODULE MC_GeometryMac ---------------------------
(* Geometry on the Mac, where GetDPI is 72: printer parameters in points,  *)
(* scaled down from Letter so that pages in both orientations, zero and    *)
(* non-zero margins and content that does or does not fill the page all   *)
(* occur; CSS sizes smaller and larger than the page in each dimension,    *)
(* margins that fit and margins that leave no content.                     *)
EXTENDS GeometryCheck

MCBaseParams ==
    {p \in [pw : {6, 8}, ph : {6, 8}, cw : 1 .. 8, ch : 1 .. 8,
            mt : 0 .. 2, ml : 0 .. 2, aw : {6}, ah : {8}, dpi : {72},
            cookie : {1}] :
        p.ml + p.cw <= p.pw /\ p.mt + p.ch <= p.ph /\ p.cw >= p.pw - 3
        /\ p.ch >= p.ph - 3}

MCCssLayouts ==
    {NoFrame} \cup
    [frame : {TRUE},
     size : {CssAuto, <<8, 8>>, <<16, 8>>, <<6, 12>>, <<32, 24>>},
     margins : {CssAuto, <<0, 0, 0, 0>>, <<1, 2, 1, 0>>, <<8, 8, 8, 8>>}]

=============================================================================
