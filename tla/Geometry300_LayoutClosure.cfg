CONSTANTS
    OnMac = FALSE
    BaseParams <- MCBaseParams
    CssLayouts <- MCCssLayouts
SPECIFICATION Spec
INVARIANT LayoutClosure
