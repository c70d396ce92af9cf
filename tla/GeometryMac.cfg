CONSTANTS
    OnMac = TRUE
    BaseParams <- MCBaseParams
    CssLayouts <- MCCssLayouts
SPECIFICATION Spec
INVARIANT FitStaysOnPage
INVARIANT ReconciledOrientation
INVARIANT NoCssKeepsPrinterLayout
