CONSTANTS
    OnMac = TRUE
    MaxPage <- MCMaxPage
    MaxRequest <- MCMaxRequest
SPECIFICATION Spec
INVARIANT RequestedPagesPrinted
