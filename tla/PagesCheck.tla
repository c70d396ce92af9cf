----------------------------- MODULE PagesCheck -----------------------------
(***************************************************************************)
(* Checks which pages PrintPagesNative prints for the page list of the     *)
(* print settings (params.pages, empty for all pages) and the page count   *)
(* of the laid-out document.  A state is one such pair.                    *)
(***************************************************************************)
EXTENDS PrintGeometry

SE == INSTANCE SequencesExt

CONSTANTS
    MaxPage,      \* page indices requested are 0 .. MaxPage
    MaxRequest    \* longest page list

VARIABLES pages, pageCount

vars == <<pages, pageCount>>

Requests == SE!SeqOf(0 .. MaxPage, MaxRequest)

Init == pages \in Requests /\ pageCount \in 1 .. MaxPage

\* The host sends the next print request for the same document.
NextRequest == \E r \in Requests : pages' = r /\ UNCHANGED pageCount

Spec == Init /\ [][NextRequest]_vars

-----------------------------------------------------------------------------

\* Section 5 of the spec: an explicit page list is "filtered to indices
\* below pageCount", keeping the caller's order, so every requested page
\* that exists is printed.
RequestedPagesPrinted ==
    PagesToPrint(pages, pageCount) =
        IF pages = << >> THEN [i \in 1 .. pageCount |-> i - 1]
        ELSE SelectSeq(pages, LAMBDA n : n < pageCount)

=============================================================================
