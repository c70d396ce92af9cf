------------------------------ MODULE MC_Pages ------------------------------
(* Page lists of up to three indices out of 0..3, so that lists in and out *)
(* of order, with repeats, and with an index beyond the document before    *)
(* one inside it all occur, for documents of one to three pages.           *)
EXTENDS PagesCheck

MCMaxPage == 3
MCMaxRequest == 3

=============================================================================
