---------------------------- MODULE PrintSurface ----------------------------
(***************************************************************************)
(* What the print controller promises about the surface it prints from,    *)
(* seen from the host: at most one PrepareFrameAndViewForPrint is held,    *)
(* by one job; a selection copy is printed only by the job that holds it   *)
(* and only once it has loaded; a job is printed directly only while no    *)
(* surface is held; and no job's pages are sent twice.                     *)
(*                                                                         *)
(* owner is the job holding prep_frame_view_ (0: none), ready whether its  *)
(* copy has finished loading, printed the jobs whose pages were sent.      *)
(***************************************************************************)
CONSTANT Sessions

VARIABLES owner, ready, printed

svars == <<owner, ready, printed>>

Init ==
    /\ owner = 0
    /\ ready = FALSE
    /\ printed = {}

\* A job takes the free surface and starts loading its copy.
Acquire(s) ==
    /\ owner = 0
    /\ s \notin printed
    /\ owner' = s
    /\ ready' = FALSE
    /\ UNCHANGED printed

\* The copy of the holding job finishes loading.
Loaded ==
    /\ owner # 0
    /\ ~ready
    /\ ready' = TRUE
    /\ UNCHANGED <<owner, printed>>

\* The holding job's pages are sent from its loaded copy, and the surface
\* is given up.
PrintFromSurface ==
    /\ owner # 0
    /\ ready
    /\ owner \notin printed
    /\ printed' = printed \cup {owner}
    /\ owner' = 0
    /\ ready' = FALSE

\* The surface is given up without printing (failure, cancel, PrintingDone).
Release ==
    /\ owner # 0
    /\ owner' = 0
    /\ ready' = FALSE
    /\ UNCHANGED printed

\* A job is printed directly from the page while no surface is held.
PrintDirect(s) ==
    /\ owner = 0
    /\ s \notin printed
    /\ printed' = printed \cup {s}
    /\ UNCHANGED <<owner, ready>>

Next ==
    \/ \E s \in Sessions : Acquire(s) \/ PrintDirect(s)
    \/ Loaded
    \/ PrintFromSurface
    \/ Release

Spec == Init /\ [][Next]_svars

=============================================================================
