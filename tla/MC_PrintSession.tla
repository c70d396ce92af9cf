-------------------------- MODULE MC_PrintSession --------------------------
(* The session controller with three print requests: enough for a request  *)
(* nested inside another's ScriptedPrint wait, a stale PrintingDone of an   *)
(* earlier job reaching a later session, and a posted task of one copy      *)
(* outliving it while a third session loads its own copy.                  *)
EXTENDS PrintSession

MCMaxSessions == 3

\* Zero pages (a plugin that does not want to print) and some pages.
MCPageCounts == {0, 2}

=============================================================================
