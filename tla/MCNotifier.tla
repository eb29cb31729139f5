----------------------------- MODULE MCNotifier -----------------------------
(* Notifier with one page that subscribes to the field's status and to the *)
(* match that is loaded, which the main loop and a page's handler announce. *)
EXTENDS Notifier, TLC
CONSTANTS loop, handler, page
OneStatusTwoLoads == <<1, 2>>
=============================================================================
