--------------------------- MODULE MCNotifications ---------------------------
(***************************************************************************)
(* A small instance of Notifications, with the relay the server runs and a *)
(* standalone one.  A payment may stop after any of its events; its course *)
(* says what it would record.                                              *)
(***************************************************************************)
EXTENDS Notifications

CONSTANTS x, y, relay, standalone, worker1, worker2, nobody

ShortCourses == {<<"INITIATED", "PROCESSING", "FAILED">>}
=============================================================================
