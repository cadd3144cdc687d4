---------------------------- MODULE MCController ----------------------------
(* Instance of Controller: three goroutines that acquire, a limit that     *)
(* starts below its minimum, jumps by two to it and then moves up to five. *)
EXTENDS Controller
=============================================================================
