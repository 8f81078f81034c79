--------------------------- MODULE MCSupervisor ---------------------------
(* Supervisor with a named tunnel, a not-ready grace of two ticks and      *)
(* backoffs of 2 and 3: one that doubles and one that is capped.           *)
EXTENDS Supervisor

=============================================================================
