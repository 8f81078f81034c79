---------------------------- MODULE MCDashboard ----------------------------
(* Dashboard with two requests in flight, a ring of two lines, three lines *)
(* in each of two runs of the server.                                      *)
EXTENDS Dashboard

CONSTANTS k1, k2

MCRequest == {k1, k2}
=============================================================================
