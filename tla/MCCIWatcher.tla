---------------------------- MODULE MCCIWatcher ----------------------------
(* CIWatcher with the two exported files of main.go, or with one of them.  *)
EXTENDS CIWatcher

=============================================================================
