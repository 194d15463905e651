-------------------------- MODULE MCRoutePreflight --------------------------
(* A small instance of RoutePreflight for TLC.                             *)
EXTENDS RoutePreflight
=============================================================================
