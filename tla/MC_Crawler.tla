----------------------------- MODULE MC_Crawler -----------------------------
(* The crawler on a chain of two or three blocks; the configurations give  *)
(* the constants their values.                                             *)
EXTENDS Crawler
=============================================================================
