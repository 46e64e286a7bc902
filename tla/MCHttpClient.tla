---------------------------- MODULE MCHttpClient ----------------------------
(***************************************************************************)
(* Instances of HttpClient for TLC: the calls are model values.            *)
(***************************************************************************)
EXTENDS HttpClient

CONSTANTS c1, c2, c3

=============================================================================
