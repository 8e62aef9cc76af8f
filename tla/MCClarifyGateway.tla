--------------------------- MODULE MCClarifyGateway ---------------------------
(* The instances of ClarifyGateway that TLC checks: two turns asking the same  *)
(* owner, two replies, and one fault.                                          *)
EXTENDS ClarifyGateway

CONSTANTS q1, q2, m1, m2, none, janitor
=============================================================================
