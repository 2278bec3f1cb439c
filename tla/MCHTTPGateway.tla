--------------------------- MODULE MCHTTPGateway ---------------------------
(* Two clients of the HTTP proxy.                                           *)
EXTENDS HTTPGateway

CONSTANTS c1, c2

TwoConns == {c1, c2}
============================================================================
