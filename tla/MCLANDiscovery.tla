--------------------------- MODULE MCLANDiscovery ---------------------------
(* Small instances of LANDiscovery for TLC.                                  *)
EXTENDS LANDiscovery

CONSTANTS s1, s2, a, b

\* Payloads shorter than the field, so that its rest is never set.
McData == {<<a>>, <<b>>}
=============================================================================
