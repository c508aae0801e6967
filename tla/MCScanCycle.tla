---------------------------- MODULE MCScanCycle ----------------------------
(* Small instances of ScanCycle: two or three domains, one or two start   *)
(* requests.                                                                *)
EXTENDS ScanCycle

CONSTANTS d1, d2, d3, r1, r2
=============================================================================
