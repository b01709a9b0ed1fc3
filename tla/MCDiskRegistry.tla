---------------------------- MODULE MCDiskRegistry ----------------------------
(* An instance of DiskRegistry for TLC.                                       *)
EXTENDS DiskRegistry

CONSTANTS k1, s1, s2, s3, s4, t1, t2, alice

(* Three connections of one client, of which two may wait for the third,    *)
(* and one of which no certificate is known.                                *)
Certs == [s \in {s1, s2, s3, s4} |-> IF s = s4 THEN NoCert ELSE alice]
=============================================================================
