----------------------------- MODULE MCDiskFolder -----------------------------
(* Instances of DiskFolder for TLC.                                         *)
EXTENDS DiskFolder

CONSTANTS k1, k2, s1, s2, t1, t2, alice

Load(sessions, may1, may2, on, sweeps) ==
    [sessions |-> sessions \intersect Sessions, on |-> on, sweeps |-> sweeps,
     may |-> [t \in Tasks |-> IF t = t1 THEN may1 ELSE may2]]

(* The Disks page, on two images of which a session may have one; copies of *)
(* images; an upload, beside a session or a delete; a takeover.             *)
Files ==
    {Load({s1}, {"rename"}, {"delete"}, Keys, FALSE),
     Load({}, {"rename"}, {"rename", "delete", "create"}, Keys, FALSE),
     Load({s1}, {"resize"}, {"rename"}, Keys, FALSE),
     Load({s1}, {"resize"}, {"delete", "create"}, {k1}, FALSE),
     Load({s1}, {"clone"}, {"clone", "delete"}, Keys, TRUE),
     Load({s1}, {"upload"}, {}, {k1}, FALSE),
     Load({}, {"upload"}, {"delete"}, {k1}, FALSE),
     Load({s1, s2}, {"resize", "download"}, {}, {k1}, FALSE)}

(* Sessions are of the image k1: the two images are alike otherwise.  One   *)
(* that does not come need not ask for anything in particular.              *)
InitOfOneImage ==
    /\ Init
    /\ \A s \in Sessions : ask[s].key = k1 /\ (s \notin load.sessions => ask[s].mode = "Reader")

OfOneImage == InitOfOneImage /\ [][Next]_vars

(* All connections are of one client.                                       *)
Certs == [s \in {s1, s2} |-> alice]
=============================================================================
