----------------------------- MODULE MCOciStore -----------------------------
(* Two repositories, images of two platforms and an artifact.              *)
EXTENDS OciStore, TLC

CONSTANTS r, s, t, p1, p2, cx, cy, ix, iy, linux, arm

MCConfigOf == (ix :> cx) @@ (iy :> cy)
MCLayersOf == (ix :> {cx}) @@ (iy :> {cx})
MCPlatformOf == (ix :> linux) @@ (iy :> arm)
MCOffered == {{ix, iy}}
Symmetry == Permutations(Processes) \cup Permutations(Repos)
=============================================================================
