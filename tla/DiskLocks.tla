------------------------------ MODULE DiskLocks ------------------------------
(***************************************************************************)
(* What package disks promises of the lock on every image, without saying  *)
(* how the registry keeps it: a set of leases per image, of which any two  *)
(* are compatible (the comments of type Mode, locks.go).  DiskRegistry is  *)
(* the registry that implements this, DiskFolder the operations built on   *)
(* top of it.                                                              *)
(***************************************************************************)
CONSTANTS Keys,      \* the images, by the key two spellings of a name share
          Holders    \* whoever may hold a lease: NBD sessions, page requests

VARIABLE held        \* image -> set of leases, each of a holder and a mode

Modes == {"Reader", "Writer", "Hold", "Exclusive"}

(* Leases of one holder are told apart by their mode and image only: no     *)
(* holder of this program has two of a mode on one image.                  *)
Lease == [who : Holders, mode : Modes]

(* Readers go with everything but an exclusive lease, a writer with readers *)
(* only, a hold with readers and other holds, an exclusive lease with none. *)
Compatible(m, n) ==
    \/ {m, n} \subseteq {"Reader", "Hold"}
    \/ {m, n} = {"Reader", "Writer"}

Init == held = [k \in Keys |-> {}]

Take(k, l) ==
    /\ l \notin held[k]
    /\ \A h \in held[k] : Compatible(l.mode, h.mode)
    /\ held' = [held EXCEPT ![k] = @ \union {l}]

Drop(k, l) ==
    /\ l \in held[k]
    /\ held' = [held EXCEPT ![k] = @ \ {l}]

(* The server restarts: every holder is gone with it.                      *)
DropAll == held' = [k \in Keys |-> {}]

Next ==
    \/ \E k \in Keys, l \in Lease : Take(k, l) \/ Drop(k, l)
    \/ DropAll

Spec == Init /\ [][Next]_held

-----------------------------------------------------------------------------
TypeOK == held \in [Keys -> SUBSET Lease]

(* Two leases that live at once on one image are compatible.               *)
Exclusion ==
    \A k \in Keys : \A g, h \in held[k] : g # h => Compatible(g.mode, h.mode)
=============================================================================
