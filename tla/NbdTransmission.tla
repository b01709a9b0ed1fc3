---------------------------- MODULE NbdTransmission ----------------------------
(***************************************************************************)
(* The transmission phase of one NBD connection (internal/nbd:             *)
(* transmission.go, image.go): one goroutine reads requests, up to         *)
(* MaxInFlight workers run them, out of order, on one image and one        *)
(* socket, within a budget of memory.  At its end the workers are waited   *)
(* for before the image is synced, closed and its lease released.          *)
(*                                                                         *)
(* The client sends the requests of Requests in any order, each once, and  *)
(* goes when it likes; what it reads or writes is left out.  A sync makes  *)
(* stable what was written before it began.  The budget is closed after    *)
(* its one user, the reader, has left the loop, so acquire never says no.  *)
(***************************************************************************)
EXTENDS Integers, FiniteSets, FiniteSetsExt

CONSTANTS Requests,
          Kind,           \* request -> "read", "write", "zero" or "flush"
          Length,         \* request -> bytes
          Fua,            \* the requests with NBD_CMD_FLAG_FUA
          Writable,       \* the export is attached read-write
          MaxBlock, MaxInFlight, InFlightBytes,
          NoRequest

ASSUME RequestsAssumption ==
    /\ IsFiniteSet(Requests) /\ NoRequest \notin Requests
    /\ Kind \in [Requests -> {"read", "write", "zero", "flush"}]
    /\ Length \in [Requests -> Nat]
    /\ Fua \subseteq {r \in Requests : Kind[r] \in {"write", "zero"}}
    /\ Writable \in BOOLEAN

ASSUME LimitsAssumption ==
    /\ MaxBlock \in Nat /\ MaxInFlight \in Nat \ {0}
    /\ InFlightBytes \in Nat /\ MaxBlock <= InFlightBytes

VARIABLES at,       \* how far the reader is
          now,      \* the request in its hands, or NoRequest
          state,    \* request -> how far it is
          ok,       \* requests that did what they were asked
          replies,  \* requests whose reply was sent
          free,     \* budget.free
          down,     \* the socket is closed
          written,  \* writes that are in the file
          stable,   \* writes that a power cut leaves in the file
          covers    \* request -> what its sync covers; before that, of a flush,
                    \* the writes answered when it was read

transmissionVars == <<at, now, state, ok, replies, free, down, written, stable, covers>>

Ats == {"reading", "paying", "loading", "placing", "draining", "syncing",
        "closing", "releasing", "over"}
States == {"unsent", "running", "syncing", "replying", "sending", "leaving",
           "refunded", "done"}

Writes(r) == Kind[r] \in {"write", "zero"}

(* What a request takes of the budget: an oversized read holds nothing.     *)
Cost(r) == IF Kind[r] \in {"read", "write"} /\ Length[r] <= MaxBlock THEN Length[r] ELSE 0

Becomes(r, s) == state' = [state EXCEPT ![r] = s]

InFlight == {r \in Requests : state[r] \notin {"unsent", "done"}}

Answered == {r \in replies : Writes(r) /\ r \in ok}

-----------------------------------------------------------------------------
(* The reader.                                                              *)

ReadHeader(r) ==
    /\ at = "reading" /\ ~down /\ state[r] = "unsent"
    /\ ~(Kind[r] = "write" /\ Length[r] > MaxBlock)
    /\ now' = r
    /\ covers' = [covers EXCEPT ![r] = IF Kind[r] = "flush" THEN Answered ELSE {}]
    /\ at' = IF Kind[r] = "write" \/ (Kind[r] = "read" /\ Length[r] <= MaxBlock)
             THEN "paying" ELSE "placing"
    /\ UNCHANGED <<state, ok, replies, free, down, written, stable>>

(* NBD_CMD_DISC, a write too large to take, a broken protocol or connection.*)
LeavesLoop ==
    /\ at = "reading"
    /\ at' = "draining"
    /\ UNCHANGED <<now, state, ok, replies, free, down, written, stable, covers>>

(* budget.acquire.                                                          *)
Pay ==
    /\ at = "paying" /\ free >= Cost(now)
    /\ free' = free - Cost(now)
    /\ at' = IF Kind[now] = "write" THEN "loading" ELSE "placing"
    /\ UNCHANGED <<now, state, ok, replies, down, written, stable, covers>>

Load ==
    /\ at = "loading" /\ ~down
    /\ at' = "placing"
    /\ UNCHANGED <<now, state, ok, replies, free, down, written, stable, covers>>

(* Mutated: the budget of a payload that broke off is not given back.       *)
LoadFailsUnrefunded ==
    /\ at = "loading"
    /\ at' = "draining" /\ now' = NoRequest
    /\ UNCHANGED <<state, ok, replies, free, down, written, stable, covers>>

LoadFails ==
    /\ at = "loading"
    /\ free' = free + Cost(now)
    /\ at' = "draining" /\ now' = NoRequest
    /\ UNCHANGED <<state, ok, replies, down, written, stable, covers>>

(* A slot is free: the request goes to a worker.                            *)
Place ==
    /\ at = "placing" /\ Cardinality(InFlight) < MaxInFlight
    /\ Becomes(now, "running")
    /\ now' = NoRequest /\ at' = "reading"
    /\ UNCHANGED <<ok, replies, free, down, written, stable, covers>>

-----------------------------------------------------------------------------
(* A worker: handle.                                                        *)

(* A read-only export, an oversized read or a range beyond the end, or the  *)
(* disk fails.                                                              *)
Fails(r) ==
    /\ state[r] = "running"
    /\ Becomes(r, "replying")
    /\ UNCHANGED <<at, now, ok, replies, free, down, written, stable, covers>>

Reads(r) ==
    /\ state[r] = "running" /\ Kind[r] = "read" /\ Length[r] <= MaxBlock
    /\ ok' = ok \union {r}
    /\ Becomes(r, "replying")
    /\ UNCHANGED <<at, now, replies, free, down, written, stable, covers>>

(* Mutated: a write is answered at once, whatever it asked for.             *)
StoresUnsynced(r) ==
    /\ state[r] = "running" /\ Writes(r) /\ Writable
    /\ written' = written \union {r}
    /\ ok' = ok \union {r} /\ Becomes(r, "replying")
    /\ UNCHANGED <<at, now, replies, free, down, stable, covers>>

(* WriteAt, or zero; with FUA a sync begins.                                *)
Stores(r) ==
    /\ state[r] = "running" /\ Writes(r) /\ Writable
    /\ written' = written \union {r}
    /\ IF r \in Fua
       THEN Becomes(r, "syncing") /\ covers' = [covers EXCEPT ![r] = written'] /\ UNCHANGED ok
       ELSE Becomes(r, "replying") /\ ok' = ok \union {r} /\ UNCHANGED covers
    /\ UNCHANGED <<at, now, replies, free, down, stable>>

Flushes(r) ==
    /\ state[r] = "running" /\ Kind[r] = "flush"
    /\ IF Writable
       THEN Becomes(r, "syncing") /\ covers' = [covers EXCEPT ![r] = @ \union written] /\ UNCHANGED ok
       ELSE Becomes(r, "replying") /\ ok' = ok \union {r} /\ UNCHANGED covers
    /\ UNCHANGED <<at, now, replies, free, down, written, stable>>

Synced(r) ==
    /\ state[r] = "syncing"
    /\ stable' = stable \union covers[r]
    /\ ok' = ok \union {r}
    /\ Becomes(r, "replying")
    /\ UNCHANGED <<at, now, replies, free, down, written, covers>>

SyncFails(r) ==
    /\ state[r] = "syncing"
    /\ Becomes(r, "replying")
    /\ UNCHANGED <<at, now, ok, replies, free, down, written, stable, covers>>

(* send: whoever has writeMu writes its reply whole.                        *)
Locks(r) ==
    /\ state[r] = "replying" /\ \A q \in Requests : state[q] # "sending"
    /\ Becomes(r, "sending")
    /\ UNCHANGED <<at, now, ok, replies, free, down, written, stable, covers>>

Sends(r) ==
    /\ state[r] = "sending" /\ ~down
    /\ replies' = replies \union {r}
    /\ Becomes(r, "leaving")
    /\ UNCHANGED <<at, now, ok, free, down, written, stable, covers>>

(* A reply that cannot be sent ends the connection.                         *)
SendFails(r) ==
    /\ state[r] = "sending"
    /\ down' = TRUE
    /\ Becomes(r, "leaving")
    /\ UNCHANGED <<at, now, ok, replies, free, written, stable, covers>>

(* The deferred calls of the worker: its budget, and then its slot.         *)
Refunds(r) ==
    /\ state[r] = "leaving"
    /\ free' = free + Cost(r)
    /\ Becomes(r, "refunded")
    /\ UNCHANGED <<at, now, ok, replies, down, written, stable, covers>>

(* Mutated: only a worker that sent its reply says that it is done.         *)
FinishesOnceAnswered(r) ==
    /\ state[r] = "refunded" /\ r \in replies
    /\ Becomes(r, "done")
    /\ UNCHANGED <<at, now, ok, replies, free, down, written, stable, covers>>

Finishes(r) ==
    /\ state[r] = "refunded"
    /\ Becomes(r, "done")
    /\ UNCHANGED <<at, now, ok, replies, free, down, written, stable, covers>>

-----------------------------------------------------------------------------
(* The end, and close from the client, the page, a takeover, a reload ...   *)

(* Mutated: the workers are not waited for.                                 *)
DrainedAtOnce ==
    /\ at = "draining"
    /\ at' = IF Writable THEN "syncing" ELSE "closing"
    /\ UNCHANGED <<now, state, ok, replies, free, down, written, stable, covers>>

Drained ==
    /\ at = "draining" /\ InFlight = {}
    /\ at' = IF Writable THEN "syncing" ELSE "closing"
    /\ UNCHANGED <<now, state, ok, replies, free, down, written, stable, covers>>

(* The last sync, which may fail, the close and the release of the lease.   *)
EndSync ==
    /\ at = "syncing"
    /\ stable' \in {stable, stable \union written}
    /\ at' = "closing"
    /\ UNCHANGED <<now, state, ok, replies, free, down, written, covers>>

CloseImage ==
    /\ at = "closing"
    /\ at' = "releasing"
    /\ UNCHANGED <<now, state, ok, replies, free, down, written, stable, covers>>

ReleaseLease ==
    /\ at = "releasing"
    /\ at' = "over"
    /\ UNCHANGED <<now, state, ok, replies, free, down, written, stable, covers>>

Close ==
    /\ ~down
    /\ down' = TRUE
    /\ UNCHANGED <<at, now, state, ok, replies, free, written, stable, covers>>

-----------------------------------------------------------------------------
TransmissionInit ==
    /\ at = "reading" /\ now = NoRequest
    /\ state = [r \in Requests |-> "unsent"]
    /\ ok = {} /\ replies = {}
    /\ free = InFlightBytes
    /\ down = FALSE
    /\ written = {} /\ stable = {}
    /\ covers = [r \in Requests |-> {}]

Reader ==
    \/ (\E r \in Requests : ReadHeader(r)) \/ LeavesLoop
    \/ Pay \/ Load \/ LoadFails \/ Place
    \/ Drained \/ EndSync \/ CloseImage \/ ReleaseLease

Works(r) ==
    \/ Fails(r) \/ Reads(r) \/ Stores(r) \/ Flushes(r) \/ Synced(r) \/ SyncFails(r)
    \/ Locks(r) \/ Refunds(r) \/ Finishes(r)

TransmissionNext ==
    \/ Reader
    \/ \E r \in Requests : Works(r) \/ Sends(r) \/ SendFails(r)
    \/ Close

TransmissionSpec == TransmissionInit /\ [][TransmissionNext]_transmissionVars

(* Goroutines run and the disk answers.  The client reads its replies, or   *)
(* the socket is closed under them; it need not send anything more, and it  *)
(* need not go.                                                             *)
TransmissionFairness ==
    /\ WF_transmissionVars(Pay) /\ WF_transmissionVars(Place)
    /\ WF_transmissionVars(down /\ (LeavesLoop \/ LoadFails))
    /\ WF_transmissionVars(Drained \/ EndSync \/ CloseImage \/ ReleaseLease)
    /\ \A r \in Requests :
        WF_transmissionVars(Works(r)) /\ WF_transmissionVars(Sends(r) \/ (down /\ SendFails(r)))

FairTransmission == TransmissionSpec /\ TransmissionFairness

-----------------------------------------------------------------------------
Charged ==
    {r \in Requests : state[r] \notin {"unsent", "refunded", "done"}}
    \union IF at \in {"loading", "placing"} THEN {now} ELSE {}

(* What the requests in memory hold is what is missing from the budget, on  *)
(* every path a request leaves by.                                          *)
BudgetIsKept ==
    /\ free = InFlightBytes - MapThenSumSet(Cost, Charged)
    /\ Cardinality(InFlight) <= MaxInFlight

(* A reply that says so means it: a write is in the file, one with FUA is   *)
(* stable, and after a flush so is every write answered before it was read, *)
(* whatever ran beside it.                                                  *)
RepliesAreTrue ==
    \A r \in replies \intersect ok :
        /\ Writes(r) => r \in written
        /\ r \in Fua => r \in stable
        /\ Kind[r] = "flush" => covers[r] \subseteq stable

(* Once the end begins nothing works on the image any more: not when it is  *)
(* synced, and not when its lease lets the next one in.                     *)
QuietAtTheEnd ==
    at \in {"syncing", "closing", "releasing", "over"} => InFlight = {} /\ now = NoRequest

(* A connection that is closed lets go of its image, whatever its reader    *)
(* and its workers were waiting for: budget, slots, or the client; and a    *)
(* request that was taken is answered, well or not, as long as there is a   *)
(* connection, also the ones that were in flight at NBD_CMD_DISC.           *)
NobodyIsLeftWaiting ==
    /\ down ~> at = "over"
    /\ \A r \in Requests : state[r] = "running" ~> r \in replies \/ down
=============================================================================
