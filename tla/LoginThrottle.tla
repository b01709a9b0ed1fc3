--------------------------- MODULE LoginThrottle ---------------------------
(***************************************************************************)
(* The lock of an address that sends wrong passwords: httpd/throttle.go    *)
(* and the handlers that ask it and tell it.                               *)
(*                                                                         *)
(* A request asks whether its address is locked before anything of it is   *)
(* read, and its password is judged later, so that all who came in before  *)
(* the lock are judged after it.  The table of addresses is kept small     *)
(* while it is used, and forgets those that say nothing any more; when it  *)
(* is full, the ones that failed longest ago.                              *)
(*                                                                         *)
(* Left out: the delay of a wrong password and a change of the settings.   *)
(***************************************************************************)
EXTENDS Naturals, FiniteSets

CONSTANTS
  Addresses,
  Slots,       \* requests that may be under way at once
  Attempts,    \* http.loginAttempts, at least 1
  Lockout,     \* http.loginLockout: the window, and how long a lock lasts
  EvictAbove, SweepEvery, MaxTracked, ShedBatch,
  MaxTime      \* bound of the clock

VARIABLES
  clients,  \* address -> its record
  swept,    \* when the table was last swept
  now,
  login,    \* slot -> the address whose password is to be judged
  guesses   \* address -> its wrong passwords of the last Lockout: when each was judged,
            \* and how many were before it at that time

throttleVars == <<clients, swept, now, login, guesses>>

Free == "free"
NoRecord == [failures |-> 0, since |-> 0, until |-> 0, known |-> FALSE]
Opened == [NoRecord EXCEPT !.since = now, !.known = TRUE]
Tracked(table) == {x \in Addresses : table[x].known}
Forget(table, gone) == [x \in Addresses |-> IF x \in gone THEN NoRecord ELSE table[x]]

Locked(x) == clients[x].until > now

(* Neither form, header nor token is looked at while the address is locked. *)
Comes(r, x) ==
  /\ login[r] = Free /\ ~Locked(x)
  /\ login' = [login EXCEPT ![r] = x]
  /\ UNCHANGED <<clients, swept, now, guesses>>

(* Mutated: a record goes when its lock is over, whatever its window counts. *)
IsNotLocked(x) == now >= clients[x].until
SaysNothing(x) == now >= clients[x].until /\ now > clients[x].since + Lockout

(* The tables an eviction may leave: of equally old ones any may go. *)
Evicted ==
  LET full == Cardinality(Tracked(clients)) >= MaxTracked
      left == Forget(clients, {x \in Tracked(clients) : SaysNothing(x)})
      kept == Tracked(left)
  IN IF ~full /\ now - swept < SweepEvery THEN {clients}
     ELSE IF Cardinality(kept) < MaxTracked THEN {left}
     ELSE {Forget(left, old) : old \in {o \in SUBSET kept :
             /\ Cardinality(o) = ShedBatch
             /\ \A x \in o, y \in kept \ o : left[x].since <= left[y].since}}

Sweeps == Cardinality(Tracked(clients)) >= MaxTracked \/ now - swept >= SweepEvery

Counted(record) ==
  LET fresh == IF now > record.since + Lockout
               THEN [record EXCEPT !.failures = 0, !.since = now] ELSE record
  IN IF fresh.failures + 1 < Attempts THEN [fresh EXCEPT !.failures = @ + 1]
     ELSE [fresh EXCEPT !.failures = 0, !.since = now, !.until = now + Lockout]

Judged(x) == guesses[x] \cup {<<now, Cardinality({h \in guesses[x] : h[1] = now})>>}

(* A wrong password is counted; one whose record was shed starts anew.     *)
Fails(r) ==
  LET x == login[r]
      evicts == ~clients[x].known /\ Cardinality(Tracked(clients)) >= EvictAbove
  IN /\ x # Free
     /\ \E table \in (IF evicts THEN Evicted ELSE {clients}) :
          LET shed == {y \in Tracked(clients) \ Tracked(table) : ~SaysNothing(y)}
          IN /\ clients' = [table EXCEPT ![x] = Counted(IF @.known THEN @ ELSE Opened)]
             /\ guesses' = [y \in Addresses |->
                  IF y = x THEN Judged(x)
                  ELSE IF y \in shed THEN {} ELSE guesses[y]]
     /\ swept' = IF evicts /\ Sweeps THEN now ELSE swept
     /\ login' = [login EXCEPT ![r] = Free]
     /\ UNCHANGED now

Clears(r) ==
  /\ login[r] # Free
  /\ clients' = Forget(clients, {login[r]})
  /\ guesses' = [guesses EXCEPT ![login[r]] = {}]
  /\ login' = [login EXCEPT ![r] = Free]
  /\ UNCHANGED <<swept, now>>

(* What cannot be read, is of an old nonce, or of a token that has expired. *)
IsNoGuess(r) ==
  /\ login[r] # Free
  /\ login' = [login EXCEPT ![r] = Free]
  /\ UNCHANGED <<clients, swept, now, guesses>>

Ticks ==
  /\ now < MaxTime
  /\ now' = now + 1
  /\ guesses' = [x \in Addresses |-> {h \in guesses[x] : h[1] + Lockout > now + 1}]
  /\ UNCHANGED <<clients, swept, login>>

ThrottleInit ==
  /\ clients = [x \in Addresses |-> NoRecord] /\ swept = 0 /\ now = 0
  /\ login = [r \in Slots |-> Free] /\ guesses = [x \in Addresses |-> {}]

ThrottleNext ==
  \/ \E r \in Slots :
       \/ \E x \in Addresses : Comes(r, x)
       \/ Fails(r) \/ Clears(r) \/ IsNoGuess(r)
  \/ Ticks

ThrottleSpec == ThrottleInit /\ [][ThrottleNext]_throttleVars

(* However requests overlap the lock, no address has more wrong passwords  *)
(* judged within a lockout than two windows count and one burst brings,    *)
(* but for one that is forgotten; and the table stays within its bound.    *)
GuessesAreBounded ==
  /\ \A x \in Addresses : Cardinality(guesses[x]) <= 2 * (Attempts - 1) + Cardinality(Slots)
  /\ Cardinality(Tracked(clients)) <= MaxTracked
=============================================================================
