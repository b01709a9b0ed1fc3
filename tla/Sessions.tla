------------------------------ MODULE Sessions ------------------------------
(***************************************************************************)
(* The session of a browser: a signed token that carries when its login    *)
(* was, when it expires and for which password it was issued, and that the *)
(* server keeps nothing of (httpd/token.go, session.go, auth.go).          *)
(*                                                                         *)
(* A browser sends several requests at once with the token it holds then,  *)
(* and takes their answers in any order; each is judged by the settings    *)
(* that were current when it came in, however long ago.                    *)
(*                                                                         *)
(* Left out: other accounts, forged tokens, and a change of the key.  The  *)
(* browser here keeps a token past its time, as a cookie jar need not.     *)
(***************************************************************************)
EXTENDS Naturals, FiniteSets

CONSTANTS
  Settings,  \* password of the account, where it may log in, and the window
  Nobody,    \* no password
  Slots,     \* requests of the browser at once
  Leeway,    \* tokenLeeway
  MaxTime,   \* bound of the clock
  MaxReloads, MaxLogins \* bounds

VARIABLES
  current,  \* the settings of the server
  reloads,  \* how often they were changed
  clock,
  jar,      \* the token of the browser
  request,  \* slot -> its request
  logins,   \* logins there were: when, with what password
  used      \* login -> when a request of it was last taken for its session

sessionVars == <<current, reloads, clock, jar, request, logins, used>>

Token(login, expires, password) == [login |-> login, expires |-> expires, password |-> password]
NoToken == Token(0, 0, Nobody)
Kinds == {"form", "files", "registry", "header"}

NoRequest == [pc |-> "free", kind |-> "form", set |-> CHOOSE s \in Settings : TRUE,
              token |-> NoToken]

(* A cap shorter than the idle window is raised to it. *)
Cap(set) == IF set.max < set.idle THEN set.idle ELSE set.max
Least(m, n) == IF m < n THEN m ELSE n

Mint(set, login) == Token(login, Least(clock + set.idle, login + Cap(set)), set.password)

(* The request comes in, and holds the settings of then. *)
ComesIn(r, kind) ==
  /\ request[r].pc = "free"
  /\ kind = "form" => Cardinality(logins) < MaxLogins /\ (current.http \/ current.registry)
  /\ request' = [request EXCEPT ![r] = [NoRequest EXCEPT !.pc = "judged", !.kind = kind,
                   !.token = jar, !.set = current]]
  /\ UNCHANGED <<current, reloads, clock, jar, logins, used>>

(***************************************************************************)
(* What the server says of a token.                                        *)
(***************************************************************************)
Reads(token) == token # NoToken /\ clock < token.expires + Leeway
Outlived(set, token) == clock > token.login + Cap(set) + Leeway
IssuedFor(set, token) == token.password = set.password

(* A fresh token is of the login of the old one.                            *)
(* Mutated: its renewal counts as a login.                                  *)
RenewedAsALogin(set, token) ==
  IF token.expires < clock + set.idle \div 2 THEN Mint(set, clock) ELSE token
Renewed(set, token) ==
  IF token.expires < clock + set.idle \div 2 /\ token.expires < token.login + Cap(set)
  THEN Mint(set, token.login) ELSE token

Keep == Token(0, 1, Nobody)
Answers(r, answer) ==
  request' = [request EXCEPT ![r] =
    IF answer = Keep THEN NoRequest ELSE [NoRequest EXCEPT !.pc = "answered", !.token = answer]]

(* Whether a request is let in for its session.  The registry page, and a  *)
(* header with the right password, read the token and do not ask how old   *)
(* its login is.                                                           *)
LetsIn(kind, set, token) ==
  /\ Reads(token) /\ IssuedFor(set, token)
  /\ CASE kind = "files" -> set.http /\ ~Outlived(set, token)
       [] kind = "registry" -> set.registry
       [] kind = "header" -> set.http
       [] OTHER -> FALSE

(* The login form, with the right password; another changes nothing here. *)
LogsIn(r) ==
  LET set == request[r].set
  IN /\ request[r].pc = "judged" /\ request[r].kind = "form"
     /\ Answers(r, Mint(set, clock))
     /\ logins' = logins \cup {<<clock, set.password>>}
     /\ used' = [used EXCEPT ![clock] = clock]
     /\ UNCHANGED <<current, reloads, clock, jar>>

LogsOut(r) ==
  /\ request[r].pc = "free"
  /\ Answers(r, NoToken)
  /\ UNCHANGED <<current, reloads, clock, jar, logins, used>>

(* A request for files: what is no session of the account is dropped, and  *)
(* one of the registry alone is kept, and lets nobody in here.             *)
AsksForFiles(r) ==
  LET set == request[r].set
      token == request[r].token
      kept == \E page \in {"files", "registry"} :
                LetsIn(page, set, token) /\ ~Outlived(set, token)
  IN /\ request[r].pc = "judged" /\ request[r].kind = "files"
     /\ Answers(r, IF token = NoToken THEN Keep
                   ELSE IF ~kept THEN NoToken
                   ELSE IF Renewed(set, token) = token THEN Keep ELSE Renewed(set, token))
     /\ used' = IF kept THEN [used EXCEPT ![token.login] = clock] ELSE used
     /\ UNCHANGED <<current, reloads, clock, jar, logins>>

(* There the token is neither dropped nor renewed. *)
AsksElsewhere(r) ==
  /\ request[r].pc = "judged" /\ request[r].kind \in {"registry", "header"}
  /\ Answers(r, Keep)
  /\ UNCHANGED <<current, reloads, clock, jar, logins, used>>

(* The answer reaches the browser. *)
Receives(r) ==
  /\ request[r].pc = "answered"
  /\ jar' = request[r].token
  /\ request' = [request EXCEPT ![r] = NoRequest]
  /\ UNCHANGED <<current, reloads, clock, logins, used>>

Reloads(set) ==
  /\ reloads < MaxReloads /\ reloads' = reloads + 1
  /\ current' = set
  /\ UNCHANGED <<clock, jar, request, logins, used>>

TimePasses ==
  /\ clock < MaxTime /\ clock' = clock + 1
  /\ UNCHANGED <<current, reloads, jar, request, logins, used>>

SessionInit ==
  /\ current \in Settings /\ reloads = 0 /\ clock = 0 /\ jar = NoToken
  /\ request = [r \in Slots |-> NoRequest]
  /\ logins = {} /\ used = [t \in 0..MaxTime |-> 0]

SessionNext ==
  \/ \E r \in Slots :
       \/ \E kind \in Kinds : ComesIn(r, kind)
       \/ LogsIn(r) \/ LogsOut(r) \/ AsksForFiles(r) \/ AsksElsewhere(r)
       \/ Receives(r)
  \/ \E set \in Settings \ {current} : Reloads(set)
  \/ TimePasses

SessionSpec == SessionInit /\ [][SessionNext]_sessionVars

(* Whoever is let in for a session once logged in with the password the    *)
(* account has by the settings of the request; not longer ago than they    *)
(* allow, but for the registry page and beside a header, where any cap     *)
(* there was counts; and used the session within an idle window there was. *)
SessionsEnd ==
  \A r \in Slots :
    LET set == request[r].set
        caps == {Cap(s) : s \in IF request[r].kind = "files" THEN {set} ELSE Settings}
    IN request[r].pc = "judged" /\ LetsIn(request[r].kind, set, request[r].token) =>
         \E login \in logins :
           /\ login[2] = set.password
           /\ \E cap \in caps : clock <= login[1] + cap + Leeway
           /\ \E s \in Settings : clock < used[login[1]] + s.idle + Leeway
=============================================================================
