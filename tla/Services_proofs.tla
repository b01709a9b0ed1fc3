---------------------------- MODULE Services_proofs ----------------------------
(***************************************************************************)
(* Proofs about what works beside the requests: the session of a browser,  *)
(* the transfers, a sync, the lock of addresses and a repository, for any  *)
(* settings, requests, jobs, limits, addresses, trees of files and         *)
(* packages.                                                               *)
(***************************************************************************)
EXTENDS MCServices, FiniteSetTheorems, TLAPS

-----------------------------------------------------------------------------
(***************************************************************************)
(* Sessions.                                                               *)
(***************************************************************************)
Passwords == {set.password : set \in Settings} \union {Nobody}
Tokens == [login : 0 .. MaxTime, expires : Nat, password : Passwords]

RequestTypes ==
  request \in [Slots -> [pc : {"free", "judged", "answered"}, kind : Browser!Kinds,
                         set : Settings, token : Tokens]]

SessionTypes ==
  /\ current \in Settings
  /\ clock \in 0 .. MaxTime
  /\ jar \in Tokens
  /\ RequestTypes
  /\ used \in [0 .. MaxTime -> 0 .. MaxTime]

(* A token is of a login there was, expires within a cap there was of it,   *)
(* and within an idle window there was of when its session was last used.   *)
OfALogin(token) ==
  token # Browser!NoToken =>
    /\ <<token.login, token.password>> \in logins
    /\ \E set \in Settings : token.expires <= token.login + Browser!Cap(set)
    /\ \E set \in Settings : token.expires <= used[token.login] + set.idle

(* The server keeps nothing of the tokens it minted, so that what they      *)
(* carry has to hold of every one of them, wherever it is: in the browser,  *)
(* on its way there, or in a request that was sent with it before.          *)
TokensAreOfLogins ==
  /\ OfALogin(jar)
  /\ \A r \in Slots : OfALogin(request[r].token)

(* Nothing was used later than now: the clock does not go back.             *)
NotInTheFuture == \A t \in 0 .. MaxTime : used[t] <= clock

SessionInv == SessionTypes /\ TokensAreOfLogins /\ NotInTheFuture

LEMMA CapType == \A set \in Settings : Browser!Cap(set) \in Nat /\ set.idle \in Nat
  BY ServicesAssumption DEF Browser!Cap

LEMMA MintFacts ==
  ASSUME SessionTypes, NEW set \in Settings, NEW at \in 0 .. MaxTime
  PROVE  LET token == Browser!Mint(set, at) IN
         /\ token \in Tokens
         /\ token.login = at /\ token.password = set.password
         /\ token.expires <= clock + set.idle
         /\ token.expires <= at + Browser!Cap(set)
<1>1. Browser!Cap(set) \in Nat /\ set.idle \in Nat /\ clock \in Nat /\ at \in Nat
  BY CapType, ServicesAssumption DEF SessionTypes
<1>2. PICK e : e = Browser!Least(clock + set.idle, at + Browser!Cap(set))
  OBVIOUS
<1>3. e \in Nat /\ e <= clock + set.idle /\ e <= at + Browser!Cap(set)
  BY <1>1, <1>2 DEF Browser!Least
<1>4. Browser!Mint(set, at) = [login |-> at, expires |-> e, password |-> set.password]
  BY <1>2 DEF Browser!Mint, Browser!Token
<1> QED BY <1>3, <1>4 DEF Tokens, Passwords

LEMMA NoTokenType == Browser!NoToken \in Tokens /\ Browser!Keep \in Tokens
  BY ServicesAssumption DEF Browser!NoToken, Browser!Keep, Browser!Token, Tokens, Passwords

LEMMA NoRequestFacts ==
  /\ Browser!NoRequest.set \in Settings /\ Browser!NoRequest.token = Browser!NoToken
  /\ Browser!NoRequest.kind = "form" /\ Browser!NoRequest.pc = "free"
  /\ Browser!NoRequest \in [pc : {"free", "judged", "answered"}, kind : Browser!Kinds,
                            set : Settings, token : Tokens]
  BY ServicesAssumption, NoTokenType DEF Browser!NoRequest, Browser!Kinds

LEMMA SessionStarts == Browser!SessionInit => SessionInv
  BY ServicesAssumption, NoTokenType, NoRequestFacts
  DEF Browser!SessionInit, SessionInv, SessionTypes, RequestTypes, TokensAreOfLogins, OfALogin, NotInTheFuture

(* An answer to one request: with a token, or leaving the browser its own.  *)
LEMMA AnswerFacts ==
  ASSUME SessionInv, NEW r \in Slots, NEW answer \in Tokens, Browser!Answers(r, answer)
  PROVE  /\ RequestTypes'
         /\ request'[r].token \in ({answer} \ {Browser!Keep}) \union {Browser!NoToken}
         /\ \A was \in Slots \ {r} : request'[was] = request[was]
<1> DEFINE new == IF answer = Browser!Keep THEN Browser!NoRequest
                  ELSE [Browser!NoRequest EXCEPT !.pc = "answered", !.token = answer]
<1>1. request' = [request EXCEPT ![r] = new]
  BY DEF Browser!Answers
<1>2. /\ new \in [pc : {"free", "judged", "answered"}, kind : Browser!Kinds, set : Settings, token : Tokens]
      /\ new.token \in ({answer} \ {Browser!Keep}) \union {Browser!NoToken}
  BY NoRequestFacts
<1> HIDE DEF new
<1> QED BY <1>1, <1>2 DEF SessionInv, SessionTypes, RequestTypes

(* Logins are kept, and a session is used later and later.                  *)
LEMMA StaysOfALogin ==
  ASSUME SessionTypes, NEW token \in Tokens, OfALogin(token),
         logins \subseteq logins', used' \in [0 .. MaxTime -> 0 .. MaxTime],
         \A t \in 0 .. MaxTime : used[t] <= used'[t]
  PROVE  OfALogin(token)'
<1> SUFFICES ASSUME token # Browser!NoToken
             PROVE  /\ <<token.login, token.password>> \in logins'
                    /\ \E set \in Settings : token.expires <= token.login + Browser!Cap(set)
                    /\ \E set \in Settings : token.expires <= used'[token.login] + set.idle
  BY DEF OfALogin
<1>1. PICK set \in Settings : token.expires <= used[token.login] + set.idle
  BY DEF OfALogin
<1>2. /\ token.login \in 0 .. MaxTime /\ token.expires \in Nat /\ set.idle \in Nat
      /\ used[token.login] \in Nat /\ used'[token.login] \in Nat
      /\ used[token.login] <= used'[token.login]
  BY CapType, ServicesAssumption DEF Tokens, SessionTypes
<1> QED BY <1>1, <1>2 DEF OfALogin
(* A token that is let in is of a login of the account, and its session was *)
(* used: what a renewal starts from.                                        *)
LEMMA LetInFacts ==
  ASSUME SessionInv, NEW r \in Slots, NEW page, NEW set \in Settings,
         Browser!LetsIn(page, set, request[r].token)
  PROVE  LET token == request[r].token IN
         /\ token # Browser!NoToken /\ OfALogin(token)
         /\ token.password = set.password
         /\ clock < token.expires + Leeway
  BY DEF SessionInv, TokensAreOfLogins, Browser!LetsIn, Browser!Reads, Browser!IssuedFor

(* An answer puts a token on its way that is none, or is of a login.        *)
LEMMA AnswerKeeps ==
  ASSUME SessionInv, NEW r \in Slots, NEW answer \in Tokens, Browser!Answers(r, answer),
         UNCHANGED <<current, clock, jar>>, answer = Browser!Keep \/ OfALogin(answer)',
         logins \subseteq logins', used' \in [0 .. MaxTime -> 0 .. MaxTime],
         \A t \in 0 .. MaxTime : used[t] <= used'[t] /\ used'[t] <= clock
  PROVE  SessionInv'
<1>1. /\ RequestTypes'
      /\ request'[r].token \in ({answer} \ {Browser!Keep}) \union {Browser!NoToken}
  BY AnswerFacts
<1>2. \A was \in Slots \ {r} : request'[was] = request[was]
  BY AnswerFacts
<1>3. SessionTypes /\ SessionTypes'
  BY <1>1 DEF SessionInv, SessionTypes
<1>4. OfALogin(jar)'
  <2>1. PICK token : token = jar
    OBVIOUS
  <2>2. token \in Tokens /\ OfALogin(token)
    BY <2>1 DEF SessionInv, SessionTypes, TokensAreOfLogins
  <2>3. OfALogin(token)'
    BY <1>3, <2>2, StaysOfALogin
  <2>4. token = jar'
    BY <2>1
  <2> QED BY <2>3, <2>4 DEF OfALogin
<1>5. ASSUME NEW was \in Slots PROVE OfALogin(request[was].token)'
  <2>1. CASE was = r
    BY <1>1, <2>1 DEF OfALogin
  <2>2. CASE was # r
    <3>1. PICK token : token = request[was].token
      OBVIOUS
    <3>2. token \in Tokens /\ OfALogin(token)
      BY <3>1 DEF SessionInv, SessionTypes, RequestTypes, TokensAreOfLogins
    <3>3. OfALogin(token)'
      BY <1>3, <3>2, StaysOfALogin
    <3>4. token = request'[was].token
      BY <1>2, <2>2, <3>1
    <3> QED BY <3>3, <3>4 DEF OfALogin
  <2> QED BY <2>1, <2>2
<1> QED BY <1>3, <1>4, <1>5 DEF SessionInv, TokensAreOfLogins, NotInTheFuture

(* A use is now, and so no earlier than any before.                         *)
LEMMA UseFacts ==
  ASSUME SessionTypes, NotInTheFuture, NEW t \in 0 .. MaxTime, used' = [used EXCEPT ![t] = clock]
  PROVE  /\ used' \in [0 .. MaxTime -> 0 .. MaxTime] /\ used'[t] = clock
         /\ \A s \in 0 .. MaxTime : used[s] <= used'[s] /\ used'[s] <= clock
<1>1. MaxTime \in Nat
  BY ServicesAssumption
<1>2. clock \in 0 .. MaxTime /\ used \in [0 .. MaxTime -> 0 .. MaxTime]
  BY DEF SessionTypes
<1>3. used' \in [0 .. MaxTime -> 0 .. MaxTime] /\ used'[t] = clock
  BY <1>2
<1>4. ASSUME NEW s \in 0 .. MaxTime PROVE used[s] <= used'[s] /\ used'[s] <= clock
  <2>1. used[s] \in 0 .. MaxTime /\ used[s] <= clock
    BY <1>2 DEF NotInTheFuture
  <2>2. used'[s] = IF s = t THEN clock ELSE used[s]
    BY <1>2
  <2> QED BY <1>1, <1>2, <2>1, <2>2
<1> QED BY <1>3, <1>4

LEMMA LoginStep ==
  ASSUME SessionInv, NEW r \in Slots, Browser!LogsIn(r)
  PROVE  SessionInv'
<1>1. PICK set, t : set = request[r].set /\ t = clock
  OBVIOUS
<1>2. set \in Settings /\ t \in 0 .. MaxTime /\ SessionTypes /\ NotInTheFuture
  BY <1>1 DEF SessionInv, SessionTypes, RequestTypes
<1>3. PICK answer : answer = Browser!Mint(set, t)
  OBVIOUS
<1>4. /\ answer \in Tokens /\ answer.login = t /\ answer.password = set.password
      /\ answer.expires <= t + set.idle /\ answer.expires <= t + Browser!Cap(set)
  BY <1>1, <1>2, <1>3, MintFacts
<1>5. /\ Browser!Answers(r, answer) /\ UNCHANGED <<current, clock, jar>>
      /\ logins' = logins \union {<<t, set.password>>}
      /\ used' = [used EXCEPT ![t] = clock]
  BY <1>1, <1>3 DEF Browser!LogsIn
<1>6. /\ used' \in [0 .. MaxTime -> 0 .. MaxTime] /\ used'[t] = t
      /\ \A s \in 0 .. MaxTime : used[s] <= used'[s] /\ used'[s] <= clock
  BY <1>1, <1>2, <1>5, UseFacts
<1>7. OfALogin(answer)'
  BY <1>2, <1>4, <1>5, <1>6 DEF OfALogin
<1> QED BY <1>4, <1>5, <1>6, <1>7, AnswerKeeps

(* A renewal is of the same login, and of now.                              *)
LEMMA FilesStep ==
  ASSUME SessionInv, NEW r \in Slots, Browser!AsksForFiles(r)
  PROVE  SessionInv'
<1>1. PICK set, token, t : set = request[r].set /\ token = request[r].token /\ t = clock
  OBVIOUS
<1>2. /\ set \in Settings /\ token \in Tokens /\ t \in 0 .. MaxTime
      /\ SessionTypes /\ NotInTheFuture /\ OfALogin(token)
  BY <1>1 DEF SessionInv, SessionTypes, RequestTypes, TokensAreOfLogins
<1>3. PICK kept \in BOOLEAN :
        kept = (\E page \in {"files", "registry"} :
                  Browser!LetsIn(page, set, token) /\ ~Browser!Outlived(set, token))
  OBVIOUS
<1>4. /\ UNCHANGED <<current, clock, jar, logins>>
      /\ used' = IF kept THEN [used EXCEPT ![token.login] = clock] ELSE used
  BY <1>1, <1>3 DEF Browser!AsksForFiles
<1>5. PICK answer :
        answer = IF token = Browser!NoToken THEN Browser!Keep
                 ELSE IF ~kept THEN Browser!NoToken
                 ELSE IF Browser!Renewed(set, token) = token THEN Browser!Keep
                 ELSE Browser!Renewed(set, token)
  OBVIOUS
<1>6. Browser!Answers(r, answer)
  BY <1>1, <1>3, <1>5 DEF Browser!AsksForFiles
<1>7. token.login \in 0 .. MaxTime
  BY <1>2 DEF Tokens
<1>8. /\ used' \in [0 .. MaxTime -> 0 .. MaxTime]
      /\ \A s \in 0 .. MaxTime : used[s] <= used'[s] /\ used'[s] <= clock
      /\ kept => used'[token.login] = t
  <2>1. CASE kept
    BY <1>1, <1>2, <1>4, <1>7, <2>1, UseFacts
  <2>2. CASE ~kept
    <3>1. used' = used
      BY <1>4, <2>2
    <3>2. used \in [0 .. MaxTime -> 0 .. MaxTime] /\ \A s \in 0 .. MaxTime : used[s] <= clock
      BY <1>2 DEF SessionTypes, NotInTheFuture
    <3>3. \A s \in 0 .. MaxTime : used[s] <= used[s]
      BY <3>2, ServicesAssumption
    <3> QED BY <2>2, <3>1, <3>2, <3>3
  <2> QED BY <2>1, <2>2
<1>9. CASE token = Browser!NoToken \/ ~kept \/ Browser!Renewed(set, token) = token
  <2>1. answer \in {Browser!Keep, Browser!NoToken}
    BY <1>5, <1>9
  <2>2. answer \in Tokens /\ (answer = Browser!Keep \/ OfALogin(answer)')
    BY <2>1, NoTokenType DEF OfALogin
  <2> QED BY <1>4, <1>6, <1>8, <2>2, AnswerKeeps
<1>10. CASE token # Browser!NoToken /\ kept /\ Browser!Renewed(set, token) # token
  <2>1. answer = Browser!Mint(set, token.login)
    BY <1>5, <1>10 DEF Browser!Renewed
  <2>2. /\ answer \in Tokens /\ answer.login = token.login /\ answer.password = set.password
        /\ answer.expires <= clock + set.idle /\ answer.expires <= token.login + Browser!Cap(set)
    BY <1>2, <1>7, <2>1, MintFacts
  <2>3. token.password = set.password
    BY <1>3, <1>10 DEF Browser!LetsIn, Browser!IssuedFor
  <2>4. <<token.login, token.password>> \in logins
    BY <1>2, <1>10 DEF OfALogin
  <2>5. /\ answer.expires <= used'[answer.login] + set.idle
        /\ <<answer.login, answer.password>> \in logins'
    BY <1>1, <1>4, <1>8, <1>10, <2>2, <2>3, <2>4
  <2>6. OfALogin(answer)'
    BY <1>2, <2>2, <2>5 DEF OfALogin
  <2> QED BY <1>4, <1>6, <1>8, <2>2, <2>6, AnswerKeeps
<1> QED BY <1>9, <1>10

LEMMA ComesStep ==
  ASSUME SessionInv, NEW r \in Slots, NEW sort \in Browser!Kinds, Browser!ComesIn(r, sort)
  PROVE  SessionInv'
<1>1. /\ request' = [request EXCEPT ![r] = [Browser!NoRequest EXCEPT !.pc = "judged", !.kind = sort,
                                                                      !.token = jar, !.set = current]]
      /\ UNCHANGED <<current, clock, jar, logins, used>>
  BY DEF Browser!ComesIn
<1>2. SessionTypes' /\ NotInTheFuture'
  BY <1>1, NoRequestFacts DEF SessionInv, SessionTypes, RequestTypes, NotInTheFuture
<1>3. \A was \in Slots : request'[was].token \in {jar, request[was].token}
  BY <1>1, NoRequestFacts DEF SessionInv, SessionTypes, RequestTypes
<1>4. \A was \in Slots : OfALogin(request[was].token)'
  BY <1>1, <1>3 DEF SessionInv, TokensAreOfLogins, OfALogin
<1>5. OfALogin(jar)'
  BY <1>1 DEF SessionInv, TokensAreOfLogins, OfALogin
<1> QED BY <1>2, <1>4, <1>5 DEF SessionInv, TokensAreOfLogins

LEMMA SessionStep == SessionInv /\ [Browser!SessionNext]_(Browser!sessionVars) => SessionInv'
<1> SUFFICES ASSUME SessionInv, [Browser!SessionNext]_(Browser!sessionVars) PROVE SessionInv'
  OBVIOUS
<1> USE DEF SessionInv
<1>1. ASSUME NEW r \in Slots,
             Browser!LogsOut(r) \/ Browser!AsksElsewhere(r)
      PROVE  SessionInv'
  <2>1. PICK answer \in {Browser!Keep, Browser!NoToken} : Browser!Answers(r, answer)
    BY <1>1 DEF Browser!LogsOut, Browser!AsksElsewhere
  <2>2. answer \in Tokens /\ (answer = Browser!Keep \/ OfALogin(answer)')
    BY <2>1, NoTokenType DEF OfALogin
  <2>3. UNCHANGED <<current, clock, jar, logins, used>>
    BY <1>1 DEF Browser!LogsOut, Browser!AsksElsewhere
  <2>4. used' \in [0 .. MaxTime -> 0 .. MaxTime]
        /\ \A t \in 0 .. MaxTime : used[t] <= used'[t] /\ used'[t] <= clock
    BY <2>3, ServicesAssumption DEF SessionTypes, NotInTheFuture
  <2> QED BY <2>1, <2>2, <2>3, <2>4, AnswerKeeps
<1>2. ASSUME NEW r \in Slots, Browser!Receives(r) PROVE SessionInv'
  <2>1. /\ request' = [request EXCEPT ![r] = Browser!NoRequest] /\ jar' = request[r].token
        /\ UNCHANGED <<current, clock, logins, used>>
    BY <1>2 DEF Browser!Receives
  <2>2. SessionTypes' /\ NotInTheFuture'
    BY <2>1, NoRequestFacts DEF SessionTypes, RequestTypes, NotInTheFuture
  <2>3. \A was \in Slots : request'[was].token \in {Browser!NoToken, request[was].token}
    BY <2>1, NoRequestFacts DEF SessionTypes, RequestTypes
  <2>4. \A was \in Slots : OfALogin(request[was].token)'
    BY <2>1, <2>3 DEF TokensAreOfLogins, OfALogin
  <2>5. OfALogin(jar)'
    BY <2>1 DEF TokensAreOfLogins, OfALogin
  <2> QED BY <2>2, <2>4, <2>5 DEF TokensAreOfLogins
<1>3. CASE Browser!TimePasses \/ \E set \in Settings : Browser!Reloads(set)
  <2>1. /\ UNCHANGED <<jar, request, logins, used>>
        /\ current' \in Settings /\ clock' \in {clock, clock + 1} /\ clock' <= MaxTime
    BY <1>3, ServicesAssumption DEF SessionTypes, Browser!TimePasses, Browser!Reloads
  <2>2. SessionTypes'
    BY <2>1, ServicesAssumption DEF SessionTypes, RequestTypes
  <2>3. NotInTheFuture'
    <3>1. MaxTime \in Nat /\ clock \in 0 .. MaxTime /\ used \in [0 .. MaxTime -> 0 .. MaxTime]
      BY ServicesAssumption DEF SessionTypes
    <3>2. \A t \in 0 .. MaxTime : used[t] \in 0 .. MaxTime /\ used[t] <= clock
      BY <3>1 DEF NotInTheFuture
    <3>3. \A t \in 0 .. MaxTime : used[t] <= clock'
      BY <2>1, <3>1, <3>2
    <3> QED BY <2>1, <3>3 DEF NotInTheFuture
  <2>4. TokensAreOfLogins'
    BY <2>1 DEF TokensAreOfLogins, OfALogin
  <2> QED BY <2>2, <2>3, <2>4
<1>4. CASE UNCHANGED Browser!sessionVars
  BY <1>4 DEF Browser!sessionVars, SessionTypes, RequestTypes, TokensAreOfLogins, OfALogin, NotInTheFuture
<1> HIDE DEF SessionInv
<1> QED BY <1>1, <1>2, <1>3, <1>4, LoginStep, FilesStep, ComesStep DEF Browser!SessionNext

(* Nobody is let in for a session of a login that was not, was with another *)
(* password, or is too long ago: whatever requests overlap, in whatever     *)
(* order their answers reach the browser, however the settings change       *)
(* (httpd/token.go, session.go).                                            *)
THEOREM SessionsDoEnd == Browser!SessionSpec => []SessionsEnd
<1>1. SessionInv => SessionsEnd
  <2> SUFFICES ASSUME SessionInv, NEW r \in Slots, request[r].pc = "judged",
                      Browser!LetsIn(request[r].kind, request[r].set, request[r].token)
               PROVE  \E l \in logins :
                        /\ l[2] = request[r].set.password
                        /\ \E cap \in {Browser!Cap(s) : s \in IF request[r].kind = "files" THEN {request[r].set}
                                                             ELSE Settings} :
                             clock <= l[1] + cap + Leeway
                        /\ \E s \in Settings : clock < used[l[1]] + s.idle + Leeway
    BY DEF SessionsEnd, Browser!SessionsEnd
  <2>1. PICK set, token, sort : set = request[r].set /\ token = request[r].token /\ sort = request[r].kind
    OBVIOUS
  <2>2. set \in Settings /\ token \in Tokens /\ SessionTypes
    BY <2>1 DEF SessionInv, SessionTypes, RequestTypes
  <2>3. /\ token # Browser!NoToken /\ OfALogin(token) /\ token.password = set.password
        /\ clock < token.expires + Leeway
    BY <2>1, <2>2, LetInFacts
  <2>4. PICK l : l = <<token.login, token.password>>
    OBVIOUS
  <2>5. l \in logins /\ l[1] = token.login /\ l[2] = set.password
    BY <2>3, <2>4 DEF OfALogin
  <2>6. token.login \in Nat /\ token.expires \in Nat /\ used[token.login] \in Nat /\ clock \in Nat /\ Leeway \in Nat
    BY <2>2, ServicesAssumption DEF Tokens, SessionTypes
  <2>7. \E s \in Settings : clock < used[token.login] + s.idle + Leeway
    BY <2>3, <2>6, CapType DEF OfALogin
  <2>8. \E cap \in {Browser!Cap(s) : s \in IF sort = "files" THEN {set} ELSE Settings} :
          clock <= token.login + cap + Leeway
    <3>1. CASE sort = "files"
      <4>1. ~Browser!Outlived(set, token)
        BY <2>1, <3>1 DEF Browser!LetsIn
      <4> QED BY <2>2, <2>6, <3>1, <4>1, CapType DEF Browser!Outlived
    <3>2. CASE sort # "files"
      BY <2>3, <2>6, <3>2, CapType DEF OfALogin
    <3> QED BY <3>1, <3>2
  <2> QED BY <2>1, <2>5, <2>7, <2>8
<1> QED BY <1>1, SessionStarts, SessionStep, PTL DEF Browser!SessionSpec
-----------------------------------------------------------------------------
(***************************************************************************)
(* Transfers.                                                              *)
(***************************************************************************)
JobStates == {"none", "running", "ready", "done", "failed", "cancelled"}
JobPlaces == {"nowhere", "opens", "reads", "waits", "stores", "over"}
MayChoose == Selections \union {Unmade}

JobRecords ==
  [kind : Transfers!Kinds, state : JobStates, at : JobPlaces, stopped : BOOLEAN,
   accepted : MayChoose, channel : MayChoose, chosen : MayChoose, kept : MayChoose,
   whole : BOOLEAN, source : BOOLEAN, staged : BOOLEAN, early : BOOLEAN]

JobTypes ==
  /\ job \in [Jobs -> JobRecords]
  /\ uploads \subseteq Jobs
  /\ server \in {"up", "closing", "closed"}

(* Where a job is says whether it runs, what it may have staged, and what   *)
(* may have become of a choice: it is offered once, and what waits in the   *)
(* channel, was taken or was stored is what was accepted.                   *)
JobOK(j) ==
  LET was == job[j] IN
  /\ was.at \in {"opens", "reads", "waits", "stores"} <=> was.state \in {"running", "ready"}
  /\ was.state = "ready" => was.at = "waits"
  /\ was.channel # Unmade => was.at \in {"waits", "over"} /\ was.state # "ready"
  /\ was.at \in {"waits", "stores"} => was.kind = "import"
  /\ was.staged => was.at \in {"reads", "waits", "stores"}
  /\ was.state = "done" <=> was.whole
  /\ was.kind = "import" => {was.channel, was.chosen, was.kept} \subseteq {Unmade, was.accepted}
  /\ was.at = "stores" => was.chosen # Unmade
  /\ was.at = "over" => j \notin uploads
  /\ server = "closed" /\ was.early => was.state \notin {"running", "ready"}

JobInv == JobTypes /\ \A j \in Jobs : JobOK(j)

Within(sort) == Cardinality(Transfers!RunningOf(sort)) <= Limit[sort]

LEMMA JobsStart == Transfers!JobInit => JobInv /\ \A sort \in Transfers!Kinds : Within(sort)
<1> SUFFICES ASSUME Transfers!JobInit PROVE JobInv /\ \A sort \in Transfers!Kinds : Within(sort)
  OBVIOUS
<1>1. JobInv
  BY DEF Transfers!JobInit, Transfers!NoJob, Transfers!Kinds, JobInv, JobTypes, JobOK, JobRecords,
     JobStates, JobPlaces, MayChoose
<1>2. ASSUME NEW sort \in Transfers!Kinds PROVE Within(sort)
  <2>1. Transfers!RunningOf(sort) = {}
    BY DEF Transfers!JobInit, Transfers!NoJob, Transfers!RunningOf, Transfers!Running
  <2> QED BY <2>1, FS_EmptySet, ServicesAssumption DEF Within
<1> QED BY <1>1, <1>2

(* A step of one job, to a record that is as it should be.                  *)
LEMMA OneJob ==
  ASSUME JobInv, NEW j \in Jobs, NEW new \in JobRecords, job' = [job EXCEPT ![j] = new],
         UNCHANGED server, uploads' \subseteq Jobs, uploads' \ {j} \subseteq uploads, JobOK(j)'
  PROVE  JobInv'
<1>1. JobTypes' /\ \A i \in Jobs \ {j} : job'[i] = job[i]
  BY DEF JobInv, JobTypes
<1>2. ASSUME NEW i \in Jobs \ {j} PROVE JobOK(i)'
  <2>1. job'[i] = job[i] /\ server' = server /\ (i \in uploads' => i \in uploads)
    BY <1>1
  <2>2. JobOK(i)
    BY DEF JobInv
  <2> QED BY <2>1, <2>2 DEF JobOK
<1> QED BY <1>1, <1>2 DEF JobInv

(* The steps of a job on its way, and what it leaves by.                    *)
LEMMA LeavesOK ==
  ASSUME JobInv, NEW j \in Jobs, NEW done \in BOOLEAN, NEW record \in JobRecords,
         Transfers!Leaves(j, done, record), record.whole = done, record.kind = job[j].kind,
         record.kind = "import" => {record.channel, record.chosen, record.kept} \subseteq {Unmade, record.accepted}
  PROVE  JobInv'
<1>1. PICK o : o = Transfers!Outcome(j, done)
  OBVIOUS
<1>2. o \in {"done", "failed", "cancelled"} /\ (o = "done" <=> done)
  BY <1>1 DEF Transfers!Outcome
<1>3. PICK new : new = [record EXCEPT !.state = o, !.at = "over", !.staged = FALSE]
  OBVIOUS
<1>4. /\ job' = [job EXCEPT ![j] = new] /\ uploads' = uploads \ {j} /\ UNCHANGED server
  BY <1>1, <1>3 DEF Transfers!Leaves
<1>5. new \in JobRecords
  BY <1>2, <1>3 DEF JobRecords, JobStates, JobPlaces
<1>6. job'[j] = new
  BY <1>4 DEF JobInv, JobTypes
<1>7. JobOK(j)'
  <2>1. /\ new.at = "over" /\ new.state = o /\ ~new.staged /\ new.whole = done /\ new.kind = record.kind
        /\ {new.channel, new.chosen, new.kept} = {record.channel, record.chosen, record.kept}
        /\ new.accepted = record.accepted
    BY <1>3 DEF JobRecords
  <2> QED BY <1>2, <1>4, <1>6, <2>1 DEF JobOK
<1> QED BY <1>4, <1>5, <1>7, OneJob DEF JobInv, JobTypes
(* What a job may become without leaving.                                   *)
LEMMA GoesOnOK ==
  ASSUME JobInv, NEW j \in Jobs,
         \/ \E sort \in Transfers!Kinds : Transfers!Starts(j, sort)
         \/ \E choice \in Selections : Transfers!Chooses(j, choice)
         \/ Transfers!Stages(j) \/ Transfers!Offers(j) \/ Transfers!Takes(j) \/ Transfers!FindsNoFolder(j)
         \/ Transfers!Dismisses(j) \/ Transfers!HearsOfIt(j)
  PROVE  JobInv'
<1>1. PICK was : was = job[j]
  OBVIOUS
<1>2. was \in JobRecords /\ JobOK(j) /\ JobTypes
  BY <1>1 DEF JobInv, JobTypes
<1> USE DEF JobRecords, JobStates, JobPlaces, MayChoose
<1>3. ASSUME NEW new \in JobRecords, job' = [job EXCEPT ![j] = new], UNCHANGED server,
             uploads' \subseteq Jobs, uploads' \ {j} \subseteq uploads,
             /\ new.at \in {"opens", "reads", "waits", "stores"} <=> new.state \in {"running", "ready"}
             /\ new.state = "ready" => new.at = "waits"
             /\ new.channel # Unmade => new.at \in {"waits", "over"} /\ new.state # "ready"
             /\ new.at \in {"waits", "stores"} => new.kind = "import"
             /\ new.staged => new.at \in {"reads", "waits", "stores"}
             /\ new.state = "done" <=> new.whole
             /\ new.kind = "import" => {new.channel, new.chosen, new.kept} \subseteq {Unmade, new.accepted}
             /\ new.at = "stores" => new.chosen # Unmade
             /\ new.at = "over" => j \notin uploads'
             /\ server = "closed" /\ new.early => new.state \notin {"running", "ready"}
      PROVE  JobInv'
  <2>1. job'[j] = new
    BY <1>2, <1>3 DEF JobTypes
  <2>2. JobOK(j)'
    BY <1>3, <2>1 DEF JobOK
  <2> QED BY <1>3, <2>2, OneJob
<1>4. ASSUME NEW sort \in Transfers!Kinds, Transfers!Starts(j, sort) PROVE JobInv'
  <2>1. PICK source \in BOOLEAN :
          /\ job' = [job EXCEPT ![j] = [Transfers!NoJob EXCEPT !.kind = sort, !.state = "running",
                       !.at = "opens", !.source = source, !.early = (server = "up")]]
          /\ uploads' = IF source THEN uploads \union {j} ELSE uploads
    BY <1>4 DEF Transfers!Starts
  <2>2. PICK new : new = [Transfers!NoJob EXCEPT !.kind = sort, !.state = "running",
                            !.at = "opens", !.source = source, !.early = (server = "up")]
    OBVIOUS
  <2>3. new = [kind |-> sort, state |-> "running", at |-> "opens", stopped |-> FALSE,
               accepted |-> Unmade, channel |-> Unmade, chosen |-> Unmade, kept |-> Unmade,
               whole |-> FALSE, source |-> source, staged |-> FALSE, early |-> (server = "up")]
    BY <2>2 DEF Transfers!NoJob
  <2>4. uploads' \subseteq Jobs /\ uploads' \ {j} \subseteq uploads /\ UNCHANGED server
    BY <1>2, <1>4, <2>1 DEF JobTypes, Transfers!Starts
  <2>5. job' = [job EXCEPT ![j] = new]
    BY <2>1, <2>2
  <2>6. new \in JobRecords
    BY <2>3 DEF Transfers!Kinds
  <2> QED BY <1>3, <2>3, <2>4, <2>5, <2>6
<1>5. ASSUME NEW choice \in Selections, Transfers!Chooses(j, choice) PROVE JobInv'
  <2>1. PICK new : new = [was EXCEPT !.state = "running", !.channel = choice, !.accepted = choice]
    OBVIOUS
  <2>2. /\ job' = [job EXCEPT ![j] = new] /\ UNCHANGED <<uploads, server>>
        /\ was.state = "ready" /\ was.accepted = Unmade
    BY <1>1, <1>5, <2>1 DEF Transfers!Chooses
  <2>3. new \in JobRecords
    BY <1>2, <2>1
  <2>4. /\ new.at = "waits" /\ new.state = "running" /\ new.kind = "import" /\ ~new.whole
        /\ {new.channel, new.chosen, new.kept} \subseteq {Unmade, new.accepted}
        /\ new.early = was.early /\ ~(server = "closed" /\ was.early)
    BY <1>1, <1>2, <2>1, <2>2 DEF JobOK
  <2> QED BY <1>2, <1>3, <2>2, <2>3, <2>4 DEF JobTypes
<1>6. CASE Transfers!Stages(j)
  <2>1. PICK new : new = [was EXCEPT !.at = "reads", !.staged = TRUE]
    OBVIOUS
  <2>2. job' = [job EXCEPT ![j] = new] /\ UNCHANGED <<uploads, server>> /\ was.at = "opens"
    BY <1>1, <1>6, <2>1 DEF Transfers!Stages
  <2>3. new \in JobRecords
    BY <1>2, <2>1
  <2> QED BY <1>1, <1>2, <1>3, <2>1, <2>2, <2>3, ZenonT(40) DEF JobOK, JobTypes
<1>7. CASE Transfers!Offers(j)
  <2>1. PICK new : new = [was EXCEPT !.at = "waits", !.state = "ready"]
    OBVIOUS
  <2>2. /\ job' = [job EXCEPT ![j] = new] /\ uploads' = uploads \ {j} /\ UNCHANGED server
        /\ was.at = "reads" /\ was.kind = "import"
    BY <1>1, <1>7, <2>1 DEF Transfers!Offers
  <2>3. new \in JobRecords
    BY <1>2, <2>1
  <2>4. /\ new.at = "waits" /\ new.state = "ready" /\ new.kind = was.kind /\ new.whole = was.whole
        /\ new.chosen = was.chosen /\ new.channel = was.channel /\ new.kept = was.kept
        /\ new.accepted = was.accepted /\ new.early = was.early /\ new.staged = was.staged
    BY <1>2, <2>1
  <2>5. /\ ~was.whole /\ was.channel = Unmade /\ ~(server = "closed" /\ was.early)
        /\ {was.channel, was.chosen, was.kept} \subseteq {Unmade, was.accepted}
    BY <1>1, <1>2, <2>2 DEF JobOK
  <2>6. {new.channel, new.chosen, new.kept} \subseteq {Unmade, new.accepted}
    BY <2>4, <2>5
  <2>7. job'[j] = new /\ server' = server /\ uploads' \subseteq Jobs /\ uploads' \ {j} \subseteq uploads
    BY <1>2, <2>2 DEF JobTypes
  <2>8. JobOK(j)'
    BY <2>2, <2>4, <2>5, <2>6, <2>7 DEF JobOK
  <2> QED BY <2>2, <2>3, <2>7, <2>8, OneJob
<1>8. CASE Transfers!Takes(j)
  <2>1. PICK new : new = [was EXCEPT !.at = "stores", !.chosen = was.channel, !.channel = Unmade]
    OBVIOUS
  <2>2. /\ job' = [job EXCEPT ![j] = new] /\ UNCHANGED <<uploads, server>>
        /\ was.at = "waits" /\ was.channel # Unmade
    BY <1>1, <1>8, <2>1 DEF Transfers!Takes
  <2>3. new \in JobRecords
    BY <1>2, <2>1
  <2>4. /\ new.at = "stores" /\ new.state = was.state /\ new.kind = was.kind /\ new.whole = was.whole
        /\ new.chosen = was.channel /\ new.channel = Unmade /\ new.kept = was.kept
        /\ new.accepted = was.accepted /\ new.early = was.early /\ new.staged = was.staged
    BY <1>2, <2>1
  <2>5. was.state = "running"
    BY <1>1, <1>2, <2>2 DEF JobOK
  <2>6. /\ was.state = "running" /\ was.kind = "import" /\ ~was.whole
        /\ {was.channel, was.chosen, was.kept} \subseteq {Unmade, was.accepted}
        /\ ~(server = "closed" /\ was.early)
    BY <1>1, <1>2, <2>2, <2>5 DEF JobOK
  <2>7. {new.channel, new.chosen, new.kept} \subseteq {Unmade, new.accepted}
    BY <2>4, <2>6
  <2>8. job'[j] = new /\ server' = server /\ uploads' = uploads /\ uploads \subseteq Jobs
    BY <1>2, <2>2 DEF JobTypes
  <2>9. JobOK(j)'
    BY <2>2, <2>4, <2>5, <2>6, <2>7, <2>8 DEF JobOK
  <2> QED BY <2>2, <2>3, <2>8, <2>9, OneJob
<1>9. CASE Transfers!FindsNoFolder(j)
  <2>1. PICK new : new = [was EXCEPT !.state = Transfers!Outcome(j, FALSE), !.at = "nowhere"]
    OBVIOUS
  <2>2. job' = [job EXCEPT ![j] = new] /\ UNCHANGED <<uploads, server>> /\ was.at = "opens"
    BY <1>1, <1>9, <2>1 DEF Transfers!FindsNoFolder
  <2>3. Transfers!Outcome(j, FALSE) \in {"failed", "cancelled"}
    BY DEF Transfers!Outcome
  <2>4. new \in JobRecords
    BY <1>2, <2>1, <2>3
  <2>5. /\ new.at = "nowhere" /\ new.state \in {"failed", "cancelled"} /\ new.kind = was.kind
        /\ new.whole = was.whole /\ new.chosen = was.chosen /\ new.channel = was.channel
        /\ new.kept = was.kept /\ new.accepted = was.accepted /\ new.staged = was.staged
    BY <1>2, <2>1, <2>3
  <2>6. was.state # "done" /\ was.channel = Unmade /\ ~was.staged
    BY <1>1, <1>2, <2>2 DEF JobOK
  <2>7. job'[j] = new /\ uploads' = uploads /\ server' = server /\ uploads \subseteq Jobs
    BY <1>2, <2>2 DEF JobTypes
  <2>8. ~was.whole /\ (was.kind = "import" =>
                         {was.channel, was.chosen, was.kept} \subseteq {Unmade, was.accepted})
    BY <1>1, <1>2, <2>6 DEF JobOK
  <2>9. JobOK(j)'
    BY <2>5, <2>6, <2>7, <2>8 DEF JobOK
  <2> QED BY <1>2, <2>2, <2>4, <2>7, <2>9, OneJob
<1>10. CASE Transfers!Dismisses(j) \/ Transfers!HearsOfIt(j)
  <2>1. PICK new : new = [was EXCEPT !.stopped = TRUE]
    OBVIOUS
  <2>2. job' = [job EXCEPT ![j] = new] /\ UNCHANGED <<uploads, server>>
    BY <1>1, <1>10, <2>1 DEF Transfers!Dismisses, Transfers!HearsOfIt, Transfers!Stop
  <2>3. new \in JobRecords
    BY <1>2, <2>1
  <2>4. /\ new.at = was.at /\ new.state = was.state /\ new.kind = was.kind /\ new.whole = was.whole
        /\ new.chosen = was.chosen /\ new.channel = was.channel /\ new.kept = was.kept
        /\ new.accepted = was.accepted /\ new.early = was.early /\ new.staged = was.staged
    BY <1>2, <2>1
  <2>5. job'[j] = new /\ uploads' = uploads /\ server' = server
    BY <1>2, <2>2 DEF JobTypes
  <2>6. JobOK(j)'
    BY <1>1, <1>2, <2>4, <2>5 DEF JobOK
  <2> QED BY <1>2, <2>2, <2>3, <2>5, <2>6, OneJob DEF JobTypes
<1> QED BY <1>4, <1>5, <1>6, <1>7, <1>8, <1>9, <1>10

LEMMA JobStep == JobInv /\ [Transfers!JobNext]_(Transfers!jobVars) => JobInv'
<1> SUFFICES ASSUME JobInv, [Transfers!JobNext]_(Transfers!jobVars) PROVE JobInv'
  OBVIOUS
<1>1. ASSUME NEW j \in Jobs, Transfers!GivesUp(j) \/ Transfers!Fails(j) PROVE JobInv'
  <2>1. job[j] \in JobRecords /\ JobOK(j) /\ job[j].at \in {"opens", "reads", "waits"}
    BY <1>1 DEF JobInv, JobTypes, Transfers!GivesUp, Transfers!Fails
  <2>2. Transfers!Leaves(j, FALSE, job[j])
    BY <1>1 DEF Transfers!GivesUp, Transfers!Fails
  <2>3. job[j].whole = FALSE
    BY <2>1 DEF JobOK, JobRecords
  <2> QED BY <2>1, <2>2, <2>3, LeavesOK DEF JobOK
<1>2. ASSUME NEW j \in Jobs, Transfers!Stores(j) PROVE JobInv'
  <2>1. PICK what : what = IF job[j].kind = "import" THEN job[j].chosen ELSE CHOOSE x \in Selections : TRUE
    OBVIOUS
  <2>2. PICK record : record = [job[j] EXCEPT !.kept = what, !.whole = TRUE]
    OBVIOUS
  <2>3. job[j] \in JobRecords /\ JobOK(j)
    BY DEF JobInv, JobTypes
  <2>4. Transfers!Leaves(j, TRUE, record)
    BY <1>2, <2>1, <2>2 DEF Transfers!Stores
  <2>5. what \in MayChoose
    BY <2>1, <2>3, ServicesAssumption DEF JobRecords, MayChoose
  <2>6. record \in JobRecords /\ record.whole = TRUE /\ record.kind = job[j].kind
    BY <2>2, <2>3, <2>5 DEF JobRecords
  <2>7. record.kind = "import" => {record.channel, record.chosen, record.kept} \subseteq {Unmade, record.accepted}
    BY <2>1, <2>2, <2>3 DEF JobOK, JobRecords
  <2> QED BY <2>4, <2>6, <2>7, LeavesOK
<1>3. ASSUME NEW j \in Jobs, Transfers!StoresSome(j) PROVE JobInv'
  <2>1. PICK kept \in {Unmade, job[j].chosen} : Transfers!Leaves(j, FALSE, [job[j] EXCEPT !.kept = kept])
    BY <1>3 DEF Transfers!StoresSome
  <2>2. PICK record : record = [job[j] EXCEPT !.kept = kept]
    OBVIOUS
  <2>3. job[j] \in JobRecords /\ JobOK(j) /\ job[j].at = "stores"
    BY <1>3 DEF JobInv, JobTypes, Transfers!StoresSome
  <2>4. record \in JobRecords /\ record.kind = job[j].kind /\ record.whole = FALSE
    BY <2>2, <2>3 DEF JobOK, JobRecords, MayChoose
  <2>5. record.kind = "import" => {record.channel, record.chosen, record.kept} \subseteq {Unmade, record.accepted}
    BY <2>2, <2>3 DEF JobOK, JobRecords
  <2> QED BY <2>1, <2>2, <2>4, <2>5, LeavesOK
<1>4. CASE Transfers!Closes \/ Transfers!Returns
  <2>1. /\ UNCHANGED <<job, uploads>> /\ server' \in {"closing", "closed"}
        /\ server' = "closed" => \A j \in Jobs : job[j].state \notin {"running", "ready"}
    BY <1>4 DEF Transfers!Closes, Transfers!Returns, Transfers!Running
  <2> QED BY <2>1 DEF JobInv, JobTypes, JobOK
<1>5. CASE UNCHANGED Transfers!jobVars
  BY <1>5 DEF Transfers!jobVars, JobInv, JobTypes, JobOK
<1> QED BY <1>1, <1>2, <1>3, <1>4, <1>5, GoesOnOK DEF Transfers!JobNext

(* A job comes to run only by being started.                                *)
NoneComesToRun(sort) ==
  \A j \in Jobs : job'[j].state \in {"running", "ready"} /\ job'[j].kind = sort
                 => job[j].state \in {"running", "ready"} /\ job[j].kind = sort

LEMMA OthersDoNotStart ==
  ASSUME JobInv, [Transfers!JobNext]_(Transfers!jobVars), NEW sort \in Transfers!Kinds,
         ~\E j \in Jobs : Transfers!Starts(j, sort)
  PROVE  NoneComesToRun(sort)
<1>1. job \in [Jobs -> JobRecords] /\ \A j \in Jobs : JobOK(j)
  BY DEF JobInv, JobTypes
<1>2. ASSUME NEW i \in Jobs, NEW new \in JobRecords, job' = [job EXCEPT ![i] = new],
             new.kind = job[i].kind \/ new.kind # sort,
             new.state \in {"running", "ready"} /\ new.kind = sort => job[i].state \in {"running", "ready"}
      PROVE  NoneComesToRun(sort)
  BY <1>1, <1>2 DEF NoneComesToRun
<1>3. ASSUME NEW i \in Jobs, NEW done \in BOOLEAN, NEW record \in JobRecords,
             record.kind = job[i].kind, Transfers!Leaves(i, done, record)
      PROVE  NoneComesToRun(sort)
  <2>1. PICK o : o = Transfers!Outcome(i, done)
    OBVIOUS
  <2>2. o \in {"done", "failed", "cancelled"}
    BY <2>1 DEF Transfers!Outcome
  <2>3. PICK new : new = [record EXCEPT !.state = o, !.at = "over", !.staged = FALSE]
    OBVIOUS
  <2>4. new \in JobRecords /\ new.kind = record.kind /\ new.state = o
    BY <2>2, <2>3 DEF JobRecords, JobStates, JobPlaces
  <2>5. job' = [job EXCEPT ![i] = new]
    BY <1>3, <2>1, <2>3 DEF Transfers!Leaves
  <2> QED BY <1>2, <1>3, <2>2, <2>4, <2>5
<1>4. ASSUME NEW i \in Jobs, NEW other \in Transfers!Kinds, Transfers!Starts(i, other)
      PROVE  NoneComesToRun(sort)
  <2>1. other # sort
    BY <1>4
  <2>2. PICK source \in BOOLEAN :
          job' = [job EXCEPT ![i] = [Transfers!NoJob EXCEPT !.kind = other, !.state = "running",
                                      !.at = "opens", !.source = source, !.early = (server = "up")]]
    BY <1>4 DEF Transfers!Starts
  <2>3. [Transfers!NoJob EXCEPT !.kind = other, !.state = "running", !.at = "opens", !.source = source,
                                !.early = (server = "up")].kind = other
    BY DEF Transfers!NoJob
  <2> QED BY <1>1, <2>1, <2>2, <2>3 DEF NoneComesToRun
<1>5. ASSUME NEW i \in Jobs, Transfers!GivesUp(i) \/ Transfers!Fails(i) PROVE NoneComesToRun(sort)
  BY <1>1, <1>3, <1>5 DEF Transfers!GivesUp, Transfers!Fails
<1>6. ASSUME NEW i \in Jobs, Transfers!Stores(i) \/ Transfers!StoresSome(i) PROVE NoneComesToRun(sort)
  <2>1. CASE Transfers!Stores(i)
    <3>1. PICK what : what = IF job[i].kind = "import" THEN job[i].chosen ELSE CHOOSE x \in Selections : TRUE
      OBVIOUS
    <3>2. PICK record : record = [job[i] EXCEPT !.kept = what, !.whole = TRUE]
      OBVIOUS
    <3>3. Transfers!Leaves(i, TRUE, record)
      BY <2>1, <3>1, <3>2 DEF Transfers!Stores
    <3>4. what \in MayChoose
      BY <1>1, <3>1, ServicesAssumption DEF JobRecords, MayChoose
    <3>5. record \in JobRecords /\ record.kind = job[i].kind
      BY <1>1, <3>2, <3>4 DEF JobRecords
    <3> QED BY <1>3, <3>3, <3>5
  <2>2. CASE Transfers!StoresSome(i)
    <3>1. PICK kept \in {Unmade, job[i].chosen} : Transfers!Leaves(i, FALSE, [job[i] EXCEPT !.kept = kept])
      BY <2>2 DEF Transfers!StoresSome
    <3>2. PICK record : record = [job[i] EXCEPT !.kept = kept]
      OBVIOUS
    <3>3. record \in JobRecords /\ record.kind = job[i].kind
      BY <1>1, <3>2 DEF JobRecords, MayChoose
    <3> QED BY <1>3, <3>1, <3>2, <3>3
  <2> QED BY <1>6, <2>1, <2>2
<1>7. ASSUME NEW i \in Jobs,
             \/ \E choice \in Selections : Transfers!Chooses(i, choice)
             \/ Transfers!Stages(i) \/ Transfers!Offers(i) \/ Transfers!Takes(i)
             \/ Transfers!Dismisses(i) \/ Transfers!HearsOfIt(i)
      PROVE  NoneComesToRun(sort)
  <2>1. job[i] \in JobRecords /\ JobOK(i) /\ job \in [Jobs -> JobRecords]
    BY <1>1
  <2>2. CASE \E choice \in Selections : Transfers!Chooses(i, choice)
    BY <2>1, <2>2 DEF Transfers!Chooses, NoneComesToRun, JobRecords
  <2>3. CASE Transfers!Stages(i)
    BY <2>1, <2>3 DEF Transfers!Stages, NoneComesToRun, JobRecords
  <2>4. CASE Transfers!Offers(i)
    BY <2>1, <2>4 DEF Transfers!Offers, NoneComesToRun, JobRecords, JobOK
  <2>5. CASE Transfers!Takes(i)
    BY <2>1, <2>5 DEF Transfers!Takes, NoneComesToRun, JobRecords
  <2>6. CASE Transfers!Dismisses(i) \/ Transfers!HearsOfIt(i)
    BY <2>1, <2>6 DEF Transfers!Dismisses, Transfers!HearsOfIt, Transfers!Stop, NoneComesToRun, JobRecords
  <2> QED BY <1>7, <2>2, <2>3, <2>4, <2>5, <2>6
<1>8. ASSUME NEW i \in Jobs, Transfers!FindsNoFolder(i) PROVE NoneComesToRun(sort)
  <2>1. Transfers!Outcome(i, FALSE) \notin {"running", "ready"}
    BY DEF Transfers!Outcome
  <2> QED BY <1>1, <1>8, <2>1 DEF Transfers!FindsNoFolder, NoneComesToRun, JobRecords
<1>9. CASE Transfers!Closes \/ Transfers!Returns \/ UNCHANGED Transfers!jobVars
  BY <1>9 DEF Transfers!Closes, Transfers!Returns, Transfers!jobVars, NoneComesToRun
<1> QED BY <1>4, <1>5, <1>6, <1>7, <1>8, <1>9 DEF Transfers!JobNext

(* The cardinality that the jobs count with is the one of the library.     *)
LEMMA SameCardinality == \A S : Transfers!Cardinality(S) = Cardinality(S)
BY DEF Cardinality, Transfers!Cardinality

LEMMA LimitStep ==
  ASSUME JobInv, [Transfers!JobNext]_(Transfers!jobVars), NEW sort \in Transfers!Kinds, Within(sort)
  PROVE  Within(sort)'
<1>1. PICK R, S : R = Transfers!RunningOf(sort) /\ S = Transfers!RunningOf(sort)'
  OBVIOUS
<1>2. R \subseteq Jobs /\ S \subseteq Jobs /\ IsFiniteSet(Jobs)
  BY <1>1, ServicesAssumption DEF Transfers!RunningOf
<1>3. /\ IsFiniteSet(R) /\ Cardinality(R) \in Nat
      /\ IsFiniteSet(S) /\ Cardinality(S) \in Nat
  BY <1>2, FS_Subset, FS_CardinalityType
<1>4. Cardinality(R) <= Limit[sort] /\ Limit[sort] \in Nat
  BY <1>1, ServicesAssumption DEF Within
<1>5. CASE \E j \in Jobs : Transfers!Starts(j, sort)
  <2>1. PICK j \in Jobs : Transfers!Starts(j, sort)
    BY <1>5
  <2>2. Cardinality(R) < Limit[sort]
    <3>1. Cardinality(Transfers!RunningOf(sort)) < Limit[sort]
      BY <2>1, SameCardinality DEF Transfers!Starts
    <3> QED BY <1>1, <3>1
  <2>3. \A i \in Jobs \ {j} : job'[i] = job[i]
    BY <2>1 DEF Transfers!Starts, JobInv, JobTypes
  <2>4. S \subseteq R \union {j}
    BY <1>1, <2>3 DEF Transfers!RunningOf, Transfers!Running
  <2>5. IsFiniteSet(R \union {j}) /\ Cardinality(R \union {j}) \in {Cardinality(R), Cardinality(R) + 1}
    BY <1>3, FS_AddElement
  <2>6. Cardinality(S) <= Cardinality(R \union {j})
    BY <2>4, <2>5, FS_Subset
  <2>7. Cardinality(S) <= Limit[sort]
    BY <1>3, <1>4, <2>2, <2>5, <2>6
  <2> QED BY <1>1, <2>7 DEF Within
<1>6. CASE ~\E j \in Jobs : Transfers!Starts(j, sort)
  <2>1. S \subseteq R
    BY <1>1, <1>6, OthersDoNotStart DEF NoneComesToRun, Transfers!RunningOf, Transfers!Running
  <2>2. Cardinality(S) <= Cardinality(R)
    BY <1>3, <2>1, FS_Subset
  <2>3. Cardinality(S) <= Limit[sort]
    BY <1>3, <1>4, <2>2
  <2> QED BY <1>1, <2>3 DEF Within
<1> QED BY <1>5, <1>6

(* A job that says it is done has stored all that the page chose first, one *)
(* that does not has not; what is over leaves nothing behind; once a        *)
(* shutdown has returned the jobs it found are over; and there are never    *)
(* more than the limit: whatever is stopped, chosen or fails in between, for*)
(* any jobs and limits (httpd/registry_jobs.go).                            *)
THEOREM JobsDoEnd == Transfers!JobSpec => []JobsEndAsTheySay
<1> DEFINE Limits == \A sort \in Transfers!Kinds : Within(sort)
<1>1. JobInv /\ Limits => JobsEndAsTheySay
  <2> SUFFICES ASSUME JobInv, Limits PROVE Transfers!JobsEndAsTheySay
    BY DEF JobsEndAsTheySay
  <2>1. ASSUME NEW j \in Jobs
        PROVE  /\ job[j].state = "done" <=> job[j].whole
               /\ job[j].kind = "import" => job[j].kept \in {Unmade, job[j].accepted}
               /\ job[j].at = "over" => ~Transfers!Running(j) /\ ~job[j].staged /\ j \notin uploads
               /\ server = "closed" /\ job[j].early => ~Transfers!Running(j) /\ ~job[j].staged
    <3>1. JobOK(j)
      BY DEF JobInv
    <3>2. job[j].at = "over" => job[j].state \notin {"running", "ready"} /\ ~job[j].staged /\ j \notin uploads
      BY <3>1 DEF JobOK
    <3>3. server = "closed" /\ job[j].early => job[j].state \notin {"running", "ready"} /\ ~job[j].staged
      BY <3>1 DEF JobOK
    <3>4. job[j].kind = "import" => job[j].kept \in {Unmade, job[j].accepted}
      BY <3>1 DEF JobOK
    <3>5. job[j].state = "done" <=> job[j].whole
      BY <3>1 DEF JobOK
    <3> QED BY <3>2, <3>3, <3>4, <3>5 DEF Transfers!Running
  <2>2. \A sort \in Transfers!Kinds : Cardinality(Transfers!RunningOf(sort)) <= Limit[sort]
    BY DEF Within
  <2> QED BY <2>1, <2>2, SameCardinality DEF Transfers!JobsEndAsTheySay
<1>2. JobInv /\ Limits /\ [Transfers!JobNext]_(Transfers!jobVars) => Limits'
  BY LimitStep
<1>3. Transfers!JobInit => Limits
  BY JobsStart
<1> HIDE DEF Limits
<1> QED BY <1>1, <1>2, <1>3, JobsStart, JobStep, PTL DEF Transfers!JobSpec

-----------------------------------------------------------------------------
(***************************************************************************)
(* Syncs.  What a plan is made of.                                         *)
(***************************************************************************)
Entries == ((Nat \ {0}) \X Nat) \union {Absent, Folder}
Trees == [Tree -> Entries]
StepTypes == [kind : {"mkdir", "copy", "remove", "rmdir"}, path : Tree, to : Sides, entry : Entries]
RunTypes ==
    [pc : {"idle", "lists", "executes"}, seen : [Sides -> Trees], last : Trees, todo : SUBSET StepTypes,
     made : Trees, broken : SUBSET Tree, quiet : BOOLEAN]

(* The step fits what was listed: after it, both sides have the same.       *)
Fits(tree, z) ==
    /\ z.kind = "copy" => IsFile(z.entry) /\ z.entry = tree[Other(z.to)][z.path]
    /\ z.kind = "mkdir" => z.entry = Folder /\ tree[Other(z.to)][z.path] = Folder
    /\ z.kind \in {"remove", "rmdir"} => tree[Other(z.to)][z.path] = Absent
    /\ z.kind = "remove" => IsFile(tree[z.to][z.path])
    /\ z.kind = "rmdir" => tree[z.to][z.path] = Folder
SameMod(tree, n) ==
    IsFile(tree["local"][n]) /\ IsFile(tree["remote"][n]) /\ Mod(tree["local"][n]) = Mod(tree["remote"][n])
(* A copy replaces an older file, or one that is as it was after the last   *)
(* run.                                                                     *)
Replaces(tree, last, z) ==
    z.kind = "copy" /\ IsFile(tree[z.to][z.path]) =>
       \/ Mod(z.entry) > Mod(tree[z.to][z.path])
       \/ last[z.path] # Absent /\ Same(tree[z.to][z.path], last[z.path])

OnlyOn(tree, s, n) ==
    n \in Tree \ Clashes(tree["local"], tree["remote"]) /\ tree[s][n] # Absent /\ tree[Other(s)][n] = Absent
Goes(tree, last, del, s, n) ==
    IF IsFile(tree[s][n]) THEN RemovedElsewhere(tree[s], tree[Other(s)], last, del, n)
    ELSE FolderGoes(tree[s], tree[Other(s)], last, del, n)
AloneStep(tree, last, del, s, n) ==
    IF Goes(tree, last, del, s, n) THEN Step(IF IsFile(tree[s][n]) THEN "remove" ELSE "rmdir", n, s, tree[s][n])
    ELSE Step(IF IsFile(tree[s][n]) THEN "copy" ELSE "mkdir", n, Other(s), tree[s][n])
Differ(tree, n) ==
    IsFile(tree["local"][n]) /\ IsFile(tree["remote"][n]) /\ ~Same(tree["local"][n], tree["remote"][n])
GiverOf(tree, last, n) == Giver(tree["local"][n], tree["remote"][n], last[n])
CopyStep(tree, last, n) == Step("copy", n, Other(GiverOf(tree, last, n)), tree[GiverOf(tree, last, n)][n])

LEMMA SidesAre ==
    /\ Sides = {"local", "remote"} /\ Other("local") = "remote" /\ Other("remote") = "local"
    /\ \A s \in Sides : Other(s) \in Sides /\ Other(s) # s /\ Other(Other(s)) = s
  BY DEF Sides, Other

LEMMA EntryFacts ==
    /\ Absent \in Entries /\ Folder \in Entries /\ ~IsFile(Absent) /\ ~IsFile(Folder) /\ Absent # Folder
    /\ \A e \in Entries : e = File(Content(e), Mod(e)) /\ Content(e) \in Nat /\ Mod(e) \in Nat
    /\ \A i \in Nat \ {0}, m \in Nat :
         File(i, m) \in Entries /\ Content(File(i, m)) = i /\ Mod(File(i, m)) = m /\ IsFile(File(i, m))
    /\ \A e \in Entries : (IsFile(e) <=> Content(e) > 0) /\ (~IsFile(e) => e \in {Absent, Folder})
  BY DEF Entries, Absent, Folder, File, Content, Mod, IsFile

LEMMA SameFacts ==
    ASSUME NEW e \in Entries, NEW f \in Entries
    PROVE  /\ Same(e, f) <=> Same(f, e)
           /\ IsFile(e) /\ Same(e, f) => IsFile(f) /\ Mod(e) = Mod(f)
           /\ IsFile(e) /\ IsFile(f) => (Same(e, f) <=> Mod(e) = Mod(f))
           /\ e = f => Same(e, f)
  BY DEF Same

LEMMA BothForm ==
    ASSUME NEW tree, NEW last, NEW del
    PROVE  Both(tree, last, del) =
             {CopyStep(tree, last, n) : n \in {i \in Tree : Differ(tree, i)}}
             \cup UNION {{AloneStep(tree, last, del, s, n) : n \in {i \in Tree : OnlyOn(tree, s, i)}} : s \in Sides}
  BY DEF Both, CopyStep, AloneStep, GiverOf, Differ, OnlyOn, Goes

LEMMA BothIs ==
    ASSUME NEW tree, NEW last, NEW del, NEW z \in Both(tree, last, del)
    PROVE  \/ \E n \in Tree : Differ(tree, n) /\ z = CopyStep(tree, last, n)
           \/ \E n \in Tree, s \in Sides : OnlyOn(tree, s, n) /\ z = AloneStep(tree, last, del, s, n)
  BY BothForm

LEMMA StepFacts ==
    ASSUME NEW what \in {"mkdir", "copy", "remove", "rmdir"}, NEW n \in Tree, NEW s \in Sides, NEW e \in Entries
    PROVE  /\ Step(what, n, s, e) \in StepTypes /\ Step(what, n, s, e).kind = what /\ Step(what, n, s, e).path = n
           /\ Step(what, n, s, e).to = s /\ Step(what, n, s, e).entry = e
  BY DEF Step, StepTypes

LEMMA GiverFacts ==
    ASSUME NEW e \in Entries, NEW f \in Entries, NEW g \in Entries, IsFile(e), IsFile(f), ~Same(e, f)
    PROVE  /\ Giver(e, f, g) \in Sides
           /\ Giver(e, f, g) = "local" => Mod(e) > Mod(f) \/ (g # Absent /\ Same(f, g))
           /\ Giver(e, f, g) = "remote" => Mod(f) > Mod(e) \/ (g # Absent /\ Same(e, g))
<1>1. Mod(e) # Mod(f) /\ Mod(e) \in Nat /\ Mod(f) \in Nat
  BY SameFacts, EntryFacts
<1>2. Giver(e, f, g) = IF (g = Absent \/ ~Same(e, g)) # (g = Absent \/ ~Same(f, g))
                       THEN IF g = Absent \/ ~Same(e, g) THEN "local" ELSE "remote"
                       ELSE IF Mod(f) > Mod(e) THEN "remote" ELSE "local"
  BY DEF Giver
<1>3. CASE (g = Absent \/ ~Same(e, g)) # (g = Absent \/ ~Same(f, g))
  BY <1>2, <1>3 DEF Sides
<1>4. CASE ~((g = Absent \/ ~Same(e, g)) # (g = Absent \/ ~Same(f, g)))
  BY <1>1, <1>2, <1>4 DEF Sides
<1> QED BY <1>3, <1>4

(* What a sync both ways plans: nothing for what clashes or is alike.       *)
LEMMA BothFacts ==
    ASSUME NEW tree \in [Sides -> Trees], NEW last \in Trees, NEW del \in BOOLEAN, NEW z \in Both(tree, last, del)
    PROVE  /\ z \in StepTypes /\ Fits(tree, z) /\ Replaces(tree, last, z) /\ ~SameMod(tree, z.path)
           /\ z.kind = "remove" => RemovedElsewhere(tree[z.to], tree[Other(z.to)], last, del, z.path)
<1>1. ASSUME NEW n \in Tree, Differ(tree, n), z = CopyStep(tree, last, n)
      PROVE  /\ z \in StepTypes /\ Fits(tree, z) /\ Replaces(tree, last, z) /\ ~SameMod(tree, z.path)
             /\ z.kind = "remove" => RemovedElsewhere(tree[z.to], tree[Other(z.to)], last, del, z.path)
  <2>1. PICK e \in Entries, f \in Entries, g \in Entries : e = tree["local"][n] /\ f = tree["remote"][n] /\ g = last[n]
    BY SidesAre DEF Trees
  <2>2. IsFile(e) /\ IsFile(f) /\ ~Same(e, f)
    BY <1>1, <2>1 DEF Differ
  <2>3. PICK s \in Sides : s = GiverOf(tree, last, n) /\ s = Giver(e, f, g)
    BY <2>1, <2>2, GiverFacts DEF GiverOf
  <2>4. /\ z \in StepTypes /\ z.kind = "copy" /\ z.path = n /\ z.to = Other(s) /\ z.entry = tree[s][n]
    BY <1>1, <2>1, <2>3, StepFacts, SidesAre DEF CopyStep
  <2>5. Fits(tree, z)
    BY <2>1, <2>2, <2>4, SidesAre DEF Fits
  <2>6. Replaces(tree, last, z)
    BY <2>1, <2>2, <2>3, <2>4, GiverFacts, SidesAre DEF Replaces
  <2>7. ~SameMod(tree, n)
    BY <2>1, <2>2, SameFacts DEF SameMod
  <2> QED BY <2>4, <2>5, <2>6, <2>7
<1>2. ASSUME NEW n \in Tree, NEW s \in Sides, OnlyOn(tree, s, n), z = AloneStep(tree, last, del, s, n)
      PROVE  /\ z \in StepTypes /\ Fits(tree, z) /\ Replaces(tree, last, z) /\ ~SameMod(tree, z.path)
             /\ z.kind = "remove" => RemovedElsewhere(tree[z.to], tree[Other(z.to)], last, del, z.path)
  <2>1. PICK e \in Entries : e = tree[s][n] /\ e # Absent /\ tree[Other(s)][n] = Absent
    BY <1>2 DEF OnlyOn, Trees
  <2>2. ~SameMod(tree, n)
    BY <2>1, SidesAre, EntryFacts DEF SameMod
  <2>3. CASE Goes(tree, last, del, s, n)
    <3>1. /\ z \in StepTypes /\ z.kind \in {"remove", "rmdir"} /\ z.path = n /\ z.to = s
          /\ z.kind = "remove" => IsFile(e)
          /\ z.kind = "rmdir" => ~IsFile(e)
      BY <1>2, <2>1, <2>3, StepFacts DEF AloneStep
    <3>2. z.kind = "rmdir" => e = Folder
      BY <2>1, <3>1, EntryFacts
    <3> QED BY <2>1, <2>2, <2>3, <3>1, <3>2 DEF Fits, Replaces, Goes
  <2>4. CASE ~Goes(tree, last, del, s, n)
    <3>1. /\ z \in StepTypes /\ z.kind \in {"copy", "mkdir"} /\ z.path = n /\ z.to = Other(s) /\ z.entry = e
          /\ z.kind = "copy" <=> IsFile(e)
      BY <1>2, <2>1, <2>4, StepFacts, SidesAre DEF AloneStep
    <3>2. z.kind = "mkdir" => e = Folder
      BY <2>1, <3>1, EntryFacts
    <3> QED BY <2>1, <2>2, <3>1, <3>2, SidesAre, EntryFacts DEF Fits, Replaces
  <2> QED BY <2>3, <2>4
<1> QED BY <1>1, <1>2, BothIs

(* There is one step for a path at most, and one unless it clashes or is    *)
(* alike.                                                                   *)
LEMMA BothOnce ==
    ASSUME NEW tree \in [Sides -> Trees], NEW last \in Trees, NEW del \in BOOLEAN, NEW z \in Both(tree, last, del),
           NEW y \in Both(tree, last, del), z.path = y.path
    PROVE  z = y
<1>1. ASSUME NEW n \in Tree, Differ(tree, n) PROVE CopyStep(tree, last, n).path = n
  <2>1. /\ tree["local"][n] \in Entries /\ tree["remote"][n] \in Entries /\ last[n] \in Entries
    BY SidesAre DEF Trees
  <2>2. GiverOf(tree, last, n) \in Sides
    BY <1>1, <2>1, GiverFacts DEF GiverOf, Differ
  <2> QED BY <2>2 DEF CopyStep, Step
<1>2. \A n \in Tree, s \in Sides : AloneStep(tree, last, del, s, n).path = n
  BY DEF AloneStep, Step
<1>3. \A n \in Tree, s, o \in Sides : OnlyOn(tree, s, n) /\ OnlyOn(tree, o, n) => s = o
  BY SidesAre DEF OnlyOn
<1>4. \A n \in Tree, s \in Sides : ~(Differ(tree, n) /\ OnlyOn(tree, s, n))
  BY SidesAre, EntryFacts DEF Differ, OnlyOn
<1> QED BY <1>1, <1>2, <1>3, <1>4, BothIs

LEMMA BothCovers ==
    ASSUME NEW tree \in [Sides -> Trees], NEW last \in Trees, NEW del \in BOOLEAN,
           NEW n \in Tree \ Clashes(tree["local"], tree["remote"]), \A z \in Both(tree, last, del) : z.path # n
    PROVE  Same(tree["local"][n], tree["remote"][n])
<1>1. PICK e \in Entries, f \in Entries : e = tree["local"][n] /\ f = tree["remote"][n]
  BY SidesAre DEF Trees
<1>2. ~Differ(tree, n)
  <2>1. SUFFICES ASSUME Differ(tree, n) PROVE FALSE
    OBVIOUS
  <2>2. CopyStep(tree, last, n) \in Both(tree, last, del) /\ CopyStep(tree, last, n).path = n
    BY <2>1, BothForm DEF CopyStep, Step
  <2> QED BY <2>2
<1>3. \A s \in Sides : ~OnlyOn(tree, s, n)
  <2>1. SUFFICES ASSUME NEW s \in Sides, OnlyOn(tree, s, n) PROVE FALSE
    OBVIOUS
  <2>2. AloneStep(tree, last, del, s, n) \in Both(tree, last, del)
    BY <2>1, BothForm
  <2>3. AloneStep(tree, last, del, s, n).path = n
    BY DEF AloneStep, Step
  <2> QED BY <2>2, <2>3
<1>4. e = Absent <=> f = Absent
  BY <1>1, <1>3, SidesAre DEF OnlyOn
<1>5. CASE e = Absent
  BY <1>1, <1>4, <1>5, SameFacts
<1>6. CASE e # Absent
  <2>1. IsFile(e) <=> IsFile(f)
    BY <1>1, <1>4, <1>6 DEF Clashes
  <2>2. CASE IsFile(e)
    BY <1>1, <1>2, <2>1, <2>2 DEF Differ
  <2>3. CASE ~IsFile(e)
    BY <1>1, <1>4, <1>6, <2>1, <2>3, EntryFacts, SameFacts
  <2> QED BY <2>2, <2>3
<1> QED BY <1>5, <1>6

(* What a sync one way plans.                                               *)
LEMMA OneWayIs ==
    ASSUME NEW tree \in [Sides -> Trees], NEW s \in Sides, NEW del \in BOOLEAN,
           NEW z \in OneWay(tree[Other(s)], tree[s], s, del)
    PROVE  \E n \in Tree :
             \/ /\ tree[Other(s)][n] = Folder /\ tree[s][n] = Absent /\ z = Step("mkdir", n, s, tree[Other(s)][n])
             \/ /\ IsFile(tree[Other(s)][n]) /\ ~Same(tree[Other(s)][n], tree[s][n])
                /\ z = Step("copy", n, s, tree[Other(s)][n])
             \/ /\ tree[Other(s)][n] = Absent /\ tree[s][n] # Absent
                /\ z = Step(IF IsFile(tree[s][n]) THEN "remove" ELSE "rmdir", n, s, tree[s][n])
  BY DEF OneWay, Differs

LEMMA OneWayFacts ==
    ASSUME NEW tree \in [Sides -> Trees], NEW s \in Sides, NEW del \in BOOLEAN,
           NEW z \in OneWay(tree[Other(s)], tree[s], s, del)
    PROVE  z \in StepTypes /\ Fits(tree, z)
<1>1. \A n \in Tree : tree[s][n] \in Entries /\ tree[Other(s)][n] \in Entries
  BY SidesAre DEF Trees
<1>2. PICK n \in Tree :
             \/ /\ tree[Other(s)][n] = Folder /\ tree[s][n] = Absent /\ z = Step("mkdir", n, s, tree[Other(s)][n])
             \/ /\ IsFile(tree[Other(s)][n]) /\ ~Same(tree[Other(s)][n], tree[s][n])
                /\ z = Step("copy", n, s, tree[Other(s)][n])
             \/ /\ tree[Other(s)][n] = Absent /\ tree[s][n] # Absent
                /\ z = Step(IF IsFile(tree[s][n]) THEN "remove" ELSE "rmdir", n, s, tree[s][n])
  BY OneWayIs
<1> QED BY <1>1, <1>2, StepFacts, EntryFacts DEF Fits

LEMMA OneWayOnce ==
    ASSUME NEW tree \in [Sides -> Trees], NEW s \in Sides, NEW del \in BOOLEAN,
           NEW z \in OneWay(tree[Other(s)], tree[s], s, del), NEW y \in OneWay(tree[Other(s)], tree[s], s, del),
           z.path = y.path
    PROVE  z = y
<1>1. \A what, e, n : Step(what, n, s, e).path = n
  BY DEF Step
<1>2. ~IsFile(Absent) /\ ~IsFile(Folder) /\ Absent # Folder
  BY EntryFacts
<1> QED BY <1>1, <1>2, OneWayIs

LEMMA OneWayCovers ==
    ASSUME NEW tree \in [Sides -> Trees], NEW s \in Sides, NEW del \in BOOLEAN,
           NEW n \in Tree \ Clashes(tree[Other(s)], tree[s]), tree[Other(s)][n] # Absent,
           \A z \in OneWay(tree[Other(s)], tree[s], s, del) : z.path # n
    PROVE  Same(tree[Other(s)][n], tree[s][n])
<1>1. PICK e \in Entries, f \in Entries : e = tree[Other(s)][n] /\ f = tree[s][n]
  BY SidesAre DEF Trees
<1>2. ~(e = Folder /\ f = Absent)
  <2>1. SUFFICES ASSUME e = Folder, f = Absent PROVE FALSE
    OBVIOUS
  <2>2. Step("mkdir", n, s, e) \in OneWay(tree[Other(s)], tree[s], s, del)
    BY <1>1, <2>1, EntryFacts DEF OneWay
  <2> QED BY <2>2 DEF Step
<1>3. ~(IsFile(e) /\ ~Same(e, f))
  <2>1. SUFFICES ASSUME IsFile(e), ~Same(e, f) PROVE FALSE
    OBVIOUS
  <2>2. Step("copy", n, s, e) \in OneWay(tree[Other(s)], tree[s], s, del)
    BY <1>1, <2>1 DEF OneWay, Differs
  <2> QED BY <2>2 DEF Step
<1>4. CASE IsFile(e)
  BY <1>1, <1>3, <1>4
<1>5. CASE ~IsFile(e)
  <2>1. e = Folder /\ f # Absent
    BY <1>1, <1>2, <1>5, EntryFacts
  <2>2. ~IsFile(f)
    BY <1>1, <1>5, <2>1, EntryFacts DEF Clashes
  <2> QED BY <1>1, <2>1, <2>2, EntryFacts, SameFacts
<1> QED BY <1>4, <1>5

-----------------------------------------------------------------------------
(* The types of a sync.                                                     *)
TreeTypes ==
    /\ side \in [Sides -> Trees] /\ snapshot \in Trees /\ run \in RunTypes /\ edits \in Nat /\ changes \in Nat
    /\ removed \in [Sides -> SUBSET Tree] /\ shared \in [Tree -> SUBSET Nat] /\ delete \in BOOLEAN

LEMMA NowhereFacts == Nowhere \in Trees /\ \A n \in Tree : Nowhere[n] = Absent
  BY EntryFacts DEF Nowhere, Trees

LEMMA IdleFacts ==
    /\ Idle \in RunTypes /\ Idle.pc = "idle" /\ Idle.todo = {} /\ Idle.quiet /\ Idle.broken = {}
    /\ Idle.last = Nowhere /\ Idle.made = Nowhere
  BY NowhereFacts DEF Idle, RunTypes

LEMMA SyncStarts == SyncInit => TreeTypes
  BY NowhereFacts, IdleFacts DEF SyncInit, TreeTypes

(* What people do: a file is another one then, of the next edit, or there   *)
(* is none, and one that was there is among those they removed.             *)
New == File(edits + 1, edits + 1)
LEMMA PeopleFacts ==
    ASSUME TreeTypes, NEW s \in Sides, NEW n \in Tree, Edits(s, n) \/ MakesFolder(s, n) \/ RemovesAll(s, n)
    PROVE  /\ TreeTypes' /\ run' = [run EXCEPT !.quiet = FALSE] /\ ~run'.quiet
           /\ UNCHANGED <<snapshot, direction, delete, trash, shared>>
           /\ edits' = edits \/ edits' = edits + 1
           /\ edits' # edits \/ changes' # changes
           /\ \A o \in Sides : removed[o] \subseteq removed'[o] /\ (o # s => side'[o] = side[o])
           /\ \A o \in Sides, i \in Tree :
                \/ side'[o][i] = side[o][i]
                \/ side'[o][i] = New /\ edits' = edits + 1
                \/ ~IsFile(side'[o][i]) /\ (IsFile(side[o][i]) => i \in removed'[o])
<1> USE DEF TreeTypes
<1>1. run' = [run EXCEPT !.quiet = FALSE] /\ run' \in RunTypes /\ ~run'.quiet
  BY DEF Edits, MakesFolder, RemovesAll, Meanwhile, RunTypes
<1>2. UNCHANGED <<snapshot, direction, delete, trash, shared>>
  BY DEF Edits, MakesFolder, RemovesAll, settings
<1>3. CASE Edits(s, n)
  <2>1. New \in Entries
    BY EntryFacts DEF New
  <2>2. side' = [side EXCEPT ![s][n] = New] /\ edits' = edits + 1 /\ UNCHANGED <<removed, changes>>
    BY <1>3 DEF Edits, New
  <2>3. /\ side' \in [Sides -> Trees] /\ \A o \in Sides, i \in Tree : side'[o][i] \in {side[o][i], New}
        /\ \A o \in Sides : o # s => side'[o] = side[o]
    BY <2>1, <2>2 DEF Trees
  <2> QED BY <1>1, <1>2, <2>2, <2>3
<1>4. CASE MakesFolder(s, n)
  <2>1. side' = [side EXCEPT ![s][n] = Folder] /\ edits' = edits /\ UNCHANGED removed /\ side[s][n] = Absent
        /\ changes' = changes + 1 /\ changes' # changes
    BY <1>4 DEF MakesFolder
  <2>2. /\ side' \in [Sides -> Trees] /\ side'[s][n] = Folder
        /\ \A o \in Sides, i \in Tree : o # s \/ i # n => side'[o][i] = side[o][i]
        /\ \A o \in Sides : o # s => side'[o] = side[o]
    BY <2>1, EntryFacts DEF Trees
  <2> QED BY <1>1, <1>2, <2>1, <2>2, EntryFacts
<1>5. CASE RemovesAll(s, n)
  <2>1. PICK gone : gone = {i \in Tree : i = n \/ Inside(i, n)}
    OBVIOUS
  <2>2. /\ side' = [side EXCEPT ![s] = [i \in Tree |-> IF i \in gone THEN Absent ELSE side[s][i]]]
        /\ removed' = [removed EXCEPT ![s] = removed[s] \union {i \in gone : IsFile(side[s][i])}]
        /\ edits' = edits
    BY <1>5, <2>1 DEF RemovesAll
  <2>3. changes' = changes + 1 /\ changes' # changes
    BY <1>5 DEF RemovesAll
  <2>4. /\ side' \in [Sides -> Trees] /\ \A i \in Tree : side'[s][i] = IF i \in gone THEN Absent ELSE side[s][i]
        /\ \A o \in Sides : o # s => side'[o] = side[o]
    BY <2>2, EntryFacts DEF Trees
  <2>5. /\ removed' \in [Sides -> SUBSET Tree] /\ removed'[s] = removed[s] \union {i \in gone : IsFile(side[s][i])}
        /\ \A o \in Sides : o # s => removed'[o] = removed[o]
    BY <2>1, <2>2
  <2>6. ASSUME NEW o \in Sides, NEW i \in Tree
        PROVE  \/ side'[o][i] = side[o][i]
               \/ ~IsFile(side'[o][i]) /\ (IsFile(side[o][i]) => i \in removed'[o])
    BY <2>4, <2>5, EntryFacts
  <2>7. \A o \in Sides : removed[o] \subseteq removed'[o]
    BY <2>5
  <2> QED BY <1>1, <1>2, <2>2, <2>3, <2>4, <2>5, <2>6, <2>7
<1> QED BY <1>3, <1>4, <1>5

(* What a step does, of which there is one for its path; what goes with it  *)
(* is what is in it, when it is moved to the trash.                         *)
Along(z, n) == Trashes(z) /\ Inside(n, z.path)
LEMMA DoesFacts ==
    ASSUME TreeTypes, NEW z \in run.todo, Does(z)
    PROVE  /\ TreeTypes' /\ z \in StepTypes /\ Works(z) /\ run.pc = "executes"
           /\ UNCHANGED <<snapshot, direction, delete, trash, edits, changes, removed>>
           /\ side'[z.to][z.path] = Made(z)
           /\ \A s \in Sides, n \in Tree : s # z.to \/ (n # z.path /\ ~Along(z, n)) => side'[s][n] = side[s][n]
           /\ \A n \in Tree : Along(z, n) => side'[z.to][n] = Absent
           /\ run'.pc = "executes" /\ run'.seen = run.seen /\ run'.last = run.last /\ run'.todo = run.todo \ {z}
           /\ run'.broken \in {run.broken, run.broken \union {z.path}} /\ run'.quiet = run.quiet
           /\ run'.made[z.path] = IF z.kind \in {"mkdir", "copy"} THEN z.entry ELSE Absent
           /\ \A n \in Tree : n # z.path => run'.made[n] = run.made[n]
           /\ \A n \in Tree : shared[n] \subseteq shared'[n]
           /\ z.kind = "copy" => /\ IsFile(side[Other(z.to)][z.path]) /\ Content(Made(z)) \in shared'[z.path]
                                 /\ Made(z) = File(Content(side[Other(z.to)][z.path]), Mod(z.entry))
                                 /\ IsFile(Made(z))
           /\ z.kind # "copy" => ~IsFile(Made(z))
<1> USE DEF TreeTypes
<1>1. z \in StepTypes /\ z.path \in Tree /\ z.to \in Sides /\ z.entry \in Entries /\ Other(z.to) \in Sides
      /\ z.kind \in {"mkdir", "copy", "remove", "rmdir"}
  BY SidesAre DEF RunTypes, StepTypes
<1>2. Works(z) /\ run.pc = "executes" /\ UNCHANGED <<snapshot, direction, delete, trash, edits, changes, removed>>
  BY DEF Does, Due, people, settings
<1>3. PICK f \in Entries : f = side[Other(z.to)][z.path]
  BY <1>1 DEF Trees
<1>4. z.kind = "copy" => IsFile(f)
  BY <1>1, <1>2, <1>3 DEF Works
<1>5. PICK e : e = Made(z)
  OBVIOUS
<1>6. /\ e \in Entries /\ (z.kind # "copy" => ~IsFile(e))
      /\ z.kind = "copy" => e = File(Content(f), Mod(z.entry)) /\ IsFile(e) /\ Content(e) \in Nat
  <2>1. CASE z.kind = "copy"
    BY <1>1, <1>3, <1>4, <1>5, <2>1, EntryFacts DEF Made
  <2>2. CASE z.kind # "copy"
    BY <1>5, <2>2, EntryFacts DEF Made
  <2> QED BY <2>1, <2>2
<1>7. PICK g \in Entries : g = IF z.kind \in {"mkdir", "copy"} THEN z.entry ELSE Absent
  BY <1>1, EntryFacts
<1>8. PICK broken : /\ broken \in {run.broken, run.broken \union {z.path}}
                    /\ run' = [run EXCEPT !.todo = run.todo \ {z}, !.broken = broken, !.made[z.path] = g]
  BY <1>7 DEF Does
<1>9. PICK made : made = [run.made EXCEPT ![z.path] = g]
  OBVIOUS
<1>10. run' = [run EXCEPT !.todo = run.todo \ {z}, !.broken = broken, !.made = made]
  BY <1>8, <1>9
<1>11. /\ made \in Trees /\ made[z.path] = g /\ (\A n \in Tree : n # z.path => made[n] = run.made[n])
       /\ broken \in SUBSET Tree
  BY <1>1, <1>8, <1>9 DEF RunTypes, Trees
<1>12. /\ run' \in RunTypes /\ run'.pc = run.pc /\ run'.seen = run.seen /\ run'.last = run.last
       /\ run'.todo = run.todo \ {z} /\ run'.broken = broken /\ run'.quiet = run.quiet /\ run'.made = made
  BY <1>10, <1>11 DEF RunTypes
<1>13. PICK after : after = After(z)
  OBVIOUS
<1>14. after = [n \in Tree |-> IF n = z.path THEN e ELSE IF Along(z, n) THEN Absent ELSE side[z.to][n]]
  BY <1>5, <1>13 DEF After, Along
<1>15. side' = [side EXCEPT ![z.to] = after] /\ ~Along(z, z.path)
  BY <1>13 DEF Does, Along, Inside
<1>16. after \in Trees
  BY <1>1, <1>6, <1>14, EntryFacts DEF Trees
<1>17. /\ side' \in [Sides -> Trees] /\ side'[z.to] = after
       /\ \A s \in Sides : s # z.to => side'[s] = side[s]
  BY <1>1, <1>15, <1>16
<1>18. /\ side'[z.to][z.path] = e
       /\ \A s \in Sides, n \in Tree : s # z.to \/ (n # z.path /\ ~Along(z, n)) => side'[s][n] = side[s][n]
       /\ \A n \in Tree : Along(z, n) => side'[z.to][n] = Absent
  BY <1>1, <1>14, <1>15, <1>17
<1>19. /\ shared' \in [Tree -> SUBSET Nat] /\ \A n \in Tree : shared[n] \subseteq shared'[n]
       /\ z.kind = "copy" => Content(e) \in shared'[z.path]
  <2>1. CASE z.kind = "copy"
    <3>1. shared' = [shared EXCEPT ![z.path] = shared[z.path] \union {Content(e)}]
      BY <1>5, <2>1 DEF Does
    <3> QED BY <1>1, <1>6, <2>1, <3>1
  <2>2. CASE z.kind # "copy"
    <3>1. shared' = shared
      BY <2>2 DEF Does
    <3> QED BY <2>2, <3>1
  <2> QED BY <2>1, <2>2
<1> HIDE DEF Along
<1> QED BY <1>1, <1>2, <1>3, <1>4, <1>5, <1>6, <1>7, <1>8, <1>11, <1>12, <1>17, <1>18, <1>19

LEMMA BreaksFacts ==
    ASSUME TreeTypes, NEW z \in run.todo, Breaks(z)
    PROVE  /\ TreeTypes' /\ z \in StepTypes /\ run.pc = "executes"
           /\ UNCHANGED <<side, snapshot, direction, delete, trash, edits, changes, removed, shared>>
           /\ run'.pc = "executes" /\ run'.seen = run.seen /\ run'.last = run.last /\ run'.todo = run.todo \ {z}
           /\ run'.broken = run.broken \union {z.path} /\ run'.quiet = run.quiet /\ run'.made = run.made
<1> USE DEF TreeTypes
<1>1. z \in StepTypes /\ z.path \in Tree
  BY DEF RunTypes, StepTypes
<1>2. /\ UNCHANGED <<side, snapshot, direction, delete, trash, edits, changes, removed, shared>> /\ run.pc = "executes"
      /\ run' = [run EXCEPT !.todo = run.todo \ {z}, !.broken = run.broken \union {z.path}]
  BY DEF Breaks, Due, people, settings
<1> QED BY <1>1, <1>2 DEF RunTypes

LEMMA ListsLocalFacts ==
    ASSUME TreeTypes, ListsLocal
    PROVE  /\ TreeTypes' /\ UNCHANGED <<side, snapshot, direction, delete, trash, edits, changes, shared>>
           /\ run'.pc = "lists" /\ run'.seen["local"] = side["local"] /\ run'.todo = {}
           /\ run'.made = Nowhere /\ run'.last \in {snapshot, Nowhere}
           /\ removed'["remote"] = removed["remote"]
           /\ removed'["local"] = {n \in removed["local"] : ~IsFile(side["local"][n])}
<1> USE DEF TreeTypes
<1>1. /\ UNCHANGED <<side, snapshot, direction, delete, trash, edits, changes, shared>>
      /\ removed' = [removed EXCEPT !["local"] = {n \in removed["local"] : ~IsFile(side["local"][n])}]
  BY DEF ListsLocal, people, settings, Listed
<1>2. PICK last \in {snapshot, Nowhere} :
          run' = [Idle EXCEPT !.pc = "lists", !.seen["local"] = side["local"],
                              !.last = IF direction = "both" THEN last ELSE Nowhere]
  BY DEF ListsLocal
<1>3. PICK seen : seen = [Idle.seen EXCEPT !["local"] = side["local"]]
  OBVIOUS
<1>4. PICK after : after \in Trees /\ after \in {snapshot, Nowhere} /\ after = IF direction = "both" THEN last ELSE Nowhere
  BY NowhereFacts
<1>5. run' = [Idle EXCEPT !.pc = "lists", !.seen = seen, !.last = after]
  BY <1>2, <1>3, <1>4
<1>6. seen \in [Sides -> Trees] /\ seen["local"] = side["local"]
  BY <1>3, IdleFacts, SidesAre DEF RunTypes
<1>7. /\ run' \in RunTypes /\ run'.pc = "lists" /\ run'.seen = seen /\ run'.todo = {} /\ run'.made = Nowhere
      /\ run'.last = after
  BY <1>4, <1>5, <1>6, IdleFacts DEF RunTypes
<1>8. /\ removed' \in [Sides -> SUBSET Tree] /\ removed'["remote"] = removed["remote"]
      /\ removed'["local"] = {n \in removed["local"] : ~IsFile(side["local"][n])}
  BY <1>1, SidesAre
<1> QED BY <1>1, <1>4, <1>6, <1>7, <1>8

(* The plan is of what was listed.                                          *)
LEMMA ListsRemoteFacts ==
    ASSUME TreeTypes, ListsRemote
    PROVE  /\ TreeTypes' /\ UNCHANGED <<side, snapshot, direction, delete, trash, edits, changes, shared>>
           /\ run.pc = "lists" /\ run'.pc = "executes" /\ run'.seen["local"] = run.seen["local"]
           /\ run'.seen["remote"] = side["remote"] /\ run'.seen \in [Sides -> Trees]
           /\ run'.made = run.made /\ run'.last = run.last /\ run'.quiet = run.quiet
           /\ run'.broken = Clashes(run'.seen["local"], run'.seen["remote"])
           /\ removed'["local"] = removed["local"]
           /\ removed'["remote"] = {n \in removed["remote"] : ~IsFile(side["remote"][n])}
           /\ \E del \in BOOLEAN :
                /\ direction = "push" => run'.todo = OneWay(run'.seen["local"], run'.seen["remote"], "remote", del)
                /\ direction = "pull" => run'.todo = OneWay(run'.seen["remote"], run'.seen["local"], "local", del)
                /\ direction \notin {"push", "pull"} => run'.todo = Both(run'.seen, run.last, del)
<1> USE DEF TreeTypes
<1>1. /\ UNCHANGED <<side, snapshot, direction, delete, trash, edits, changes, shared>> /\ run.pc = "lists"
      /\ removed' = [removed EXCEPT !["remote"] = {n \in removed["remote"] : ~IsFile(side["remote"][n])}]
  BY DEF ListsRemote, people, settings, Listed
<1>2. PICK tree : tree = [run.seen EXCEPT !["remote"] = side["remote"]]
  OBVIOUS
<1>3. PICK del \in BOOLEAN : del = (delete /\ ~Refuses(tree))
  OBVIOUS
<1>4. PICK todo : todo = CASE direction = "push" -> OneWay(tree["local"], tree["remote"], "remote", del)
                             [] direction = "pull" -> OneWay(tree["remote"], tree["local"], "local", del)
                             [] OTHER -> Both(tree, run.last, del)
  OBVIOUS
<1>5. PICK broken : broken = Clashes(tree["local"], tree["remote"])
  OBVIOUS
<1>6. run' = [run EXCEPT !.pc = "executes", !.seen = tree, !.todo = todo, !.broken = broken]
  BY <1>2, <1>3, <1>4, <1>5 DEF ListsRemote
<1>7. tree \in [Sides -> Trees] /\ tree["local"] = run.seen["local"] /\ tree["remote"] = side["remote"]
  BY <1>2, SidesAre DEF RunTypes
<1>8. broken \in SUBSET Tree /\ run.last \in Trees
  BY <1>5 DEF Clashes, RunTypes
<1>9. /\ direction = "push" => todo = OneWay(tree["local"], tree["remote"], "remote", del)
      /\ direction = "pull" => todo = OneWay(tree["remote"], tree["local"], "local", del)
      /\ direction \notin {"push", "pull"} => todo = Both(tree, run.last, del)
  BY <1>4
<1>10. todo \subseteq StepTypes
  <2>1. CASE direction = "push"
    BY <1>7, <1>9, <2>1, OneWayFacts, SidesAre
  <2>2. CASE direction = "pull"
    BY <1>7, <1>9, <2>2, OneWayFacts, SidesAre
  <2>3. CASE direction \notin {"push", "pull"}
    BY <1>7, <1>8, <1>9, <2>3, BothFacts
  <2> QED BY <2>1, <2>2, <2>3
<1>11. /\ run' \in RunTypes /\ run'.pc = "executes" /\ run'.seen = tree /\ run'.todo = todo /\ run'.broken = broken
       /\ run'.made = run.made /\ run'.last = run.last /\ run'.quiet = run.quiet
  BY <1>6, <1>7, <1>8, <1>10 DEF RunTypes
<1>12. /\ removed' \in [Sides -> SUBSET Tree] /\ removed'["local"] = removed["local"]
       /\ removed'["remote"] = {n \in removed["remote"] : ~IsFile(side["remote"][n])}
  BY <1>1, SidesAre
<1> QED BY <1>1, <1>5, <1>7, <1>9, <1>11, <1>12

LEMMA RunIsOver ==
    ASSUME TreeTypes, Ends \/ Stops
    PROVE  /\ TreeTypes' /\ run' = Idle
           /\ UNCHANGED <<side, direction, delete, trash, edits, changes, removed, shared>>
           /\ snapshot' = snapshot \/ (direction = "both" /\ run.pc = "executes" /\ snapshot' = Kept)
<1>1. Kept \in Trees
  BY EntryFacts, SidesAre DEF TreeTypes, RunTypes, Trees, Kept, InSync
<1> QED BY <1>1, IdleFacts DEF TreeTypes, Ends, Stops, people, settings

-----------------------------------------------------------------------------
(***************************************************************************)
(* Syncs.  What is in something is in a folder, on both sides and as they  *)
(* were listed.                                                            *)
(***************************************************************************)
Closed(tree) == \A n, f \in Tree : Inside(n, f) /\ tree[n] # Absent => tree[f] = Folder
TreesAreClosed ==
    /\ \A s \in Sides : Closed(side[s])
    /\ run.pc \in {"lists", "executes"} => Closed(run.seen["local"])
    /\ run.pc = "executes" => Closed(run.seen["remote"])

LEMMA ClosedPut ==
    ASSUME NEW tree, NEW tree2, Closed(tree), NEW n \in Tree, HasParent(tree, n),
           tree[n] # Folder \/ tree2[n] = Folder \/ IsEmpty(tree, n),
           \A m \in Tree : m # n => tree2[m] = tree[m]
    PROVE  Closed(tree2)
<1> SUFFICES ASSUME NEW m \in Tree, NEW f \in Tree, Inside(m, f), tree2[m] # Absent PROVE tree2[f] = Folder
  BY DEF Closed
<1>1. m # f /\ Folder # Absent
  BY EntryFacts DEF Inside
<1>2. CASE m = n
  <2>1. tree[Parent(n)] = Folder /\ Parent(n) \in Tree /\ (f = Parent(n) \/ Inside(Parent(n), f))
    BY <1>2, TreeAssumption DEF HasParent
  <2>2. tree[f] = Folder
    BY <1>1, <2>1 DEF Closed
  <2> QED BY <1>1, <1>2, <2>2
<1>3. CASE m # n
  <2>1. tree[m] # Absent /\ tree[f] = Folder
    BY <1>3 DEF Closed
  <2>2. f = n => ~IsEmpty(tree, n)
    BY <2>1 DEF IsEmpty
  <2> QED BY <2>1, <2>2
<1> QED BY <1>2, <1>3

LEMMA ClosedCut ==
    ASSUME NEW tree, NEW tree2, Closed(tree), \A m \in Tree : tree2[m] = tree[m] \/ tree2[m] = Absent,
           \A m, f \in Tree : Inside(m, f) /\ tree2[f] # tree[f] => tree2[m] = Absent
    PROVE  Closed(tree2)
  BY DEF Closed

LEMMA ClosedStays ==
    ASSUME TreeTypes, TreesAreClosed, [SyncNext]_syncVars
    PROVE  TreesAreClosed'
<1>1. \A s \in Sides : Closed(side[s])
  BY DEF TreesAreClosed
<1>2. ASSUME side' = side, run'.pc \in {"lists", "executes"} => Closed(run'.seen["local"]),
             run'.pc = "executes" => Closed(run'.seen["remote"])
      PROVE  TreesAreClosed'
  BY <1>1, <1>2 DEF TreesAreClosed, Closed
<1>3. ASSUME NEW o \in Sides, NEW tree, side'[o] = tree, Closed(tree), \A s \in Sides : s # o => side'[s] = side[s],
             run'.pc = run.pc, run'.seen = run.seen
      PROVE  TreesAreClosed'
  BY <1>1, <1>3 DEF TreesAreClosed, Closed
<1>4. CASE ListsLocal
  BY <1>1, <1>2, <1>4, ListsLocalFacts, SidesAre
<1>5. CASE ListsRemote
  BY <1>1, <1>2, <1>5, ListsRemoteFacts, SidesAre DEF TreesAreClosed
<1>6. CASE Ends \/ Stops
  BY <1>2, <1>6, RunIsOver, IdleFacts
<1>7. ASSUME NEW z \in run.todo, Breaks(z) PROVE TreesAreClosed'
  BY <1>2, <1>7, BreaksFacts DEF TreesAreClosed
<1>8. ASSUME NEW s \in Sides, NEW n \in Tree, Edits(s, n) \/ MakesFolder(s, n) PROVE TreesAreClosed'
  <2>1. PICK tree, tree2 : tree = side[s] /\ tree2 = side'[s]
    OBVIOUS
  <2>2. /\ HasParent(tree, n) /\ (tree[n] # Folder \/ tree2[n] = Folder)
        /\ \A m \in Tree : m # n => tree2[m] = tree[m]
        /\ \A o \in Sides : o # s => side'[o] = side[o]
    BY <1>8, <2>1 DEF Edits, MakesFolder, TreeTypes, Trees
  <2>3. Closed(tree2)
    BY <1>1, <2>1, <2>2, ClosedPut
  <2>4. run'.pc = run.pc /\ run'.seen = run.seen
    BY <1>8, PeopleFacts DEF TreeTypes, RunTypes
  <2> QED BY <1>3, <2>1, <2>2, <2>3, <2>4
<1>9. ASSUME NEW s \in Sides, NEW n \in Tree, RemovesAll(s, n) PROVE TreesAreClosed'
  <2>1. PICK tree, tree2 : tree = side[s] /\ tree2 = side'[s]
    OBVIOUS
  <2>2. /\ \A m \in Tree : tree2[m] = IF m = n \/ Inside(m, n) THEN Absent ELSE tree[m]
        /\ \A o \in Sides : o # s => side'[o] = side[o]
    BY <1>9, <2>1 DEF RemovesAll, TreeTypes, Trees
  <2>3. Closed(tree2)
    BY <1>1, <2>1, <2>2, ClosedCut, TreeAssumption
  <2>4. run'.pc = run.pc /\ run'.seen = run.seen
    BY <1>9, PeopleFacts DEF TreeTypes, RunTypes
  <2> QED BY <1>3, <2>1, <2>2, <2>3, <2>4
<1>10. ASSUME NEW z \in run.todo, Does(z) PROVE TreesAreClosed'
  <2>1. PICK s \in Sides, n \in Tree : s = z.to /\ n = z.path
    BY <1>10, DoesFacts DEF StepTypes
  <2>2. PICK tree, tree2 : tree = side[s] /\ tree2 = side'[s]
    OBVIOUS
  <2>3. /\ Works(z) /\ z \in StepTypes /\ tree2[n] = Made(z) /\ run'.pc = run.pc /\ run'.seen = run.seen
        /\ \A m \in Tree : m # n /\ ~Along(z, m) => tree2[m] = tree[m]
        /\ \A m \in Tree : Along(z, m) => tree2[m] = Absent
    BY <1>10, <2>1, <2>2, DoesFacts
  <2>4. \A o \in Sides : o # s => side'[o] = side[o]
    BY <1>10, <2>1 DEF Does, TreeTypes
  <2>5. CASE z.kind \in {"mkdir", "copy"}
    <3>1. /\ HasParent(tree, n) /\ \A m \in Tree : ~Along(z, m)
          /\ tree[n] # Folder \/ tree2[n] = Folder \/ IsEmpty(tree, n)
      BY <2>1, <2>2, <2>3, <2>5 DEF Works, IsEmptyFolder, Made, Along, Trashes
    <3>2. Closed(tree2)
      BY <1>1, <2>2, <2>3, <3>1, ClosedPut
    <3> QED BY <1>3, <2>2, <2>3, <2>4, <3>2
  <2>6. CASE z.kind \in {"remove", "rmdir"}
    <3>1. tree2[n] = Absent
      BY <2>3, <2>6 DEF Made
    <3>2. ASSUME NEW m \in Tree, Inside(m, n) PROVE tree2[m] = Absent
      <4>1. CASE Trashes(z)
        BY <2>1, <2>3, <3>2, <4>1 DEF Along
      <4>2. CASE ~Trashes(z)
        <5>1. IsFile(tree[n]) \/ IsEmpty(tree, n)
          BY <2>1, <2>2, <2>3, <2>6, <4>2 DEF Works, Removable, IsEmptyFolder
        <5>2. tree[m] = Absent
          BY <1>1, <2>2, <3>2, <5>1, EntryFacts DEF Closed, IsEmpty
        <5> QED BY <2>1, <2>3, <3>2, <4>2, <5>2 DEF Along, Inside
      <4> QED BY <4>1, <4>2
    <3>3. \A m, f \in Tree : Inside(m, f) /\ tree2[f] # tree[f] => tree2[m] = Absent
      <4>1. \A f \in Tree : tree2[f] # tree[f] => f = n \/ Inside(f, n)
        BY <2>1, <2>3 DEF Along
      <4> QED BY <3>2, <4>1, TreeAssumption
    <3>4. \A m \in Tree : tree2[m] = tree[m] \/ tree2[m] = Absent
      BY <2>3, <3>1
    <3>5. Closed(tree2)
      BY <1>1, <2>2, <3>3, <3>4, ClosedCut
    <3> QED BY <1>3, <2>2, <2>3, <2>4, <3>5
  <2> QED BY <2>3, <2>5, <2>6 DEF StepTypes
<1>11. CASE UNCHANGED syncVars
  BY <1>2, <1>11 DEF syncVars, TreesAreClosed
<1> QED BY <1>4, <1>5, <1>6, <1>7, <1>8, <1>9, <1>10, <1>11 DEF SyncNext

LEMMA ClosedStarts == SyncInit => TreesAreClosed
<1> SUFFICES ASSUME SyncInit PROVE TreesAreClosed
  OBVIOUS
<1>1. (\A s \in Sides : side[s] = Nowhere) /\ run.pc = "idle"
  BY IdleFacts DEF SyncInit
<1>2. Closed(Nowhere)
  BY NowhereFacts DEF Closed
<1> QED BY <1>1, <1>2 DEF TreesAreClosed

-----------------------------------------------------------------------------
(***************************************************************************)
(* Syncs.  An undisturbed run: there is one step for a path, which fits    *)
(* what is there while it is to be done, and when there is none the sides  *)
(* are alike.                                                              *)
(***************************************************************************)
Once == \A z, y \in run.todo : z.path = y.path => z = y
OneSided(n) ==
    \/ direction = "push" /\ run.seen["local"][n] = Absent
    \/ direction = "pull" /\ run.seen["remote"][n] = Absent
PathOK(n) ==
    /\ \A z \in run.todo : z.path = n => Fits(run.seen, z) /\ \A s \in Sides : side[s][n] = run.seen[s][n]
    /\ n \notin run.broken /\ (\A z \in run.todo : z.path # n) =>
         Same(side["local"][n], side["remote"][n]) \/ OneSided(n)
QuietInv ==
    /\ TreeTypes
    /\ run.pc = "executes" => Once
    /\ run.quiet /\ run.pc = "lists" => side["local"] = run.seen["local"]
    /\ run.quiet /\ run.pc = "executes" => \A n \in Tree : PathOK(n)

LEMMA PlanIsOfWhatIsSeen ==
    ASSUME QuietInv, ListsRemote PROVE QuietInv'
<1>1. PICK tree \in [Sides -> Trees] : tree = run'.seen
  BY ListsRemoteFacts DEF QuietInv
<1>2. PICK last \in Trees, todo \in SUBSET StepTypes : todo = run'.todo /\ last = run.last
  BY ListsRemoteFacts DEF QuietInv, TreeTypes, RunTypes
<1>3. /\ TreeTypes' /\ run'.pc = "executes" /\ direction' = direction /\ side' = side
      /\ run'.broken = Clashes(tree["local"], tree["remote"])
      /\ tree["local"] = run.seen["local"] /\ tree["remote"] = side["remote"] /\ run.pc = "lists"
      /\ run'.quiet = run.quiet
  BY <1>1, ListsRemoteFacts DEF QuietInv
<1>4. PICK del \in BOOLEAN :
        /\ direction = "push" => todo = OneWay(tree["local"], tree["remote"], "remote", del)
        /\ direction = "pull" => todo = OneWay(tree["remote"], tree["local"], "local", del)
        /\ direction \notin {"push", "pull"} => todo = Both(tree, last, del)
  BY <1>1, <1>2, ListsRemoteFacts DEF QuietInv
<1>5. Clashes(tree["local"], tree["remote"]) = Clashes(tree["remote"], tree["local"])
  BY DEF Clashes
<1>6. \A n \in Tree : \A s \in Sides : tree[s][n] \in Entries
  BY DEF Trees
<1>7. /\ \A z, y \in todo : z.path = y.path => z = y
      /\ \A z \in todo : Fits(tree, z)
      /\ \A n \in Tree \ Clashes(tree["local"], tree["remote"]) :
           (\A z \in todo : z.path # n) =>
             \/ Same(tree["local"][n], tree["remote"][n])
             \/ direction = "push" /\ tree["local"][n] = Absent
             \/ direction = "pull" /\ tree["remote"][n] = Absent
  <2>1. CASE direction = "push"
    <3>1. todo = OneWay(tree[Other("remote")], tree["remote"], "remote", del) /\ "remote" \in Sides
      BY <1>4, <2>1, SidesAre
    <3>2. /\ \A z, y \in todo : z.path = y.path => z = y
          /\ \A z \in todo : Fits(tree, z)
      BY <3>1, OneWayOnce, OneWayFacts
    <3>3. ASSUME NEW n \in Tree \ Clashes(tree["local"], tree["remote"]), \A z \in todo : z.path # n,
                 tree["local"][n] # Absent
          PROVE  Same(tree["local"][n], tree["remote"][n])
      BY <3>1, <3>3, OneWayCovers, SidesAre
    <3> QED BY <2>1, <3>2, <3>3
  <2>2. CASE direction = "pull"
    <3>1. todo = OneWay(tree[Other("local")], tree["local"], "local", del) /\ "local" \in Sides
      BY <1>4, <2>2, SidesAre
    <3>2. /\ \A z, y \in todo : z.path = y.path => z = y
          /\ \A z \in todo : Fits(tree, z)
      BY <3>1, OneWayOnce, OneWayFacts
    <3>3. ASSUME NEW n \in Tree \ Clashes(tree["local"], tree["remote"]), \A z \in todo : z.path # n,
                 tree["remote"][n] # Absent
          PROVE  Same(tree["local"][n], tree["remote"][n])
      <4>1. Same(tree["remote"][n], tree["local"][n])
        BY <1>5, <3>1, <3>3, OneWayCovers, SidesAre
      <4> QED BY <1>6, <4>1, SameFacts, SidesAre
    <3> QED BY <2>2, <3>2, <3>3
  <2>3. CASE direction \notin {"push", "pull"}
    <3>1. todo = Both(tree, last, del)
      BY <1>4, <2>3
    <3>2. /\ \A z, y \in todo : z.path = y.path => z = y
          /\ \A z \in todo : Fits(tree, z)
      BY <3>1, BothOnce, BothFacts
    <3>3. \A n \in Tree \ Clashes(tree["local"], tree["remote"]) :
            (\A z \in todo : z.path # n) => Same(tree["local"][n], tree["remote"][n])
      BY <3>1, BothCovers
    <3> QED BY <3>2, <3>3
  <2> QED BY <2>1, <2>2, <2>3
<1>8. Once'
  BY <1>2, <1>7 DEF Once
<1>9. ASSUME run'.quiet, NEW n \in Tree PROVE PathOK(n)'
  <2>1. side["local"] = tree["local"]
    BY <1>3, <1>9 DEF QuietInv
  <2>2. \A s \in Sides : side'[s][n] = tree[s][n]
    BY <1>3, <2>1, SidesAre
  <2>3. n \notin run'.broken => n \in Tree \ Clashes(tree["local"], tree["remote"])
    BY <1>3
  <2> QED BY <1>1, <1>2, <1>3, <1>7, <2>2, <2>3, SidesAre DEF PathOK, OneSided
<1> QED BY <1>3, <1>8, <1>9 DEF QuietInv

LEMMA StepMakesAlike ==
    ASSUME QuietInv, TreesAreClosed, NEW z \in run.todo, Does(z) PROVE QuietInv'
<1>1. TreeTypes
  BY DEF QuietInv
<1>2. PICK s \in Sides, n \in Tree : s = z.to /\ n = z.path
  BY <1>1, DoesFacts DEF StepTypes
<1>3. /\ TreeTypes' /\ z \in StepTypes /\ run.pc = "executes" /\ run'.pc = "executes" /\ direction' = direction
      /\ side'[s][n] = Made(z) /\ run'.seen = run.seen /\ run'.todo = run.todo \ {z}
      /\ run'.broken \in {run.broken, run.broken \union {n}} /\ run'.quiet = run.quiet
  BY <1>1, <1>2, DoesFacts
<1>4. ASSUME run'.quiet, NEW o \in Sides, NEW i \in Tree, o # s \/ i # n PROVE side'[o][i] = side[o][i]
  <2>1. Fits(run.seen, z) /\ side[s][n] = run.seen[s][n]
    BY <1>2, <1>3, <1>4 DEF QuietInv, PathOK
  <2>2. CASE Along(z, i) /\ o = s
    <3>1. IsFile(side[s][n]) /\ Inside(i, n)
      BY <1>2, <2>1, <2>2 DEF Along, Trashes, Fits
    <3>2. side[s][i] = Absent
      BY <3>1, EntryFacts DEF TreesAreClosed, Closed
    <3> QED BY <1>1, <1>2, <2>2, <3>2, DoesFacts
  <2>3. CASE ~(Along(z, i) /\ o = s)
    <3>1. o # z.to \/ (i # z.path /\ ~Along(z, i))
      BY <1>2, <1>4, <2>3
    <3> QED BY <1>1, <3>1, DoesFacts
  <2> QED BY <2>2, <2>3
<1>5. Once /\ Once'
  BY <1>3 DEF QuietInv, Once
<1>6. ASSUME run'.quiet, NEW i \in Tree PROVE PathOK(i)'
  <2>1. PathOK(i)
    BY <1>3, <1>6 DEF QuietInv
  <2>2. CASE i # n
    <3>1. \A o \in Sides : side'[o][i] = side[o][i]
      BY <1>4, <1>6, <2>2
    <3> QED BY <1>2, <1>3, <2>1, <2>2, <3>1, SidesAre DEF PathOK, OneSided
  <2>3. CASE i = n
    <3>1. Fits(run.seen, z) /\ \A o \in Sides : side[o][n] = run.seen[o][n]
      BY <1>2, <2>1, <2>3 DEF PathOK
    <3>2. Other(s) \in Sides /\ Other(s) # s /\ side[s][n] \in Entries /\ side[Other(s)][n] \in Entries
      BY <1>1, SidesAre DEF TreeTypes, Trees
    <3>3. PICK e \in Entries, f \in Entries : e = Made(z) /\ f = side[Other(s)][n]
      <4>1. Made(z) \in Entries
        BY <1>2, <1>3 DEF TreeTypes, Trees
      <4> QED BY <3>2, <4>1
    <3>4. z.kind \in {"mkdir", "copy", "remove", "rmdir"}
      BY <1>3 DEF StepTypes
    <3>5. CASE z.kind = "copy"
      <4>1. IsFile(f) /\ z.entry = f
        BY <1>2, <3>1, <3>2, <3>3, <3>5 DEF Fits
      <4>2. e = File(Content(f), Mod(f))
        BY <1>2, <3>3, <3>5, <4>1 DEF Made
      <4>3. e = f
        BY <3>3, <4>2, EntryFacts
      <4>4. side'[s][n] = side'[Other(s)][n]
        BY <1>3, <1>4, <1>6, <3>2, <3>3, <4>3
      <4> QED BY <1>2, <1>3, <1>5, <2>3, <3>3, <4>3, <4>4, <3>2, SidesAre, SameFacts DEF PathOK, Once, Same
    <3>6. CASE z.kind # "copy"
      <4>1. e = f
        BY <1>2, <3>1, <3>2, <3>3, <3>4, <3>6 DEF Fits, Made
      <4>2. side'[s][n] = side'[Other(s)][n]
        BY <1>3, <1>4, <1>6, <3>2, <3>3, <4>1
      <4> QED BY <1>2, <1>3, <1>5, <2>3, <3>2, <4>2, SidesAre DEF PathOK, Once, Same
    <3> QED BY <3>5, <3>6
  <2> QED BY <2>2, <2>3
<1> QED BY <1>3, <1>5, <1>6 DEF QuietInv

LEMMA QuietStays == ASSUME QuietInv, TreesAreClosed, [SyncNext]_syncVars PROVE QuietInv'
<1>1. TreeTypes
  BY DEF QuietInv
<1>2. CASE ListsLocal
  <2>1. TreeTypes' /\ run'.pc = "lists" /\ run'.seen["local"] = side["local"] /\ side' = side
    BY <1>1, <1>2, ListsLocalFacts
  <2> QED BY <2>1 DEF QuietInv
<1>3. CASE ListsRemote
  BY <1>3, PlanIsOfWhatIsSeen
<1>4. CASE Ends \/ Stops
  <2>1. TreeTypes' /\ run'.pc = "idle"
    BY <1>1, <1>4, RunIsOver, IdleFacts
  <2> QED BY <2>1 DEF QuietInv
<1>5. ASSUME NEW z \in run.todo, Does(z) PROVE QuietInv'
  BY <1>5, StepMakesAlike
<1>6. ASSUME NEW z \in run.todo, Breaks(z) PROVE QuietInv'
  <2>1. /\ TreeTypes' /\ run.pc = "executes" /\ run'.pc = "executes" /\ side' = side /\ direction' = direction
        /\ run'.seen = run.seen /\ run'.todo = run.todo \ {z} /\ run'.broken = run.broken \union {z.path}
        /\ run'.quiet = run.quiet
    BY <1>1, <1>6, BreaksFacts
  <2>2. Once'
    BY <2>1 DEF QuietInv, Once
  <2>3. ASSUME run'.quiet, NEW n \in Tree PROVE PathOK(n)'
    <3>1. PathOK(n)
      BY <2>1, <2>3 DEF QuietInv
    <3> QED BY <2>1, <3>1 DEF PathOK, OneSided
  <2> QED BY <2>1, <2>2, <2>3 DEF QuietInv
<1>7. ASSUME NEW s \in Sides, NEW n \in Tree, Edits(s, n) \/ MakesFolder(s, n) \/ RemovesAll(s, n) PROVE QuietInv'
  <2>1. TreeTypes' /\ run' = [run EXCEPT !.quiet = FALSE] /\ ~run'.quiet
    BY <1>1, <1>7, PeopleFacts
  <2>2. run'.todo = run.todo /\ run'.pc = run.pc
    BY <1>1, <2>1 DEF TreeTypes, RunTypes
  <2>3. run'.pc = "executes" => Once'
    BY <2>2 DEF QuietInv, Once
  <2> QED BY <2>1, <2>3 DEF QuietInv
<1>8. CASE UNCHANGED syncVars
  BY <1>8 DEF QuietInv, TreeTypes, Once, PathOK, OneSided, syncVars, people, settings
<1> QED BY <1>2, <1>3, <1>4, <1>5, <1>6, <1>7, <1>8 DEF SyncNext

LEMMA QuietIsAlike == QuietInv => AlikeAfterwards
  BY DEF QuietInv, PathOK, OneSided, AlikeAfterwards

-----------------------------------------------------------------------------
(***************************************************************************)
(* Syncs.  What is known of the files in a sync both ways.  There is a     *)
(* file, or people removed it; of a time both sides have, one has it that  *)
(* is on both, and of one that is gone from both, none.                    *)
(***************************************************************************)
There(s, n) == IsFile(side[s][n]) \/ n \in removed[s]
Has(s, n, m) == IsFile(side[s][n]) /\ Mod(side[s][n]) = m
Alike(n, m) == \A s \in Sides : There(s, n) /\ (Has(s, n, m) => Content(side[s][n]) \in shared[n])
Unlike(n, m) == \A s \in Sides : ~Has(s, n, m)
Known(e) == IsFile(e) => Mod(e) <= Content(e) /\ Content(e) <= edits

FileOK(n) ==
    \A s \in Sides :
      /\ Known(side[s][n])
      /\ IsFile(side[s][n]) /\ Content(side[s][n]) # Mod(side[s][n]) => Content(side[s][n]) \in shared[n]
PairOK(n) == SameMod(side, n) => Alike(n, Mod(side["local"][n]))
SnapOK(n) ==
    /\ Known(snapshot[n])
    /\ IsFile(snapshot[n]) => Alike(n, Mod(snapshot[n])) \/ Unlike(n, Mod(snapshot[n]))
LastOK ==
    /\ run.pc # "idle" => run.last \in {snapshot, Nowhere}
    /\ run.pc = "lists" => run.made = Nowhere
(* What may come here in its place is not what was kept of the last run.    *)
Loose(n) ==
    IsFile(snapshot[n]) =>
      /\ ~Has("local", n, Mod(snapshot[n]))
      /\ n \in removed["local"] \/ ~Has("remote", n, Mod(snapshot[n]))
(* What was listed here, before what is there is.                           *)
ListsOK(n) ==
    LET here == run.seen["local"][n] IN
      /\ Known(here)
      /\ IsFile(here) =>
           /\ There("local", n) /\ (Has("local", n, Mod(here)) => side["local"][n] = here)
           /\ IsFile(side["local"][n]) => Mod(here) <= Content(side["local"][n])
           /\ Has("remote", n, Mod(here)) => Alike(n, Mod(here))
           /\ IsFile(snapshot[n]) /\ Mod(snapshot[n]) = Mod(here) => Alike(n, Mod(here))
      /\ ~IsFile(here) => Loose(n)
ExecOK(n) ==
    /\ Known(run.made[n]) /\ (IsFile(run.made[n]) => Alike(n, Mod(run.made[n])))
    /\ SameMod(run.seen, n) => Known(run.seen["local"][n]) /\ Alike(n, Mod(run.seen["local"][n]))
    /\ (\A s \in Sides : run.seen[s][n] = Absent) => ~IsFile(run.made[n])
StepOK(z) ==
    /\ Fits(run.seen, z) /\ Replaces(run.seen, run.last, z) /\ ~SameMod(run.seen, z.path)
    /\ z.kind = "copy" =>
         /\ Known(z.entry)
         /\ IsFile(side[Other(z.to)][z.path]) => Mod(z.entry) <= Content(side[Other(z.to)][z.path])
    /\ z.kind = "remove" =>
         /\ z.path \in removed[Other(z.to)]
         /\ IsFile(snapshot[z.path]) => ~Has(Other(z.to), z.path, Mod(snapshot[z.path]))
(* What goes here although nobody removed it was not there when the plan    *)
(* was made.                                                                *)
StrayOK(z) ==
    z.to = "local" =>
      /\ z.kind = "rmdir" => Loose(z.path)
      /\ z.kind = "remove" =>
           \A n \in Tree : Inside(n, z.path) => Loose(n) /\ \A s \in Sides : run.seen[s][n] = Absent
SyncInv ==
    /\ TreeTypes /\ LastOK
    /\ \A n \in Tree : FileOK(n) /\ PairOK(n) /\ SnapOK(n)
    /\ run.pc = "lists" => \A n \in Tree : ListsOK(n)
    /\ run.pc = "executes" => Once /\ (\A n \in Tree : ExecOK(n)) /\ \A z \in run.todo : StepOK(z) /\ StrayOK(z)

LEMMA SyncInvStarts == SyncInit => SyncInv
<1> SUFFICES ASSUME SyncInit PROVE SyncInv
  OBVIOUS
<1>1. TreeTypes
  BY SyncStarts
<1>2. /\ side = [s \in Sides |-> Nowhere] /\ snapshot = Nowhere /\ run = Idle
  BY DEF SyncInit
<1>3. \A n \in Tree : ~IsFile(snapshot[n]) /\ \A s \in Sides : ~IsFile(side[s][n])
  BY <1>2, NowhereFacts, EntryFacts
<1>4. run.pc = "idle"
  BY <1>2, IdleFacts
<1> QED BY <1>1, <1>3, <1>4, SidesAre DEF SyncInv, LastOK, FileOK, PairOK, SnapOK, Known, SameMod

(* What a step does to one path that is no copy and removes no file of the  *)
(* run: a file of a new time may come on one side, and one may go.          *)
Gentle(n) ==
    /\ edits' \in Nat /\ edits <= edits' /\ shared[n] \subseteq shared'[n]
    /\ \E s \in Sides : side'[s][n] = side[s][n]
    /\ \A s \in Sides :
         /\ There(s, n) => There(s, n)'
         /\ \/ side'[s][n] = side[s][n]
            \/ side'[s][n] = New /\ edits' = edits + 1
            \/ ~IsFile(side'[s][n])

LEMMA NewFacts ==
    ASSUME TreeTypes PROVE Mod(New) = edits + 1 /\ Content(New) = edits + 1 /\ edits \in Nat
<1>1. edits \in Nat /\ edits + 1 \in Nat \ {0} /\ edits + 1 \in Nat
  BY DEF TreeTypes
<1> QED BY <1>1, EntryFacts DEF New

LEMMA HasStays ==
    ASSUME TreeTypes, NEW n \in Tree, NEW s \in Sides, NEW m \in Nat, m <= edits, Gentle(n), Has(s, n, m)'
    PROVE  Has(s, n, m) /\ side'[s][n] = side[s][n]
<1>1. Mod(New) = edits + 1 /\ edits \in Nat
  BY NewFacts
<1> QED BY <1>1 DEF Has, Gentle

LEMMA AlikeStays ==
    ASSUME TreeTypes, NEW n \in Tree, NEW m \in Nat, m <= edits, Gentle(n)
    PROVE  (Alike(n, m) => Alike(n, m)') /\ (Unlike(n, m) => Unlike(n, m)')
<1>1. \A s \in Sides : Has(s, n, m)' => Has(s, n, m) /\ side'[s][n] = side[s][n]
  BY HasStays
<1> QED BY <1>1 DEF Gentle, Alike, Unlike

LEMMA KnownFacts ==
    ASSUME TreeTypes, NEW e \in Entries, Known(e)
    PROVE  /\ edits' \in Nat /\ edits <= edits' => Known(e)'
           /\ IsFile(e) => Mod(e) \in Nat /\ Content(e) \in Nat /\ Mod(e) <= edits
<1>1. edits \in Nat /\ Mod(e) \in Nat /\ Content(e) \in Nat
  BY EntryFacts DEF TreeTypes
<1> QED BY <1>1 DEF Known

LEMMA EntriesAre ==
    ASSUME TreeTypes, NEW n \in Tree
    PROVE  /\ \A s \in Sides : side[s][n] \in Entries /\ run.seen[s][n] \in Entries
           /\ snapshot[n] \in Entries /\ run.made[n] \in Entries /\ run.last[n] \in Entries
  BY DEF TreeTypes, RunTypes, Trees

LEMMA GentleKeeps ==
    ASSUME TreeTypes, NEW n \in Tree, Gentle(n), FileOK(n), PairOK(n)
    PROVE  FileOK(n)' /\ PairOK(n)'
<1>1. edits \in Nat /\ \A s \in Sides : side[s][n] \in Entries
  BY EntriesAre DEF TreeTypes
<1>2. ASSUME NEW s \in Sides
      PROVE  /\ Known(side[s][n])'
             /\ IsFile(side'[s][n]) /\ Content(side'[s][n]) # Mod(side'[s][n]) => Content(side'[s][n]) \in shared'[n]
  <2>1. CASE side'[s][n] = side[s][n]
    <3>1. PICK e \in Entries : e = side[s][n]
      BY <1>1
    <3>2. Known(e) /\ (IsFile(e) /\ Content(e) # Mod(e) => Content(e) \in shared[n])
      BY <3>1 DEF FileOK
    <3>3. Known(e)'
      BY <3>2, KnownFacts DEF Gentle
    <3> QED BY <2>1, <3>1, <3>2, <3>3 DEF Gentle, Known
  <2>2. CASE side'[s][n] = New /\ edits' = edits + 1
    BY <1>1, <2>2, EntryFacts DEF New, Known
  <2>3. CASE ~IsFile(side'[s][n])
    BY <2>3 DEF Known
  <2> QED BY <2>1, <2>2, <2>3 DEF Gentle
<1>3. ASSUME SameMod(side, n)' PROVE Alike(n, Mod(side["local"][n]))'
  <2>1. PICK o \in Sides : side'[o][n] = side[o][n]
    BY DEF Gentle
  <2>2. PICK e \in Entries : e = side[o][n]
    BY <1>1
  <2>3. IsFile(e) /\ Mod(e) = Mod(side'["local"][n]) /\ Known(e)
    BY <1>3, <2>1, <2>2, SidesAre DEF SameMod, FileOK
  <2>4. PICK m \in Nat : m = Mod(e) /\ m <= edits
    BY <2>3, KnownFacts
  <2>5. \A s \in Sides : Has(s, n, m)'
    BY <1>3, <2>3, <2>4, SidesAre DEF SameMod, Has
  <2>6. \A s \in Sides : Has(s, n, m)
    BY <2>4, <2>5, HasStays
  <2>7. Alike(n, m)
    BY <2>6, SidesAre DEF Has, PairOK, SameMod
  <2>8. Alike(n, m)'
    BY <2>4, <2>7, AlikeStays
  <2> QED BY <2>3, <2>4, <2>8 DEF Alike, Has, There
<1> QED BY <1>2, <1>3 DEF FileOK, PairOK

LEMMA GentleKeepsSnapshot ==
    ASSUME TreeTypes, NEW n \in Tree, Gentle(n), SnapOK(n), snapshot' = snapshot
    PROVE  SnapOK(n)'
<1>1. PICK e \in Entries : e = snapshot[n]
  BY EntriesAre
<1>2. Known(e) /\ Known(e)'
  BY <1>1, KnownFacts DEF SnapOK, Gentle
<1>3. IsFile(e) => Mod(e) \in Nat /\ Mod(e) <= edits
  BY <1>2, KnownFacts
<1>4. ASSUME IsFile(e) PROVE Alike(n, Mod(e))' \/ Unlike(n, Mod(e))'
  <2>1. PICK m \in Nat : m = Mod(e) /\ m <= edits
    BY <1>3, <1>4
  <2>2. Alike(n, m) \/ Unlike(n, m)
    BY <1>1, <1>4, <2>1 DEF SnapOK
  <2>3. Alike(n, m)' \/ Unlike(n, m)'
    BY <2>1, <2>2, AlikeStays
  <2> QED BY <2>1, <2>3
<1> QED BY <1>1, <1>2, <1>4 DEF SnapOK, Known, Alike, Unlike, Has, There

LEMMA GentleKeepsLoose ==
    ASSUME TreeTypes, NEW n \in Tree, Gentle(n), SnapOK(n), Loose(n), snapshot' = snapshot,
           n \in removed["local"] => n \in removed'["local"]
    PROVE  Loose(n)'
<1> SUFFICES ASSUME IsFile(snapshot[n])
             PROVE  /\ ~Has("local", n, Mod(snapshot[n]))'
                    /\ n \in removed'["local"] \/ ~Has("remote", n, Mod(snapshot[n]))'
  BY DEF Loose
<1>1. PICK e \in Entries : e = snapshot[n]
  BY EntriesAre
<1>2. PICK m \in Nat : m = Mod(e) /\ m <= edits
  BY <1>1, KnownFacts DEF SnapOK
<1>3. \A s \in Sides : Has(s, n, m)' => Has(s, n, m)
  BY <1>2, HasStays
<1>4. ~Has("local", n, m)' /\ (n \in removed'["local"] \/ ~Has("remote", n, m)')
  BY <1>1, <1>2, <1>3, SidesAre DEF Loose
<1> QED BY <1>1, <1>2, <1>4 DEF Has

LEMMA GentleKeepsListed ==
    ASSUME TreeTypes, NEW n \in Tree, Gentle(n), SnapOK(n), ListsOK(n), snapshot' = snapshot, run'.seen = run.seen,
           n \in removed["local"] => n \in removed'["local"]
    PROVE  ListsOK(n)'
<1>1. PICK here \in Entries, e \in Entries : here = run.seen["local"][n] /\ e = snapshot[n]
  BY EntriesAre, SidesAre
<1>2. Known(here) /\ Known(here)' /\ Known(e)
  BY <1>1, KnownFacts DEF ListsOK, SnapOK, Gentle
<1>3. "local" \in Sides /\ "remote" \in Sides
  BY SidesAre
<1>4. ASSUME IsFile(here)
      PROVE  /\ There("local", n)' /\ (Has("local", n, Mod(here))' => side'["local"][n] = here)
             /\ IsFile(side'["local"][n]) => Mod(here) <= Content(side'["local"][n])
             /\ Has("remote", n, Mod(here))' => Alike(n, Mod(here))'
             /\ IsFile(e) /\ Mod(e) = Mod(here) => Alike(n, Mod(here))'
  <2>1. PICK m \in Nat : m = Mod(here) /\ m <= edits
    BY <1>2, <1>4, KnownFacts
  <2>2. /\ There("local", n) /\ (Has("local", n, m) => side["local"][n] = here)
        /\ IsFile(side["local"][n]) => m <= Content(side["local"][n])
        /\ Has("remote", n, m) => Alike(n, m)
        /\ IsFile(e) /\ Mod(e) = m => Alike(n, m)
    BY <1>1, <1>4, <2>1 DEF ListsOK
  <2>3. Alike(n, m) => Alike(n, m)'
    BY <2>1, AlikeStays
  <2>4. \A s \in Sides : Has(s, n, m)' => Has(s, n, m) /\ side'[s][n] = side[s][n]
    BY <2>1, HasStays
  <2>5. IsFile(side'["local"][n]) => m <= Content(side'["local"][n])
    <3>1. Content(New) = edits + 1 /\ edits \in Nat
      BY NewFacts
    <3> QED BY <1>3, <2>1, <2>2, <3>1 DEF Gentle
  <2>6. There("local", n)'
    BY <1>3, <2>2 DEF Gentle
  <2> QED BY <1>3, <2>1, <2>2, <2>3, <2>4, <2>5, <2>6
<1>5. ~IsFile(here) => Loose(n)'
  BY <1>1, GentleKeepsLoose DEF ListsOK
<1> QED BY <1>1, <1>2, <1>4, <1>5 DEF ListsOK, Known, Alike, Has, There

LEMMA GentleKeepsDone ==
    ASSUME TreeTypes, NEW n \in Tree, Gentle(n), ExecOK(n), run'.seen = run.seen, run'.made[n] = run.made[n]
    PROVE  ExecOK(n)'
<1>1. PICK here \in Entries, e \in Entries : here = run.seen["local"][n] /\ e = run.made[n]
  BY EntriesAre, SidesAre
<1>2. \A f \in Entries : Known(f) /\ (IsFile(f) => Alike(n, Mod(f))) => Known(f)' /\ (IsFile(f) => Alike(n, Mod(f))')
  <2>1. SUFFICES ASSUME NEW f \in Entries, Known(f), IsFile(f) => Alike(n, Mod(f))
                 PROVE  Known(f)' /\ (IsFile(f) => Alike(n, Mod(f))')
    OBVIOUS
  <2>2. Known(f)' /\ (IsFile(f) => Mod(f) \in Nat /\ Mod(f) <= edits)
    BY <2>1, KnownFacts DEF Gentle
  <2>3. ASSUME IsFile(f) PROVE Alike(n, Mod(f))'
    <3>1. PICK m \in Nat : m = Mod(f) /\ m <= edits
      BY <2>2, <2>3
    <3>2. Alike(n, m)'
      BY <2>1, <2>3, <3>1, AlikeStays
    <3> QED BY <3>1, <3>2 DEF Alike, Has, There
  <2> QED BY <2>2, <2>3
<1>3. Known(e) /\ (IsFile(e) => Alike(n, Mod(e)))
  BY <1>1 DEF ExecOK
<1>4. Known(e)' /\ (IsFile(e) => Alike(n, Mod(e))')
  BY <1>2, <1>3
<1>5. SameMod(run.seen, n) => Known(here) /\ Alike(n, Mod(here))
  BY <1>1 DEF ExecOK
<1>6. SameMod(run.seen, n) => Known(here)' /\ Alike(n, Mod(here))'
  <2>1. SameMod(run.seen, n) => IsFile(here)
    BY <1>1 DEF SameMod
  <2> QED BY <1>2, <1>5, <2>1
<1>7. ((\A s \in Sides : run.seen[s][n] = Absent) => ~IsFile(run.made[n]))'
  BY DEF ExecOK
<1> QED BY <1>1, <1>4, <1>6, <1>7 DEF ExecOK, Known, Alike, Has, There, SameMod

LEMMA GentleKeepsStep ==
    ASSUME TreeTypes, NEW z \in StepTypes, Gentle(z.path), SnapOK(z.path), StepOK(z), snapshot' = snapshot,
           run'.seen = run.seen, run'.last = run.last, \A s \in Sides : removed[s] \subseteq removed'[s]
    PROVE  StepOK(z)'
<1>1. PICK n \in Tree, s \in Sides, e \in Entries, f \in Entries :
        n = z.path /\ s = Other(z.to) /\ e = z.entry /\ f = snapshot[n]
  BY EntriesAre, SidesAre DEF StepTypes
<1>2. Fits(run.seen, z)' /\ Replaces(run.seen, run.last, z)' /\ ~SameMod(run.seen, z.path)'
  BY DEF StepOK, Fits, Replaces, SameMod
<1>3. ASSUME z.kind = "copy"
      PROVE  Known(e)' /\ (IsFile(side'[s][n]) => Mod(e) <= Content(side'[s][n]))
  <2>1. IsFile(e) /\ Known(e) /\ (IsFile(side[s][n]) => Mod(e) <= Content(side[s][n]))
    BY <1>1, <1>3 DEF StepOK, Fits
  <2>2. Known(e)' /\ Mod(e) \in Nat /\ Mod(e) <= edits
    BY <1>1, <2>1, KnownFacts DEF Gentle
  <2>3. Content(New) = edits + 1 /\ edits \in Nat
    BY NewFacts
  <2> QED BY <1>1, <2>1, <2>2, <2>3 DEF Gentle
<1>4. ASSUME z.kind = "remove"
      PROVE  n \in removed'[s] /\ (IsFile(f) => ~Has(s, n, Mod(f))')
  <2>1. n \in removed[s] /\ (IsFile(f) => ~Has(s, n, Mod(f)))
    BY <1>1, <1>4 DEF StepOK
  <2>2. ASSUME IsFile(f) PROVE ~Has(s, n, Mod(f))'
    <3>1. PICK m \in Nat : m = Mod(f) /\ m <= edits
      BY <1>1, <2>2, KnownFacts DEF SnapOK
    <3>2. ~Has(s, n, m)
      BY <2>1, <2>2, <3>1
    <3>3. ~Has(s, n, m)'
      BY <1>1, <3>1, <3>2, HasStays
    <3> QED BY <3>1, <3>3 DEF Has
  <2> QED BY <2>1, <2>2
<1> QED BY <1>1, <1>2, <1>3, <1>4 DEF StepOK, Known, Has

LEMMA GentleKeepsStray ==
    ASSUME TreeTypes, \A n \in Tree : Gentle(n) /\ SnapOK(n), NEW z \in StepTypes, StrayOK(z), snapshot' = snapshot,
           run'.seen = run.seen, removed["local"] \subseteq removed'["local"]
    PROVE  StrayOK(z)'
<1>1. \A n \in Tree : Loose(n) => Loose(n)'
  BY GentleKeepsLoose
<1>2. z.path \in Tree
  BY DEF StepTypes
<1> QED BY <1>1, <1>2 DEF StrayOK

(* A file of the run comes on one side: both have its time, and what it has *)
(* was on both.                                                             *)
Copied(n, s, m) ==
    /\ IsFile(side[Other(s)][n]) /\ m <= Content(side[Other(s)][n])
    /\ side'[s][n] = File(Content(side[Other(s)][n]), m) /\ side'[Other(s)][n] = side[Other(s)][n]
    /\ Content(side[Other(s)][n]) \in shared'[n] /\ shared[n] \subseteq shared'[n]
    /\ removed' = removed /\ edits' = edits

LEMMA CopiedFacts ==
    ASSUME TreeTypes, NEW n \in Tree, NEW s \in Sides, NEW m \in Nat, Copied(n, s, m)
    PROVE  /\ IsFile(side'[s][n]) /\ Mod(side'[s][n]) = m /\ Content(side'[s][n]) = Content(side[Other(s)][n])
           /\ Content(side'[s][n]) \in Nat /\ Content(side'[s][n]) \in shared'[n]
           /\ \A o \in Sides : IsFile(side'[o][n]) /\ (o # s => o = Other(s))
<1>1. PICK f \in Entries : f = side[Other(s)][n]
  BY EntriesAre, SidesAre
<1>2. Content(f) \in Nat \ {0}
  BY <1>1, EntryFacts DEF Copied
<1>3. /\ IsFile(side'[s][n]) /\ Mod(side'[s][n]) = m /\ Content(side'[s][n]) = Content(f)
  BY <1>1, <1>2, EntryFacts DEF Copied
<1>4. \A o \in Sides : o # s => o = Other(s)
  BY SidesAre
<1> QED BY <1>1, <1>2, <1>3, <1>4 DEF Copied

LEMMA CopyIsAlike ==
    ASSUME TreeTypes, NEW n \in Tree, NEW s \in Sides, NEW m \in Nat, Copied(n, s, m)
    PROVE  \A k : Alike(n, k)'
<1>1. /\ Content(side'[s][n]) = Content(side[Other(s)][n])
      /\ \A o \in Sides : IsFile(side'[o][n]) /\ (o # s => o = Other(s))
  BY CopiedFacts
<1>2. \A o \in Sides : There(o, n)'
  BY <1>1 DEF There
<1>3. \A o \in Sides : Content(side'[o][n]) \in shared'[n]
  BY <1>1 DEF Copied
<1> QED BY <1>2, <1>3 DEF Alike

LEMMA CopyKeeps ==
    ASSUME TreeTypes, NEW n \in Tree, NEW s \in Sides, NEW m \in Nat, Copied(n, s, m), FileOK(n), SnapOK(n),
           snapshot' = snapshot
    PROVE  FileOK(n)' /\ PairOK(n)' /\ SnapOK(n)'
<1>1. PICK f \in Entries, e \in Entries : f = side[Other(s)][n] /\ e = snapshot[n]
  BY EntriesAre, SidesAre
<1>2. /\ IsFile(side'[s][n]) /\ Mod(side'[s][n]) = m /\ Content(side'[s][n]) = Content(f)
      /\ Content(f) \in Nat /\ Content(f) \in shared'[n] /\ \A o \in Sides : o # s => o = Other(s)
  BY <1>1, CopiedFacts
<1>3. IsFile(f) /\ m <= Content(f) /\ side'[Other(s)][n] = f /\ edits' = edits
  BY <1>1 DEF Copied
<1>4. Known(f) /\ Known(e)
  BY <1>1, SidesAre DEF FileOK, SnapOK
<1>5. FileOK(n)'
  BY <1>2, <1>3, <1>4 DEF FileOK, Known
<1>6. \A k : Alike(n, k)'
  BY CopyIsAlike
<1>7. PairOK(n)'
  BY <1>6 DEF PairOK, Alike, There, Has
<1>8. Known(e)'
  BY <1>3, <1>4 DEF Known
<1> QED BY <1>1, <1>5, <1>6, <1>7, <1>8 DEF SnapOK, Known, Alike, There, Has

(* A file of the run goes: neither side has its time then.                  *)
LEMMA RemovalKeeps ==
    ASSUME TreeTypes, NEW n \in Tree, NEW s \in Sides, side'[s][n] = Absent, side'[Other(s)][n] = side[Other(s)][n],
           shared[n] \subseteq shared'[n], edits' = edits, snapshot' = snapshot, FileOK(n), SnapOK(n),
           IsFile(snapshot[n]) => ~Has(Other(s), n, Mod(snapshot[n]))
    PROVE  FileOK(n)' /\ PairOK(n)' /\ SnapOK(n)'
<1>1. PICK f \in Entries, e \in Entries : f = side[Other(s)][n] /\ e = snapshot[n]
  BY EntriesAre, SidesAre
<1>2. ~IsFile(side'[s][n]) /\ side'[Other(s)][n] = f /\ edits' = edits /\ \A o \in Sides : o # s => o = Other(s)
  BY <1>1, EntryFacts, SidesAre
<1>3. Known(f) /\ Known(e) /\ (IsFile(f) /\ Content(f) # Mod(f) => Content(f) \in shared[n])
  BY <1>1, SidesAre DEF FileOK, SnapOK
<1>4. FileOK(n)'
  BY <1>2, <1>3 DEF FileOK, Known
<1>5. PairOK(n)'
  BY <1>2, SidesAre DEF PairOK, SameMod
<1>6. IsFile(e) => Unlike(n, Mod(e))'
  BY <1>1, <1>2 DEF Unlike, Has
<1> QED BY <1>1, <1>3, <1>4, <1>5, <1>6 DEF SnapOK, Known, Alike, Unlike, There, Has

(* A file that was put here goes: what was kept of the last run is still    *)
(* as it was.                                                               *)
LEMMA StrayKeeps ==
    ASSUME TreeTypes, NEW n \in Tree, side'["local"][n] = Absent, side'["remote"][n] = side["remote"][n],
           shared[n] \subseteq shared'[n], edits' = edits, snapshot' = snapshot, removed' = removed,
           FileOK(n), SnapOK(n), Loose(n)
    PROVE  FileOK(n)' /\ PairOK(n)' /\ SnapOK(n)' /\ Loose(n)'
<1>1. PICK f \in Entries, e \in Entries : f = side["remote"][n] /\ e = snapshot[n]
  BY EntriesAre, SidesAre
<1>2. ~IsFile(side'["local"][n]) /\ side'["remote"][n] = f /\ edits' = edits /\ snapshot'[n] = e
  BY <1>1, EntryFacts
<1>3. Known(f) /\ Known(e) /\ (IsFile(f) /\ Content(f) # Mod(f) => Content(f) \in shared[n])
  BY <1>1, SidesAre DEF FileOK, SnapOK
<1>4. FileOK(n)'
  BY <1>2, <1>3, SidesAre DEF FileOK, Known
<1>5. PairOK(n)'
  BY <1>2 DEF PairOK, SameMod
<1>6. ASSUME IsFile(e) PROVE Alike(n, Mod(e))' \/ Unlike(n, Mod(e))'
  <2>1. ~Has("local", n, Mod(e))' /\ (Has("remote", n, Mod(e))' <=> Has("remote", n, Mod(e)))
    BY <1>1, <1>2 DEF Has
  <2>2. CASE ~Has("remote", n, Mod(e))
    BY <2>1, <2>2, SidesAre DEF Unlike
  <2>3. CASE Has("remote", n, Mod(e))
    <3>1. n \in removed["local"]
      BY <1>1, <1>6, <2>3 DEF Loose
    <3>2. Alike(n, Mod(e))
      BY <1>1, <1>6, <2>3, SidesAre DEF SnapOK, Unlike
    <3> QED BY <1>1, <1>2, <2>1, <2>3, <3>1, <3>2, SidesAre DEF Alike, There, Has
  <2> QED BY <2>2, <2>3
<1>7. SnapOK(n)'
  BY <1>1, <1>3, <1>6 DEF SnapOK, Known, Alike, Unlike, There, Has
<1>8. Loose(n)'
  BY <1>1, <1>2 DEF Loose, Has
<1> QED BY <1>4, <1>5, <1>7, <1>8

LEMMA StepKeepsSync ==
    ASSUME SyncInv, NEW z \in run.todo, Does(z) PROVE SyncInv'
<1>1. TreeTypes /\ LastOK /\ \A i \in Tree : FileOK(i) /\ PairOK(i) /\ SnapOK(i)
  BY DEF SyncInv
<1>2. /\ TreeTypes' /\ z \in StepTypes /\ Works(z) /\ run.pc = "executes" /\ run'.pc = "executes"
      /\ snapshot' = snapshot /\ edits' = edits /\ removed' = removed
      /\ run'.seen = run.seen /\ run'.last = run.last /\ run'.todo = run.todo \ {z}
  BY <1>1, DoesFacts
<1>3. /\ \A o \in Sides, i \in Tree : o # z.to \/ (i # z.path /\ ~Along(z, i)) => side'[o][i] = side[o][i]
      /\ \A i \in Tree : Along(z, i) => side'[z.to][i] = Absent
      /\ \A i \in Tree : i # z.path => run'.made[i] = run.made[i]
      /\ \A i \in Tree : shared[i] \subseteq shared'[i]
  BY <1>1, DoesFacts
<1>4. Once /\ (\A i \in Tree : ExecOK(i)) /\ \A y \in run.todo : StepOK(y) /\ StrayOK(y)
  BY <1>2 DEF SyncInv
<1>5. edits \in Nat /\ edits' \in Nat /\ edits <= edits'
  BY <1>1, <1>2 DEF TreeTypes
<1>6. ASSUME NEW i \in Tree, i # z.path, ~Along(z, i) PROVE Gentle(i)
  <2>1. \A o \in Sides : side'[o][i] = side[o][i]
    BY <1>3, <1>6
  <2>2. \A o \in Sides : There(o, i) => There(o, i)'
    BY <1>2, <2>1 DEF There
  <2> QED BY <1>3, <1>5, <2>1, <2>2, SidesAre DEF Gentle
<1>7. PICK n \in Tree, s \in Sides : n = z.path /\ s = z.to
  BY <1>2 DEF StepTypes
<1>8. Other(s) \in Sides /\ Other(s) # s /\ side'[Other(s)][n] = side[Other(s)][n]
  BY <1>3, <1>7, SidesAre
<1>14. ASSUME NEW i \in Tree, Along(z, i)
       PROVE  /\ FileOK(i)' /\ PairOK(i)' /\ SnapOK(i)' /\ Loose(i)'
              /\ i # n /\ \A o \in Sides : run.seen[o][i] = Absent
  <2>1. s = "local" /\ z.kind = "remove" /\ Inside(i, n) /\ i # n
    BY <1>7, <1>14 DEF Along, Trashes, Inside
  <2>2. Loose(i) /\ \A o \in Sides : run.seen[o][i] = Absent
    BY <1>4, <1>7, <2>1 DEF StrayOK
  <2>3. side'["local"][i] = Absent /\ side'["remote"][i] = side["remote"][i]
    BY <1>3, <1>7, <1>14, <2>1, SidesAre
  <2> QED BY <1>1, <1>2, <1>3, <2>1, <2>2, <2>3, StrayKeeps
<1>15. ASSUME NEW i \in Tree, i # n, Loose(i) PROVE Loose(i)'
  <2>1. CASE Along(z, i)
    BY <1>14, <2>1
  <2>2. CASE ~Along(z, i)
    BY <1>1, <1>2, <1>6, <1>7, <1>15, <2>2, GentleKeepsLoose
  <2> QED BY <2>1, <2>2
<1>16. StepOK(z) /\ Fits(run.seen, z) /\ \E o \in Sides : run.seen[o][n] # Absent
  BY <1>2, <1>4, <1>7, <1>8, EntryFacts DEF StepOK, Fits, StepTypes
<1>9. FileOK(n)' /\ PairOK(n)' /\ SnapOK(n)'
  <2>1. side'[s][n] = Made(z) /\ z.kind \in {"mkdir", "copy", "remove", "rmdir"}
    BY <1>1, <1>2, <1>7, DoesFacts DEF StepTypes
  <2>2. CASE z.kind = "copy"
    <3>1. /\ IsFile(side[Other(s)][n]) /\ Content(Made(z)) \in shared'[n]
          /\ Made(z) = File(Content(side[Other(s)][n]), Mod(z.entry))
      BY <1>1, <1>7, <2>2, DoesFacts
    <3>2. z.entry \in Entries /\ side[Other(s)][n] \in Entries /\ StepOK(z)
      BY <1>1, <1>2, <1>4, <1>8, EntriesAre DEF StepTypes
    <3>3. Mod(z.entry) \in Nat /\ Mod(z.entry) <= Content(side[Other(s)][n])
      BY <1>7, <2>2, <3>1, <3>2, EntryFacts DEF StepOK
    <3>4. Content(Made(z)) = Content(side[Other(s)][n])
      BY <3>1, <3>2, <3>3, EntryFacts
    <3>5. Copied(n, s, Mod(z.entry))
      BY <1>2, <1>3, <1>8, <2>1, <3>1, <3>3, <3>4 DEF Copied
    <3> QED BY <1>1, <1>2, <3>3, <3>5, CopyKeeps
  <2>3. CASE z.kind = "remove"
    <3>1. side'[s][n] = Absent
      BY <2>1, <2>3 DEF Made
    <3>2. IsFile(snapshot[n]) => ~Has(Other(s), n, Mod(snapshot[n]))
      BY <1>4, <1>7, <2>3 DEF StepOK
    <3> QED BY <1>1, <1>2, <1>3, <1>8, <3>1, <3>2, RemovalKeeps
  <2>4. CASE z.kind = "mkdir" \/ (z.kind = "rmdir" /\ s = "remote")
    <3>1. ~IsFile(side[s][n]) /\ ~IsFile(side'[s][n])
      BY <1>2, <1>7, <2>1, <2>4, EntryFacts DEF Works, Removable, IsEmptyFolder, Made, Trashes
    <3>2. \A o \in Sides : o = s \/ side'[o][n] = side[o][n]
      BY <1>3, <1>7
    <3>3. \A o \in Sides : There(o, n) => There(o, n)'
      BY <1>2, <3>1, <3>2 DEF There
    <3>4. Gentle(n)
      BY <1>3, <1>5, <1>8, <3>1, <3>2, <3>3 DEF Gentle
    <3> QED BY <1>1, <1>2, <3>4, GentleKeeps, GentleKeepsSnapshot
  <2>5. CASE z.kind = "rmdir" /\ s = "local"
    <3>1. side'[s][n] = Absent /\ Loose(n)
      BY <1>4, <1>7, <2>1, <2>5 DEF Made, StrayOK
    <3> QED BY <1>1, <1>2, <1>3, <1>8, <2>5, <3>1, StrayKeeps, SidesAre
  <2> QED BY <2>1, <2>2, <2>3, <2>4, <2>5, SidesAre
<1>10. ASSUME NEW i \in Tree PROVE FileOK(i)' /\ PairOK(i)' /\ SnapOK(i)'
  <2>1. CASE i = n
    BY <1>9, <2>1
  <2>2. CASE Along(z, i)
    BY <1>14, <2>2
  <2>3. CASE i # n /\ ~Along(z, i)
    BY <1>1, <1>2, <1>6, <1>7, <2>3, GentleKeeps, GentleKeepsSnapshot
  <2> QED BY <2>1, <2>2, <2>3
<1>11. ASSUME NEW i \in Tree PROVE ExecOK(i)'
  <2>1. CASE i # n /\ ~Along(z, i)
    BY <1>1, <1>2, <1>3, <1>4, <1>6, <1>7, <2>1, GentleKeepsDone
  <2>3. CASE Along(z, i)
    <3>1. i # n /\ \A o \in Sides : run.seen[o][i] = Absent
      BY <1>14, <2>3
    <3>2. run'.made[i] = run.made[i] /\ ~IsFile(run.made[i])
      BY <1>3, <1>4, <1>7, <3>1 DEF ExecOK
    <3> QED BY <1>2, <3>1, <3>2, SidesAre, EntryFacts DEF ExecOK, Known, SameMod
  <2>2. CASE i = n
    <3>1. run'.made[n] = IF z.kind \in {"mkdir", "copy"} THEN z.entry ELSE Absent
      BY <1>1, <1>7, DoesFacts
    <3>2. StepOK(z) /\ ~SameMod(run'.seen, n)
      BY <1>2, <1>4, <1>7 DEF StepOK
    <3>3. CASE z.kind = "copy"
      <4>1. /\ IsFile(side[Other(s)][n]) /\ Content(Made(z)) \in shared'[n] /\ IsFile(Made(z))
            /\ Made(z) = File(Content(side[Other(s)][n]), Mod(z.entry)) /\ side'[s][n] = Made(z)
        BY <1>1, <1>7, <3>3, DoesFacts
      <4>2. z.entry \in Entries /\ side[Other(s)][n] \in Entries
        BY <1>1, <1>2, <1>8, EntriesAre DEF StepTypes
      <4>3. Mod(z.entry) \in Nat /\ Mod(z.entry) <= Content(side[Other(s)][n])
        BY <1>7, <3>2, <3>3, <4>1, <4>2, EntryFacts DEF StepOK
      <4>4. Content(Made(z)) = Content(side[Other(s)][n])
        BY <4>1, <4>2, <4>3, EntryFacts
      <4>5. Copied(n, s, Mod(z.entry))
        BY <1>2, <1>3, <1>8, <4>1, <4>3, <4>4 DEF Copied
      <4>6. \A k : Alike(n, k)'
        BY <1>1, <4>3, <4>5, CopyIsAlike
      <4>7. Known(z.entry)'
        BY <1>2, <3>2, <3>3 DEF StepOK, Known
      <4> QED BY <1>2, <1>16, <2>2, <3>1, <3>2, <3>3, <4>6, <4>7 DEF ExecOK, SameMod, Known, Alike, There, Has
    <3>4. CASE z.kind # "copy"
      <4>1. ~IsFile(run'.made[n])
        BY <3>1, <3>2, <3>4, EntryFacts DEF StepOK, Fits
      <4> QED BY <2>2, <3>2, <4>1 DEF ExecOK, SameMod, Known
    <3> QED BY <3>3, <3>4
  <2> QED BY <2>1, <2>2, <2>3
<1>12. ASSUME NEW y \in run'.todo PROVE StepOK(y)' /\ StrayOK(y)'
  <2>1. y \in run.todo /\ y # z /\ StepOK(y) /\ StrayOK(y) /\ y \in StepTypes /\ y.path \in Tree
    BY <1>1, <1>2, <1>4, <1>12 DEF TreeTypes, RunTypes, StepTypes
  <2>2. y.path # z.path
    BY <1>4, <2>1 DEF Once
  <2>3. ~Along(z, y.path)
    <3>1. \E o \in Sides : run.seen[o][y.path] # Absent
      <4>1. Fits(run.seen, y) /\ y.to \in Sides /\ Other(y.to) \in Sides
        BY <2>1, SidesAre DEF StepOK, StepTypes
      <4> QED BY <2>1, <4>1, EntryFacts DEF Fits, StepTypes
    <3> QED BY <1>14, <2>1, <3>1
  <2>4. StepOK(y)'
    BY <1>1, <1>2, <1>6, <2>1, <2>2, <2>3, GentleKeepsStep
  <2>5. StrayOK(y)'
    <3>1. ASSUME y.to = "local", y.kind = "rmdir" PROVE Loose(y.path)'
      BY <1>7, <1>15, <2>1, <2>2, <3>1 DEF StrayOK
    <3>2. ASSUME y.to = "local", y.kind = "remove", NEW i \in Tree, Inside(i, y.path)
          PROVE  Loose(i)' /\ \A o \in Sides : run'.seen[o][i] = Absent
      <4>1. Loose(i) /\ \A o \in Sides : run.seen[o][i] = Absent
        BY <2>1, <3>2 DEF StrayOK
      <4>2. i # n
        BY <1>16, <4>1
      <4> QED BY <1>2, <1>15, <4>1, <4>2
    <3> QED BY <3>1, <3>2 DEF StrayOK
  <2> QED BY <2>4, <2>5
<1>13. Once' /\ LastOK'
  BY <1>1, <1>2, <1>4 DEF Once, LastOK
<1> QED BY <1>2, <1>10, <1>11, <1>12, <1>13 DEF SyncInv

LEMMA GentleKeepsFiles ==
    ASSUME SyncInv, \A n \in Tree : Gentle(n), snapshot' = snapshot
    PROVE  \A n \in Tree : FileOK(n)' /\ PairOK(n)' /\ SnapOK(n)'
<1>1. TreeTypes /\ \A n \in Tree : FileOK(n) /\ PairOK(n) /\ SnapOK(n)
  BY DEF SyncInv
<1> QED BY <1>1, GentleKeeps, GentleKeepsSnapshot

LEMMA StillIsGentle ==
    ASSUME TreeTypes, side' = side, edits' = edits, shared' = shared,
           \A s \in Sides, n \in Tree : There(s, n) => There(s, n)'
    PROVE  \A n \in Tree : Gentle(n)
  BY SidesAre DEF Gentle, TreeTypes

LEMMA PeopleKeepSync ==
    ASSUME SyncInv, NEW o \in Sides, NEW i \in Tree, Edits(o, i) \/ MakesFolder(o, i) \/ RemovesAll(o, i)
    PROVE  SyncInv'
<1>1. TreeTypes /\ LastOK /\ \A n \in Tree : FileOK(n) /\ PairOK(n) /\ SnapOK(n)
  BY DEF SyncInv
<1>2. /\ TreeTypes' /\ run' = [run EXCEPT !.quiet = FALSE] /\ snapshot' = snapshot /\ shared' = shared
      /\ edits' = edits \/ edits' = edits + 1
      /\ \A s \in Sides : removed[s] \subseteq removed'[s] /\ (s # o => side'[s] = side[s])
      /\ \A s \in Sides, n \in Tree :
           \/ side'[s][n] = side[s][n]
           \/ side'[s][n] = New /\ edits' = edits + 1
           \/ ~IsFile(side'[s][n]) /\ (IsFile(side[s][n]) => n \in removed'[s])
  BY <1>1, PeopleFacts
<1>3. /\ run'.pc = run.pc /\ run'.seen = run.seen /\ run'.last = run.last /\ run'.todo = run.todo
      /\ run'.made = run.made /\ run'.broken = run.broken
  BY <1>1, <1>2 DEF TreeTypes, RunTypes
<1>4. edits \in Nat /\ edits' \in Nat /\ edits <= edits' /\ IsFile(File(edits + 1, edits + 1))
  <2>1. edits + 1 \in Nat \ {0} /\ edits + 1 \in Nat
    BY <1>1 DEF TreeTypes
  <2>2. edits \in Nat /\ edits' \in Nat /\ edits <= edits'
    BY <1>1, <1>2 DEF TreeTypes
  <2> QED BY <2>1, <2>2, EntryFacts
<1>5. ASSUME NEW n \in Tree PROVE Gentle(n)
  <2>1. \E s \in Sides : side'[s][n] = side[s][n]
    BY <1>2, SidesAre
  <2>2. \A s \in Sides : There(s, n) => There(s, n)'
    BY <1>2, <1>4 DEF There, New
  <2> QED BY <1>2, <1>4, <2>1, <2>2 DEF Gentle
<1>6. \A n \in Tree : FileOK(n)' /\ PairOK(n)' /\ SnapOK(n)'
  BY <1>2, <1>5, GentleKeepsFiles
<1>7. ASSUME run'.pc = "lists", NEW n \in Tree PROVE ListsOK(n)'
  <2>1. ListsOK(n) /\ (n \in removed["local"] => n \in removed'["local"])
    BY <1>2, <1>3, <1>7, SidesAre DEF SyncInv
  <2> QED BY <1>1, <1>2, <1>3, <1>5, <2>1, GentleKeepsListed
<1>8. ASSUME run'.pc = "executes"
      PROVE  Once' /\ (\A n \in Tree : ExecOK(n)') /\ \A z \in run'.todo : StepOK(z)' /\ StrayOK(z)'
  <2>1. Once /\ (\A n \in Tree : ExecOK(n)) /\ \A z \in run.todo : StepOK(z) /\ StrayOK(z)
    BY <1>3, <1>8 DEF SyncInv
  <2>2. Once'
    BY <1>3, <2>1 DEF Once
  <2>3. \A n \in Tree : ExecOK(n)'
    BY <1>1, <1>3, <1>5, <2>1, GentleKeepsDone
  <2>4. ASSUME NEW z \in run'.todo PROVE StepOK(z)' /\ StrayOK(z)'
    <3>1. z \in StepTypes /\ z.path \in Tree /\ StepOK(z) /\ StrayOK(z)
      BY <1>1, <1>3, <2>1, <2>4 DEF TreeTypes, RunTypes, StepTypes
    <3> QED BY <1>1, <1>2, <1>3, <1>5, <3>1, GentleKeepsStep, GentleKeepsStray, SidesAre
  <2> QED BY <2>2, <2>3, <2>4
<1>9. LastOK'
  BY <1>1, <1>2, <1>3 DEF LastOK
<1> QED BY <1>2, <1>6, <1>7, <1>8, <1>9 DEF SyncInv

LEMMA ListingKeepsSync == ASSUME SyncInv, ListsLocal PROVE SyncInv'
<1>1. TreeTypes /\ \A n \in Tree : FileOK(n) /\ PairOK(n) /\ SnapOK(n)
  BY DEF SyncInv
<1>2. /\ TreeTypes' /\ side' = side /\ snapshot' = snapshot /\ edits' = edits /\ shared' = shared
      /\ run'.pc = "lists" /\ run'.seen["local"] = side["local"] /\ run'.made = Nowhere
      /\ run'.last \in {snapshot, Nowhere} /\ removed'["remote"] = removed["remote"]
      /\ removed'["local"] = {n \in removed["local"] : ~IsFile(side["local"][n])}
  BY <1>1, ListsLocalFacts
<1>3. \A s \in Sides, n \in Tree : There(s, n) => There(s, n)'
  BY <1>2, SidesAre DEF There
<1>4. \A n \in Tree : Gentle(n)
  BY <1>1, <1>2, <1>3, StillIsGentle
<1>5. \A n \in Tree : FileOK(n)' /\ PairOK(n)' /\ SnapOK(n)'
  BY <1>2, <1>4, GentleKeepsFiles
<1>6. ASSUME NEW n \in Tree PROVE ListsOK(n)'
  <2>1. PICK here \in Entries, e \in Entries : here = side["local"][n] /\ e = snapshot[n]
    BY <1>1, EntriesAre, SidesAre
  <2>2. FileOK(n)' /\ PairOK(n)' /\ SnapOK(n)'
    BY <1>5
  <2>3. run'.seen["local"][n] = here /\ side'["local"][n] = here /\ snapshot'[n] = e
    BY <1>2, <2>1
  <2>4. Known(here)' /\ (IsFile(here) => Mod(here) <= Content(here))
    BY <2>2, <2>3, SidesAre DEF FileOK, Known
  <2>5. IsFile(here) /\ Has("remote", n, Mod(here))' => Alike(n, Mod(here))'
    BY <2>2, <2>3 DEF PairOK, SameMod, Has, Alike, There
  <2>6. IsFile(here) /\ IsFile(e) /\ Mod(e) = Mod(here) => Alike(n, Mod(here))'
    BY <2>2, <2>3, SidesAre DEF SnapOK, Unlike, Alike, There, Has
  <2>7. IsFile(e) /\ ~IsFile(here) =>
          /\ ~Has("local", n, Mod(e))'
          /\ n \in removed'["local"] \/ ~Has("remote", n, Mod(e))'
    BY <2>2, <2>3, SidesAre, EntryFacts DEF SnapOK, Unlike, Alike, There, Has
  <2>8. ~IsFile(here) => Loose(n)'
    BY <2>3, <2>7 DEF Loose, Has
  <2> QED BY <2>3, <2>4, <2>5, <2>6, <2>8 DEF ListsOK, There, Has, Alike, Known
<1>7. LastOK'
  BY <1>2 DEF LastOK
<1> QED BY <1>2, <1>5, <1>6, <1>7 DEF SyncInv

LEMMA PlanKeepsSync == ASSUME SyncInv, TreesAreClosed, ListsRemote, direction = "both" PROVE SyncInv'
<1>1. TreeTypes /\ LastOK /\ \A n \in Tree : FileOK(n) /\ PairOK(n) /\ SnapOK(n)
  BY DEF SyncInv
<1>2. PICK tree \in [Sides -> Trees] : tree = run'.seen
  BY <1>1, ListsRemoteFacts
<1>3. /\ TreeTypes' /\ side' = side /\ snapshot' = snapshot /\ edits' = edits /\ shared' = shared
      /\ run.pc = "lists" /\ run'.pc = "executes" /\ tree["local"] = run.seen["local"]
      /\ tree["remote"] = side["remote"] /\ run'.made = run.made /\ run'.last = run.last
      /\ removed'["local"] = removed["local"]
      /\ removed'["remote"] = {n \in removed["remote"] : ~IsFile(side["remote"][n])}
  BY <1>1, <1>2, ListsRemoteFacts
<1>4. PICK last \in Trees : last = run.last
  BY <1>1 DEF TreeTypes, RunTypes
<1>5. PICK del \in BOOLEAN : run'.todo = Both(tree, last, del)
  BY <1>1, <1>2, <1>4, ListsRemoteFacts
<1>6. \A s \in Sides, n \in Tree : There(s, n) => There(s, n)'
  BY <1>3, SidesAre DEF There
<1>7. \A n \in Tree : Gentle(n)
  BY <1>1, <1>3, <1>6, StillIsGentle
<1>8. \A n \in Tree : FileOK(n)' /\ PairOK(n)' /\ SnapOK(n)'
  BY <1>3, <1>7, GentleKeepsFiles
<1>9. \A n \in Tree : ListsOK(n)
  BY <1>3 DEF SyncInv
<1>10. ASSUME NEW n \in Tree PROVE ExecOK(n)'
  <2>1. PICK here \in Entries : here = tree["local"][n]
    BY SidesAre DEF Trees
  <2>2. Known(here)
    BY <1>3, <1>9, <2>1 DEF ListsOK
  <2>3. Known(here)'
    BY <1>3, <2>2 DEF Known
  <2>4. ~IsFile(run'.made[n])
    BY <1>1, <1>3, NowhereFacts, EntryFacts DEF LastOK
  <2>5. SameMod(tree, n) => IsFile(here) /\ Has("remote", n, Mod(here))
    BY <1>3, <2>1 DEF SameMod, Has
  <2>6. SameMod(tree, n) => Alike(n, Mod(here))
    BY <1>3, <1>9, <2>1, <2>5 DEF ListsOK
  <2>7. SameMod(tree, n) => Alike(n, Mod(here))'
    BY <1>3, <1>6, <2>6 DEF Alike, Has
  <2> QED BY <1>2, <2>1, <2>3, <2>4, <2>7 DEF ExecOK, Known, SameMod, Alike, There, Has
<1>11. ASSUME NEW z \in run'.todo PROVE StepOK(z)'
  <2>1. /\ z \in StepTypes /\ Fits(tree, z) /\ Replaces(tree, last, z) /\ ~SameMod(tree, z.path)
        /\ z.kind = "remove" => RemovedElsewhere(tree[z.to], tree[Other(z.to)], last, del, z.path)
    BY <1>5, <1>11, BothFacts
  <2>2. PICK n \in Tree, s \in Sides : n = z.path /\ s = Other(z.to) /\ Other(s) = z.to
    BY <2>1, SidesAre DEF StepTypes
  <2>3. Fits(run'.seen, z) /\ Replaces(run'.seen, run'.last, z) /\ ~SameMod(run'.seen, z.path)
    BY <1>2, <1>3, <1>4, <2>1
  <2>4. FileOK(n) /\ SnapOK(n) /\ ListsOK(n)
    BY <1>1, <1>9
  <2>5. ASSUME z.kind = "copy"
        PROVE  Known(z.entry)' /\ (IsFile(side'[s][n]) => Mod(z.entry) <= Content(side'[s][n]))
    <3>1. IsFile(z.entry) /\ z.entry = tree[s][n]
      BY <2>1, <2>2, <2>5 DEF Fits
    <3>2. CASE s = "local"
      BY <1>3, <2>4, <3>1, <3>2 DEF ListsOK, Known
    <3>3. CASE s = "remote"
      BY <1>3, <2>4, <3>1, <3>3, SidesAre DEF FileOK, Known
    <3> QED BY <3>2, <3>3, SidesAre
  <2>6. ASSUME z.kind = "remove"
        PROVE  n \in removed'[s] /\ (IsFile(snapshot[n]) => ~Has(s, n, Mod(snapshot[n])))'
    <3>1. PICK e \in Entries, f \in Entries : e = tree[z.to][n] /\ f = last[n]
      BY <2>1 DEF StepTypes, Trees
    <3>2. IsFile(e) /\ tree[s][n] = Absent /\ f # Absent /\ Same(e, f)
      BY <2>1, <2>2, <2>6, <3>1 DEF RemovedElsewhere
    <3>3. IsFile(f) /\ Mod(e) = Mod(f)
      BY <3>1, <3>2, SameFacts
    <3>4. snapshot[n] = f
      BY <1>1, <1>3, <1>4, <3>1, <3>2, NowhereFacts DEF LastOK
    <3>5. CASE s = "local"
      <4>1. z.to = "remote"
        BY <2>2, <3>5, SidesAre
      <4>2. Has("remote", n, Mod(f))
        BY <1>3, <3>1, <3>2, <3>3, <4>1 DEF Has
      <4>3. ~Has("local", n, Mod(f)) /\ n \in removed["local"]
        BY <1>3, <2>4, <3>2, <3>3, <3>4, <3>5, <4>2, EntryFacts DEF ListsOK, Loose
      <4> QED BY <1>3, <3>4, <3>5, <4>3 DEF Has
    <3>6. CASE s = "remote"
      <4>1. z.to = "local"
        BY <2>2, <3>6, SidesAre
      <4>2. Alike(n, Mod(f))
        BY <1>3, <2>4, <3>1, <3>2, <3>3, <3>4, <4>1 DEF ListsOK
      <4>3. side["remote"][n] = Absent
        BY <1>3, <3>2, <3>6
      <4>4. n \in removed["remote"]
        BY <4>2, <4>3, SidesAre, EntryFacts DEF Alike, There
      <4> QED BY <1>3, <3>6, <4>3, <4>4, EntryFacts DEF Has
    <3> QED BY <3>5, <3>6, SidesAre
  <2> QED BY <2>2, <2>3, <2>5, <2>6 DEF StepOK, Known, Has
<1>14. ASSUME NEW z \in run'.todo PROVE StrayOK(z)'
  <2>1. z \in StepTypes /\ Fits(tree, z) /\ z.path \in Tree
    BY <1>5, <1>14, BothFacts DEF StepTypes
  <2>2. \A n \in Tree : ~IsFile(tree["local"][n]) => Loose(n)'
    BY <1>3, <1>9, SidesAre DEF ListsOK, Loose, Has
  <2>3. ASSUME z.to = "local", z.kind = "rmdir" PROVE Loose(z.path)'
    BY <2>1, <2>2, <2>3, EntryFacts DEF Fits
  <2>4. ASSUME z.to = "local", z.kind = "remove", NEW n \in Tree, Inside(n, z.path)
        PROVE  Loose(n)' /\ \A s \in Sides : tree[s][n] = Absent
    <3>1. IsFile(tree["local"][z.path]) /\ tree["remote"][z.path] = Absent
      BY <2>1, <2>4, SidesAre DEF Fits
    <3>2. Closed(tree["local"]) /\ Closed(tree["remote"])
      BY <1>3, SidesAre DEF TreesAreClosed
    <3>3. tree["local"][n] = Absent /\ tree["remote"][n] = Absent
      BY <2>1, <2>4, <3>1, <3>2, EntryFacts DEF Closed
    <3> QED BY <2>2, <3>3, SidesAre, EntryFacts
  <2> QED BY <1>2, <2>3, <2>4 DEF StrayOK
<1>12. Once'
  BY <1>5, BothOnce DEF Once
<1>13. LastOK'
  BY <1>1, <1>3 DEF LastOK
<1> QED BY <1>3, <1>8, <1>10, <1>11, <1>12, <1>13, <1>14 DEF SyncInv

LEMMA BrokenKeepsSync ==
    ASSUME SyncInv, NEW z \in run.todo, Breaks(z) PROVE SyncInv'
<1>1. TreeTypes /\ LastOK
  BY DEF SyncInv
<1>2. /\ TreeTypes' /\ z \in StepTypes /\ run.pc = "executes"
      /\ UNCHANGED <<side, snapshot, edits, removed, shared>>
      /\ run'.pc = "executes" /\ run'.seen = run.seen /\ run'.last = run.last /\ run'.todo = run.todo \ {z}
      /\ run'.made = run.made
  BY <1>1, BreaksFacts
<1>3. \A n \in Tree : Gentle(n)
  BY <1>1, <1>2, StillIsGentle DEF There
<1>4. \A n \in Tree : FileOK(n)' /\ PairOK(n)' /\ SnapOK(n)'
  BY <1>2, <1>3, GentleKeepsFiles
<1>5. \A n \in Tree : SnapOK(n) /\ ExecOK(n)
  BY <1>2 DEF SyncInv
<1>6. \A n \in Tree : ExecOK(n)'
  BY <1>1, <1>2, <1>3, <1>5, GentleKeepsDone
<1>7. ASSUME NEW y \in run'.todo PROVE StepOK(y)' /\ StrayOK(y)'
  <2>1. y \in StepTypes /\ y.path \in Tree /\ StepOK(y) /\ StrayOK(y)
    BY <1>1, <1>2, <1>7 DEF TreeTypes, RunTypes, StepTypes, SyncInv
  <2> QED BY <1>1, <1>2, <1>3, <1>5, <2>1, GentleKeepsStep, GentleKeepsStray
<1>8. Once' /\ LastOK'
  BY <1>1, <1>2 DEF SyncInv, Once, LastOK
<1> QED BY <1>2, <1>4, <1>6, <1>7, <1>8 DEF SyncInv

(* What is kept of a run is what the last one kept, what was copied, or     *)
(* what both sides were listed with.                                        *)
LEMMA KeptIsAlike ==
    ASSUME SyncInv, run.pc = "executes", NEW n \in Tree
    PROVE  /\ Kept[n] \in Entries
           /\ Known(Kept[n]) /\ (IsFile(Kept[n]) => Alike(n, Mod(Kept[n])) \/ Unlike(n, Mod(Kept[n])))
<1>1. TreeTypes /\ LastOK /\ SnapOK(n) /\ ExecOK(n)
  BY DEF SyncInv
<1>2. PICK l \in Entries, r \in Entries, after \in Entries, made \in Entries :
        l = run.seen["local"][n] /\ r = run.seen["remote"][n] /\ after = run.last[n] /\ made = run.made[n]
  BY <1>1, EntriesAre, SidesAre
<1>3. Kept[n] = IF n \in run.broken /\ after # Absent THEN after
                ELSE IF made # Absent THEN made ELSE IF l # Absent /\ Same(l, r) THEN l ELSE Absent
  BY <1>2 DEF Kept, InSync
<1>4. CASE Kept[n] = after /\ after # Absent
  <2>1. after = snapshot[n]
    BY <1>1, <1>2, <1>4, NowhereFacts DEF LastOK
  <2> QED BY <1>1, <1>2, <1>4, <2>1 DEF SnapOK
<1>5. CASE Kept[n] = made
  BY <1>1, <1>2, <1>5 DEF ExecOK
<1>6. CASE Kept[n] = l /\ Same(l, r)
  <2>1. IsFile(l) => SameMod(run.seen, n)
    BY <1>2, <1>6, SameFacts DEF SameMod
  <2>2. IsFile(l) => Known(l) /\ Alike(n, Mod(l))
    BY <1>1, <1>2, <2>1 DEF ExecOK
  <2> QED BY <1>2, <1>6, <2>2 DEF Known
<1>7. CASE Kept[n] = Absent
  BY <1>7, EntryFacts DEF Known
<1> QED BY <1>3, <1>4, <1>5, <1>6, <1>7

LEMMA EndKeepsSync == ASSUME SyncInv, Ends \/ Stops PROVE SyncInv'
<1>1. TreeTypes
  BY DEF SyncInv
<1>2. /\ TreeTypes' /\ run' = Idle /\ UNCHANGED <<side, edits, removed, shared>>
      /\ snapshot' = snapshot \/ (run.pc = "executes" /\ snapshot' = Kept)
  BY <1>1, RunIsOver
<1>3. \A n \in Tree : FileOK(n)' /\ PairOK(n)'
  BY <1>2 DEF SyncInv, FileOK, PairOK, Known, SameMod, Alike, There, Has
<1>4. ASSUME NEW n \in Tree PROVE SnapOK(n)'
  <2>1. CASE snapshot' = snapshot
    BY <1>2, <2>1 DEF SyncInv, SnapOK, Known, Alike, Unlike, There, Has
  <2>2. CASE run.pc = "executes" /\ snapshot' = Kept
    <3>1. PICK e : e = Kept[n]
      OBVIOUS
    <3>2. Known(e) /\ (IsFile(e) => Alike(n, Mod(e)) \/ Unlike(n, Mod(e)))
      BY <2>2, <3>1, KeptIsAlike
    <3>3. snapshot'[n] = e
      BY <2>2, <3>1
    <3> QED BY <1>2, <3>2, <3>3 DEF SnapOK, Known, Alike, Unlike, There, Has
  <2> QED BY <1>2, <2>1, <2>2
<1>5. run'.pc = "idle"
  BY <1>2, IdleFacts
<1> QED BY <1>2, <1>3, <1>4, <1>5 DEF SyncInv, LastOK

LEMMA SyncInvStays == ASSUME SyncInv, TreesAreClosed, direction = "both", [SyncNext]_syncVars PROVE SyncInv'
<1>1. ASSUME NEW z \in run.todo, Does(z) \/ Breaks(z) PROVE SyncInv'
  BY <1>1, StepKeepsSync, BrokenKeepsSync
<1>2. ASSUME NEW s \in Sides, NEW n \in Tree, Edits(s, n) \/ MakesFolder(s, n) \/ RemovesAll(s, n) PROVE SyncInv'
  BY <1>2, PeopleKeepSync
<1>3. CASE ListsLocal \/ ListsRemote
  BY <1>3, ListingKeepsSync, PlanKeepsSync
<1>4. CASE Ends \/ Stops
  BY <1>4, EndKeepsSync
<1>5. CASE UNCHANGED syncVars
  <2>1. /\ TreeTypes' /\ LastOK'
        /\ \A n \in Tree : FileOK(n)' /\ PairOK(n)' /\ SnapOK(n)'
    BY <1>5 DEF syncVars, people, settings, SyncInv, TreeTypes, LastOK, FileOK, PairOK, SnapOK, Known, SameMod, Alike, Unlike,
       There, Has
  <2>2. run'.pc = "lists" => \A n \in Tree : ListsOK(n)'
    BY <1>5 DEF syncVars, people, settings, SyncInv, ListsOK, Loose, Known, Alike, There, Has
  <2>3. ASSUME run'.pc = "executes" PROVE Once' /\ \A n \in Tree : ExecOK(n)'
    <3>1. run' = run /\ shared' = shared /\ edits' = edits
      BY <1>5 DEF syncVars, people
    <3>2. Once /\ \A n \in Tree : ExecOK(n)
      BY <2>3, <3>1 DEF SyncInv
    <3>3. Once'
      BY <3>1, <3>2 DEF Once
    <3>4. ASSUME NEW n \in Tree PROVE ExecOK(n)'
      <4>1. ExecOK(n)
        BY <3>2
      <4>2. UNCHANGED syncVars
        BY <1>5
      <4> QED BY <4>1, <4>2 DEF syncVars, people, ExecOK, SameMod, Known, Alike, There, Has
    <3> QED BY <3>3, <3>4
  <2>4. ASSUME run'.pc = "executes", NEW z \in run'.todo PROVE StepOK(z)' /\ StrayOK(z)'
    <3>1. run.pc = "executes" /\ z \in run.todo /\ StepOK(z) /\ StrayOK(z)
      BY <1>5, <2>4 DEF syncVars, SyncInv
    <3>2. StepOK(z)'
      BY <1>5, <3>1 DEF syncVars, people, StepOK, Fits, Replaces, SameMod, Known, Has
    <3>3. StrayOK(z)'
      BY <1>5, <3>1 DEF syncVars, people, StrayOK, Loose, Has
    <3> QED BY <3>2, <3>3
  <2> QED BY <2>1, <2>2, <2>3, <2>4 DEF SyncInv
<1> QED BY <1>1, <1>2, <1>3, <1>4, <1>5 DEF SyncNext

LEMMA StepLosesNothing ==
    ASSUME SyncInv, NEW z \in run.todo, Does(z), NEW s \in Sides, NEW n \in Tree
    PROVE  LosesNothing(s, n)
<1>1. TreeTypes /\ LastOK /\ FileOK(n) /\ SnapOK(n)
  BY DEF SyncInv
<1>2. /\ z \in StepTypes /\ Works(z) /\ run.pc = "executes" /\ side'[z.to][z.path] = Made(z)
      /\ (s # z.to \/ (n # z.path /\ ~Along(z, n)) => side'[s][n] = side[s][n])
      /\ (Along(z, n) => side'[z.to][n] = Absent) /\ removed' = removed
  BY <1>1, DoesFacts
<1>3. StepOK(z) /\ z.kind \in {"mkdir", "copy", "remove", "rmdir"}
  BY <1>2 DEF SyncInv, StepTypes
<1>4. PICK was \in Entries, f \in Entries, e \in Entries, after \in Entries :
        was = side[s][n] /\ f = side[Other(s)][n] /\ e = z.entry /\ after = run.last[n]
  BY <1>1, <1>2, EntriesAre, SidesAre DEF StepTypes
<1>5. CASE s # z.to \/ (n # z.path /\ ~Along(z, n))
  BY <1>2, <1>5, EntryFacts DEF LosesNothing
<1>6. CASE s = z.to /\ n = z.path
  <2>1. CASE z.kind = "copy"
    <3>1. PICK is : is = side'[s][n]
      OBVIOUS
    <3>2. IsFile(f) /\ is = File(Content(f), Mod(e)) /\ IsFile(is) /\ Mod(e) <= Content(f)
          /\ Content(f) \in Nat /\ Mod(e) \in Nat
      BY <1>1, <1>2, <1>3, <1>4, <1>6, <2>1, <3>1, DoesFacts, EntryFacts DEF StepOK
    <3>3. Content(is) = Content(f)
      BY <1>4, <3>2, EntryFacts
    <3>4. is # Absent
      BY <3>2, EntryFacts
    <3>5. ASSUME IsFile(was), run.seen[s][n] = was
          PROVE  Content(was) \in shared[n] \/ Content(was) < Content(is)
      <4>1. Mod(e) > Mod(was) \/ (after # Absent /\ Same(was, after))
        BY <1>3, <1>4, <1>6, <2>1, <3>5 DEF StepOK, Replaces
      <4>2. Content(was) \in Nat /\ Mod(was) \in Nat /\ (Content(was) # Mod(was) => Content(was) \in shared[n])
        BY <1>1, <1>4, <3>5, EntryFacts DEF FileOK
      <4>3. CASE Mod(e) > Mod(was)
        BY <3>2, <3>3, <4>2, <4>3
      <4>4. CASE after # Absent /\ Same(was, after)
        <5>1. after = snapshot[n] /\ IsFile(after) /\ Mod(after) = Mod(was)
          BY <1>1, <1>2, <1>4, <3>5, <4>4, NowhereFacts, SameFacts DEF LastOK
        <5>2. Has(s, n, Mod(after))
          BY <1>4, <3>5, <5>1 DEF Has
        <5>3. Alike(n, Mod(after))
          BY <1>1, <5>1, <5>2 DEF SnapOK, Unlike
        <5> QED BY <1>4, <5>2, <5>3 DEF Alike
      <4> QED BY <4>1, <4>3, <4>4
    <3> QED BY <1>4, <3>1, <3>4, <3>5 DEF LosesNothing
  <2>2. CASE z.kind = "remove"
    BY <1>2, <1>3, <1>6, <2>2, EntryFacts DEF LosesNothing, StepOK, Made
  <2>3. CASE z.kind = "mkdir"
    BY <1>2, <1>6, <2>3, EntryFacts DEF LosesNothing, Works
  <2>4. CASE z.kind = "rmdir"
    <3>1. side'[s][n] = Absent
      BY <1>2, <1>6, <2>4 DEF Made
    <3>2. CASE s = "local"
      <4>1. PutInItsPlace(n)
        BY <1>3, <1>6, <2>4, <3>2, SidesAre DEF StepOK, Fits, PutInItsPlace
      <4> QED BY <3>1, <3>2, <4>1, EntryFacts DEF LosesNothing
    <3>3. CASE s # "local"
      <4>1. ~IsFile(side[s][n])
        BY <1>2, <1>6, <2>4, <3>3, EntryFacts DEF Works, Removable, IsEmptyFolder, Trashes
      <4> QED BY <4>1 DEF LosesNothing
    <3> QED BY <3>2, <3>3
  <2> QED BY <1>3, <2>1, <2>2, <2>3, <2>4
<1>7. CASE s = z.to /\ Along(z, n)
  <2>1. s = "local" /\ z.kind = "remove" /\ Inside(n, z.path) /\ trash /\ side'[s][n] = Absent
    BY <1>2, <1>7 DEF Along, Trashes
  <2>2. z.path \in removed["remote"] /\ IsFile(run.seen["local"][z.path])
    BY <1>3, <1>7, <2>1, SidesAre DEF StepOK, Fits
  <2>3. PutInItsPlace(n)
    BY <2>1, <2>2 DEF PutInItsPlace
  <2> QED BY <2>1, <2>3, EntryFacts DEF LosesNothing
<1> QED BY <1>5, <1>6, <1>7

LEMMA NothingIsLost ==
    ASSUME SyncInv, [SyncNext]_syncVars, NEW s \in Sides, NEW n \in Tree
    PROVE  LosesNothing(s, n)
<1>1. TreeTypes
  BY DEF SyncInv
<1>2. CASE side' = side
  BY <1>2, EntryFacts DEF LosesNothing
<1>3. ASSUME NEW z \in run.todo, Does(z) PROVE LosesNothing(s, n)
  BY <1>3, StepLosesNothing
<1>4. ASSUME NEW z \in run.todo, Breaks(z) PROVE side' = side
  BY <1>1, <1>4, BreaksFacts
<1>5. ASSUME NEW o \in Sides, NEW i \in Tree, Edits(o, i) \/ MakesFolder(o, i) \/ RemovesAll(o, i)
      PROVE  LosesNothing(s, n)
  <2>1. edits' # edits \/ changes' # changes
    BY <1>1, <1>5, PeopleFacts
  <2> QED BY <2>1 DEF LosesNothing
<1>6. CASE ListsLocal \/ ListsRemote \/ Ends \/ Stops
  <2>1. side' = side
    BY <1>1, <1>6, ListsLocalFacts, ListsRemoteFacts, RunIsOver
  <2> QED BY <1>2, <2>1
<1>7. CASE UNCHANGED syncVars
  BY <1>2, <1>7 DEF syncVars
<1> QED BY <1>2, <1>3, <1>4, <1>5, <1>6, <1>7 DEF SyncNext

LEMMA DirectionStays == ASSUME TreeTypes, [SyncNext]_syncVars PROVE direction' = direction
<1>1. ASSUME NEW z \in run.todo, Does(z) \/ Breaks(z) PROVE direction' = direction
  BY <1>1 DEF Does, Breaks, settings
<1>2. ASSUME NEW s \in Sides, NEW n \in Tree, Edits(s, n) \/ MakesFolder(s, n) \/ RemovesAll(s, n)
      PROVE  direction' = direction
  BY <1>2 DEF Edits, MakesFolder, RemovesAll, settings
<1>3. CASE ListsLocal \/ ListsRemote \/ Ends \/ Stops \/ UNCHANGED syncVars
  BY <1>3 DEF ListsLocal, ListsRemote, Ends, Stops, syncVars, settings
<1> QED BY <1>1, <1>2, <1>3 DEF SyncNext

(* A run of a sync that was undisturbed leaves both sides alike, or one     *)
(* with all the other has; and a sync both ways removes only what people    *)
(* removed on the other side, and what they put here, while it was on, in   *)
(* the place of what is removed, whatever failed, was stopped, or was       *)
(* changed meanwhile.                                                       *)
THEOREM SyncStaysTrue == SyncSpec => SyncIsTrue
<1> DEFINE Inv == QuietInv /\ TreesAreClosed /\ (direction = "both" => SyncInv)
<1>1. SyncInit => Inv
  <2>1. SyncInit => TreeTypes /\ run = Idle
    BY SyncStarts DEF SyncInit
  <2>2. SyncInit => QuietInv
    BY <2>1, IdleFacts DEF QuietInv
  <2> QED BY <2>2, SyncInvStarts, ClosedStarts
<1>2. Inv /\ [SyncNext]_syncVars => Inv'
  BY QuietStays, ClosedStays, SyncInvStays, DirectionStays DEF QuietInv
<1>3. Inv => AlikeAfterwards
  BY QuietIsAlike
<1>4. Inv /\ [SyncNext]_syncVars => [\A s \in Sides, n \in Tree : LosesNothing(s, n)]_syncVars
  <2>1. CASE direction # "both"
    BY <2>1 DEF LosesNothing
  <2>2. CASE direction = "both"
    BY <2>2, NothingIsLost
  <2> QED BY <2>1, <2>2
<1>5. SyncSpec => []AlikeAfterwards
  BY <1>1, <1>2, <1>3, PTL DEF SyncSpec
<1>6. SyncSpec => SyncLosesNothing
  BY <1>1, <1>2, <1>4, PTL DEF SyncSpec, SyncLosesNothing, LosesNothing
<1> QED BY <1>5, <1>6 DEF SyncIsTrue

-----------------------------------------------------------------------------
(***************************************************************************)
(* The lock of addresses.  What is known of the wrong passwords of one: of *)
(* its window, as many as its record counts; while it is locked, what two  *)
(* windows count and those who came in before the lock.                    *)
(***************************************************************************)
Records == [failures : Nat, since : Nat, until : Nat, known : BOOLEAN]
ThrottleTypes ==
    /\ now \in Nat /\ swept \in Nat
    /\ clients \in [Addresses -> Records]
    /\ login \in [Slots -> Addresses \union {Throttle!Free}]
    /\ guesses \in [Addresses -> SUBSET (Nat \X Nat)]
At(set, moment) == {h \in set : h[1] = moment}
Since(set, moment) == {h \in set : h[1] > moment}
(* Wrong passwords up to a time, and numbered at each.                      *)
Numbered(set, moment) ==
    IsFiniteSet(set) /\ \A h \in set : h[1] <= moment /\ h[2] < Cardinality(At(set, h[1]))
Judges(x) == {r \in Slots : login[r] = x}
CountOK(record, set, waiting, moment) ==
    /\ record.failures < Attempts
    /\ ~record.known => record.until = 0 /\ Cardinality(set) < Attempts
    /\ record.known => Cardinality(Since(set, record.since)) <= record.failures
    /\ record.known /\ record.until <= moment => Cardinality(set) < Attempts + record.failures
    /\ record.until > moment =>
         /\ record.until = record.since + Lockout
         /\ Cardinality(set) + Cardinality(waiting) <= 2 * (Attempts - 1) + Cardinality(Slots)
AddressOK(x) ==
    /\ Numbered(guesses[x], now) /\ \A h \in guesses[x] : now < h[1] + Lockout
    /\ CountOK(clients[x], guesses[x], Judges(x), now)
TableOK == IsFiniteSet(Throttle!Tracked(clients)) /\ Cardinality(Throttle!Tracked(clients)) <= MaxTracked
ThrottleInv == ThrottleTypes /\ TableOK /\ \A x \in Addresses : AddressOK(x)

LEMMA SameCount == \A S : Throttle!Cardinality(S) = Cardinality(S)
  BY DEF Cardinality, Throttle!Cardinality

LEMMA Limited ==
    /\ Attempts \in Nat \ {0} /\ Lockout \in Nat \ {0} /\ IsFiniteSet(Slots) /\ Throttle!Free \notin Addresses
    /\ EvictAbove \in Nat /\ MaxTracked \in Nat /\ EvictAbove <= MaxTracked /\ ShedBatch \in 1 .. MaxTracked
    /\ Cardinality(Slots) \in Nat
  BY ThrottleAssumption, FS_CardinalityType

LEMMA SubsetCount ==
    ASSUME NEW S, IsFiniteSet(S), NEW T, T \subseteq S
    PROVE  /\ IsFiniteSet(T) /\ Cardinality(T) \in Nat /\ Cardinality(S) \in Nat /\ Cardinality(T) <= Cardinality(S)
  BY FS_Subset, FS_CardinalityType

(* One more wrong password is one more in the set, and one more of a window *)
(* that began before it.                                                    *)
More(set, moment) == set \union {<<moment, Cardinality(At(set, moment))>>}
LEMMA OneMore ==
    ASSUME NEW set \in SUBSET (Nat \X Nat), NEW moment \in Nat, Numbered(set, moment)
    PROVE  /\ Numbered(More(set, moment), moment) /\ More(set, moment) \in SUBSET (Nat \X Nat)
           /\ Cardinality(set) \in Nat /\ Cardinality(More(set, moment)) = Cardinality(set) + 1
           /\ \A h \in More(set, moment) : h \in set \/ h[1] = moment
           /\ \A since \in Nat : Cardinality(Since(More(set, moment), since)) <= Cardinality(Since(set, since)) + 1
           /\ Cardinality(Since(More(set, moment), moment)) = 0
<1>1. PICK count \in Nat : count = Cardinality(At(set, moment)) /\ IsFiniteSet(At(set, moment))
  BY SubsetCount DEF At, Numbered
<1>2. PICK g : g = <<moment, count>>
  OBVIOUS
<1>3. g[1] = moment /\ g[2] = count /\ g \in Nat \X Nat /\ More(set, moment) = set \union {g}
  BY <1>1, <1>2 DEF More
<1>4. g \notin set
  BY <1>1, <1>3 DEF Numbered
<1>5. IsFiniteSet(set) /\ IsFiniteSet(set \union {g}) /\ Cardinality(set) \in Nat
      /\ Cardinality(set \union {g}) = Cardinality(set) + 1
  BY <1>4, FS_AddElement, FS_CardinalityType DEF Numbered
<1>6. ASSUME NEW h \in set \union {g}
      PROVE  h[1] <= moment /\ h[2] < Cardinality(At(set \union {g}, h[1]))
  <2>1. CASE h[1] = moment
    <3>1. At(set \union {g}, moment) = At(set, moment) \union {g}
      BY <1>3 DEF At
    <3>2. Cardinality(At(set, moment) \union {g}) = count + 1
      BY <1>1, <1>4, FS_AddElement DEF At
    <3>3. h[2] <= count /\ h[2] \in Nat
      BY <1>1, <1>3, <1>6, <2>1 DEF Numbered
    <3>4. Cardinality(At(set \union {g}, h[1])) = count + 1
      BY <2>1, <3>1, <3>2
    <3>5. h[1] <= moment /\ h[2] < count + 1
      BY <1>1, <2>1, <3>3
    <3> QED BY <3>4, <3>5
  <2>2. CASE h[1] # moment
    <3>1. h \in set /\ At(set \union {g}, h[1]) = At(set, h[1])
      BY <1>3, <1>6, <2>2 DEF At
    <3> QED BY <3>1 DEF Numbered
  <2> QED BY <2>1, <2>2
<1>7. ASSUME NEW since \in Nat
      PROVE  Cardinality(Since(set \union {g}, since)) <= Cardinality(Since(set, since)) + 1
  <2>1. Since(set \union {g}, since) \subseteq Since(set, since) \union {g}
    BY DEF Since
  <2>2. IsFiniteSet(Since(set, since)) /\ Cardinality(Since(set, since)) \in Nat
    BY <1>5, SubsetCount DEF Since
  <2>3. IsFiniteSet(Since(set, since) \union {g})
        /\ Cardinality(Since(set, since) \union {g}) <= Cardinality(Since(set, since)) + 1
    BY <2>2, FS_AddElement
  <2>4. Cardinality(Since(set \union {g}, since)) <= Cardinality(Since(set, since) \union {g})
        /\ Cardinality(Since(set \union {g}, since)) \in Nat /\ Cardinality(Since(set, since) \union {g}) \in Nat
    BY <2>1, <2>3, SubsetCount
  <2> QED BY <2>2, <2>3, <2>4
<1>8. Since(set \union {g}, moment) = {}
  BY <1>3, <1>6 DEF Since
<1> QED BY <1>3, <1>5, <1>6, <1>7, <1>8, FS_EmptySet DEF Numbered

(* One password of an address that has a record is counted.  Its own        *)
(* request waits no longer.                                                 *)
Fresh(record) == now > record.since + Lockout
Before(record) == IF Fresh(record) THEN 0 ELSE record.failures
LEMMA CountedFacts ==
    ASSUME ThrottleTypes, NEW record \in Records
    PROVE  /\ Throttle!Counted(record) \in Records /\ Throttle!Counted(record).known = record.known
           /\ Before(record) \in Nat
           /\ Before(record) + 1 < Attempts =>
                /\ Throttle!Counted(record).failures = Before(record) + 1
                /\ Throttle!Counted(record).since = (IF Fresh(record) THEN now ELSE record.since)
                /\ Throttle!Counted(record).until = record.until
           /\ ~(Before(record) + 1 < Attempts) =>
                /\ Throttle!Counted(record).failures = 0 /\ Throttle!Counted(record).since = now
                /\ Throttle!Counted(record).until = now + Lockout
<1>1. PICK since \in Nat, before \in Nat :
        since = (IF Fresh(record) THEN now ELSE record.since) /\ before = Before(record)
  BY DEF ThrottleTypes, Records, Before
<1>2. PICK next : next = [record EXCEPT !.failures = before, !.since = since]
  OBVIOUS
<1>3. /\ next \in Records
      /\ next.failures = before /\ next.since = since /\ next.until = record.until /\ next.known = record.known
  BY <1>1, <1>2 DEF Records
<1>4. next = IF Fresh(record) THEN [record EXCEPT !.failures = 0, !.since = now] ELSE record
  BY <1>1, <1>2 DEF Before, Records
<1>5. Throttle!Counted(record) =
        IF before + 1 < Attempts THEN [next EXCEPT !.failures = before + 1]
        ELSE [next EXCEPT !.failures = 0, !.since = now, !.until = now + Lockout]
  BY <1>3, <1>4 DEF Throttle!Counted, Fresh
<1>6. now \in Nat /\ now + Lockout \in Nat /\ before + 1 \in Nat
  BY Limited DEF ThrottleTypes
<1>7. PICK after : after = Throttle!Counted(record)
  OBVIOUS
<1>8. CASE before + 1 < Attempts
  <2>1. after = [next EXCEPT !.failures = before + 1]
    BY <1>5, <1>7, <1>8
  <2>2. after \in Records /\ after.failures = before + 1 /\ after.since = since /\ after.until = record.until
        /\ after.known = record.known
    BY <1>3, <1>6, <2>1 DEF Records
  <2> QED BY <1>1, <1>7, <1>8, <2>2
<1>9. CASE ~(before + 1 < Attempts)
  <2>1. after = [next EXCEPT !.failures = 0, !.since = now, !.until = now + Lockout]
    BY <1>5, <1>7, <1>9
  <2>2. after \in Records /\ after.failures = 0 /\ after.since = now /\ after.until = now + Lockout
        /\ after.known = record.known
    BY <1>3, <1>6, <2>1 DEF Records
  <2> QED BY <1>1, <1>7, <1>9, <2>2
<1> QED BY <1>8, <1>9

LEMMA CountedIsOK ==
    ASSUME ThrottleTypes, NEW record \in Records, NEW set \in SUBSET (Nat \X Nat), NEW waiting \in SUBSET Slots,
           NEW r \in waiting, record.known, Numbered(set, now), \A h \in set : now < h[1] + Lockout,
           CountOK(record, set, waiting, now)
    PROVE  CountOK(Throttle!Counted(record), More(set, now), waiting \ {r}, now)
<1>1. PICK size \in Nat, wait \in Nat, slots \in Nat :
        /\ size = Cardinality(set) /\ wait = Cardinality(waiting) /\ slots = Cardinality(Slots)
        /\ Cardinality(waiting \ {r}) = wait - 1 /\ wait <= slots
  <2>1. IsFiniteSet(set) /\ Cardinality(set) \in Nat
    BY FS_CardinalityType DEF Numbered
  <2>2. IsFiniteSet(waiting) /\ Cardinality(waiting) \in Nat /\ Cardinality(waiting) <= Cardinality(Slots)
    BY Limited, SubsetCount
  <2> QED BY <2>1, <2>2, Limited, FS_RemoveElement
<1>2. /\ Cardinality(More(set, now)) = size + 1
      /\ \A since \in Nat : Cardinality(Since(More(set, now), since)) <= Cardinality(Since(set, since)) + 1
      /\ Cardinality(Since(More(set, now), now)) = 0
  BY <1>1, OneMore DEF ThrottleTypes
<1>3. PICK after \in Records : after = Throttle!Counted(record)
  BY CountedFacts
<1> DEFINE fresh == Fresh(record)
<1>4. PICK before \in Nat : before = IF fresh THEN 0 ELSE record.failures
  BY CountedFacts DEF Before
<1>5. /\ after.known
      /\ before + 1 < Attempts =>
           /\ after.failures = before + 1 /\ after.since = (IF fresh THEN now ELSE record.since)
           /\ after.until = record.until
      /\ ~(before + 1 < Attempts) => after.failures = 0 /\ after.since = now /\ after.until = now + Lockout
  BY <1>3, <1>4, CountedFacts DEF Before
<1>6. /\ now \in Nat /\ record.since \in Nat /\ record.until \in Nat /\ record.failures \in Nat /\ Lockout \in Nat
      /\ Lockout > 0 /\ Attempts \in Nat /\ Attempts > 0
  BY Limited DEF ThrottleTypes, Records
<1>7. PICK window \in Nat : window = Cardinality(Since(set, record.since)) /\ window <= record.failures
  <2>1. Cardinality(Since(set, record.since)) \in Nat
    BY SubsetCount DEF Since, Numbered
  <2> QED BY <2>1 DEF CountOK
<1>8. fresh => size = window
  <2>1. SUFFICES ASSUME fresh PROVE Since(set, record.since) = set
    BY <1>1, <1>7
  <2>2. \A h \in set : h[1] \in Nat /\ h[1] > record.since
    BY <1>6, <2>1 DEF Fresh
  <2> QED BY <2>2 DEF Since
<1>9. /\ record.failures < Attempts
      /\ record.until <= now => size < Attempts + record.failures
      /\ record.until > now => record.until = record.since + Lockout /\ size + wait <= 2 * (Attempts - 1) + slots
  BY <1>1 DEF CountOK
<1>10. CASE before + 1 < Attempts
  <2>1. PICK later \in Nat : later = Cardinality(Since(More(set, now), after.since)) /\ later <= before + 1
    <3>1. Cardinality(Since(More(set, now), record.since)) <= window + 1
      BY <1>2, <1>6, <1>7
    <3>2. Cardinality(Since(More(set, now), after.since)) \in Nat
      <4>1. IsFiniteSet(More(set, now))
        BY OneMore DEF ThrottleTypes, Numbered
      <4> QED BY <4>1, SubsetCount DEF Since
    <3> QED BY <1>2, <1>4, <1>5, <1>6, <1>7, <1>10, <3>1, <3>2
  <2>2. record.until > now => ~fresh
    BY <1>6, <1>9 DEF Fresh
  <2>3. /\ after.failures = before + 1 /\ after.until = record.until
        /\ (~fresh => after.since = record.since /\ before = record.failures) /\ (fresh => before = 0)
    BY <1>4, <1>5, <1>10
  <2>4. record.until <= now => size + 1 < Attempts + (before + 1)
    BY <1>6, <1>7, <1>8, <1>9, <2>3
  <2>5. record.until > now => size + 1 + (wait - 1) <= 2 * (Attempts - 1) + slots
    BY <1>6, <1>9
  <2> QED BY <1>1, <1>2, <1>3, <1>5, <1>6, <1>9, <1>10, <2>1, <2>2, <2>3, <2>4, <2>5 DEF CountOK
<1>11. CASE ~(before + 1 < Attempts)
  <2>1. (before = Attempts - 1 /\ size <= Attempts - 1 + before) \/ record.until > now
    BY <1>4, <1>6, <1>7, <1>8, <1>9, <1>11
  <2>2. size + 1 + (wait - 1) <= 2 * (Attempts - 1) + slots
    BY <1>1, <1>6, <1>9, <2>1
  <2> QED BY <1>1, <1>2, <1>3, <1>5, <1>6, <1>11, <2>2 DEF CountOK
<1> QED BY <1>10, <1>11

(* What is forgotten says nothing of the guesses there still are, when the  *)
(* window is closed; and a new record counts none.                          *)
LEMMA NewRecordIsOK ==
    ASSUME ThrottleTypes, NEW set \in SUBSET (Nat \X Nat), NEW waiting, Numbered(set, now),
           Cardinality(set) < Attempts
    PROVE  /\ CountOK(Throttle!NoRecord, set, waiting, now) /\ CountOK(Throttle!Opened, set, waiting, now)
           /\ Throttle!NoRecord \in Records /\ Throttle!Opened \in Records
           /\ Throttle!Opened.known /\ ~Throttle!NoRecord.known
<1>1. PICK none : none = Throttle!NoRecord
  OBVIOUS
<1>2. none \in Records /\ none.failures = 0 /\ none.since = 0 /\ none.until = 0 /\ ~none.known
  BY <1>1 DEF Throttle!NoRecord, Records
<1>3. PICK open : open = Throttle!Opened
  OBVIOUS
<1>4. open \in Records /\ open.failures = 0 /\ open.since = now /\ open.until = 0 /\ open.known
  BY <1>1, <1>2, <1>3 DEF Throttle!Opened, ThrottleTypes, Records
<1>5. now \in Nat /\ Attempts \in Nat /\ Attempts > 0
  BY Limited DEF ThrottleTypes
<1>6. Since(set, now) = {}
  BY <1>5 DEF Since, Numbered
<1>7. CountOK(none, set, waiting, now)
  BY <1>2, <1>5 DEF CountOK
<1>8. CountOK(open, set, waiting, now)
  BY <1>4, <1>5, <1>6, FS_EmptySet DEF CountOK
<1> QED BY <1>1, <1>2, <1>3, <1>4, <1>7, <1>8

LEMMA ClosedSaysNothing ==
    ASSUME ThrottleTypes, NEW x \in Addresses, AddressOK(x), clients[x].known, Throttle!SaysNothing(x)
    PROVE  Cardinality(guesses[x]) < Attempts
<1>1. PICK record \in Records, set \in SUBSET (Nat \X Nat) : record = clients[x] /\ set = guesses[x]
  BY DEF ThrottleTypes
<1>2. now > record.since + Lockout /\ now \in Nat /\ record.since \in Nat /\ Lockout \in Nat
  BY <1>1, Limited DEF Throttle!SaysNothing, ThrottleTypes, Records
<1>3. \A h \in set : h[1] \in Nat /\ now < h[1] + Lockout
  BY <1>1 DEF AddressOK
<1>4. Since(set, record.since) = set
  BY <1>2, <1>3 DEF Since
<1>5. Cardinality(set) <= record.failures /\ record.failures < Attempts /\ record.failures \in Nat
  BY <1>1, <1>4 DEF AddressOK, CountOK, Records
<1>6. Cardinality(set) \in Nat
  BY <1>1, FS_CardinalityType DEF AddressOK, Numbered
<1> QED BY <1>1, <1>5, <1>6, Limited

(* The table a wrong password is counted in: some were forgotten, and there *)
(* is room for one more.                                                    *)
Tables(x) ==
    IF ~clients[x].known /\ Throttle!Cardinality(Throttle!Tracked(clients)) >= EvictAbove
    THEN Throttle!Evicted ELSE {clients}
LEMMA TableFacts ==
    ASSUME ThrottleTypes, TableOK, NEW x \in Addresses, NEW table \in Tables(x)
    PROVE  /\ table \in [Addresses -> Records]
           /\ \A y \in Addresses : table[y] = clients[y] \/ (table[y] = Throttle!NoRecord /\ clients[y].known)
           /\ clients[x].known => table = clients
           /\ IsFiniteSet(Throttle!Tracked(table)) /\ Cardinality(Throttle!Tracked(table)) \in Nat
           /\ Cardinality(Throttle!Tracked(table)) <= MaxTracked
           /\ ~clients[x].known => Cardinality(Throttle!Tracked(table)) < MaxTracked
<1> DEFINE T == Throttle!Tracked(clients)
<1>1. PICK size \in Nat : size = Cardinality(T) /\ IsFiniteSet(T) /\ size <= MaxTracked
  BY FS_CardinalityType DEF TableOK
<1>2. Throttle!NoRecord \in Records /\ ~Throttle!NoRecord.known
  BY DEF Throttle!NoRecord, Records
<1>3. T = {y \in Addresses : clients[y].known}
  BY DEF Throttle!Tracked
<1>4. ASSUME NEW gone \in SUBSET T, NEW after, after = Throttle!Forget(clients, gone)
      PROVE  /\ after \in [Addresses -> Records]
             /\ \A y \in Addresses : after[y] = IF y \in gone THEN Throttle!NoRecord ELSE clients[y]
             /\ Throttle!Tracked(after) = T \ gone
  <2>1. /\ after \in [Addresses -> Records]
        /\ \A y \in Addresses : after[y] = IF y \in gone THEN Throttle!NoRecord ELSE clients[y]
    BY <1>2, <1>4 DEF Throttle!Forget, ThrottleTypes
  <2>2. Throttle!Tracked(after) = T \ gone
    BY <1>2, <1>3, <2>1 DEF Throttle!Tracked
  <2> QED BY <2>1, <2>2
<1>5. CASE table = clients /\ (clients[x].known \/ size < MaxTracked)
  BY <1>1, <1>5 DEF ThrottleTypes
<1>6. CASE ~(table = clients /\ (clients[x].known \/ size < MaxTracked))
  <2>1. ~clients[x].known /\ table \in Throttle!Evicted
    BY <1>1, <1>6, Limited, SameCount DEF Tables
  <2>2. PICK out : out = {y \in T : Throttle!SaysNothing(y)}
    OBVIOUS
  <2>3. PICK rest : rest = Throttle!Forget(clients, out)
    OBVIOUS
  <2>4. PICK kept : kept = Throttle!Tracked(rest)
    OBVIOUS
  <2>5. kept = T \ out /\ out \subseteq T
    BY <1>4, <2>2, <2>3, <2>4
  <2>6. \/ table = clients /\ ~(size >= MaxTracked)
        \/ table = rest /\ Cardinality(kept) < MaxTracked
        \/ \E old \in SUBSET kept : table = Throttle!Forget(rest, old) /\ Cardinality(old) = ShedBatch
    BY <1>1, <2>1, <2>2, <2>3, <2>4, SameCount DEF Throttle!Evicted
  <2>7. CASE table = rest /\ Cardinality(kept) < MaxTracked
    <3>1. PICK gone \in SUBSET T : gone = out
      BY <2>5
    <3>2. /\ table \in [Addresses -> Records] /\ Throttle!Tracked(table) = T \ gone
          /\ \A y \in Addresses : table[y] = IF y \in gone THEN Throttle!NoRecord ELSE clients[y]
      BY <1>4, <2>3, <2>7, <3>1
    <3>3. IsFiniteSet(T \ gone) /\ Cardinality(T \ gone) \in Nat /\ Cardinality(T \ gone) < MaxTracked
      BY <1>1, <2>5, <2>7, <3>1, SubsetCount
    <3> QED BY <1>3, <2>1, <3>2, <3>3, Limited
  <2>8. ASSUME NEW old \in SUBSET kept, table = Throttle!Forget(rest, old), Cardinality(old) = ShedBatch
        PROVE  /\ table = Throttle!Forget(clients, out \union old)
               /\ Cardinality(T \ (out \union old)) < MaxTracked
    <3>1. table = Throttle!Forget(clients, out \union old)
      BY <2>3, <2>8 DEF Throttle!Forget
    <3>2. /\ IsFiniteSet(T \ old) /\ Cardinality(T \ old) = size - ShedBatch
      <4>1. T \ old \subseteq T /\ IsFiniteSet(T \ old) /\ IsFiniteSet(old) /\ T \cap old = old
        BY <1>1, <2>5, FS_Subset
      <4>2. Cardinality(T \ old) = Cardinality(T) - Cardinality(T \cap old)
        BY <1>1, FS_Difference
      <4> QED BY <1>1, <2>8, <4>1, <4>2
    <3>3. T \ (out \union old) \subseteq T \ old
      OBVIOUS
    <3> QED BY <1>1, <3>1, <3>2, <3>3, SubsetCount, Limited
  <2>9. CASE \E old \in SUBSET kept : table = Throttle!Forget(rest, old) /\ Cardinality(old) = ShedBatch
    <3>1. PICK old \in SUBSET kept :
            table = Throttle!Forget(clients, out \union old) /\ Cardinality(T \ (out \union old)) < MaxTracked
      BY <2>8, <2>9
    <3>2. PICK gone \in SUBSET T : gone = out \union old
      BY <2>5
    <3> QED BY <1>1, <1>3, <1>4, <2>1, <3>1, <3>2, SubsetCount, Limited
  <2>10. CASE table = clients
    BY <1>1, <1>6, <2>1, <2>6, <2>7, <2>9, <2>10, Limited
  <2> QED BY <2>6, <2>7, <2>9, <2>10
<1> QED BY <1>5, <1>6

LEMMA JudgesChange ==
    ASSUME ThrottleTypes, NEW r \in Slots, NEW y \in Addresses, NEW to \in Addresses \union {Throttle!Free},
           login' = [login EXCEPT ![r] = to]
    PROVE  Judges(y)' = IF y = to THEN Judges(y) \union {r} ELSE Judges(y) \ {r}
<1>1. Judges(y)' = {i \in Slots : login'[i] = y}
  BY DEF Judges
<1>2. \A i \in Slots : login'[i] = IF i = r THEN to ELSE login[i]
  BY DEF ThrottleTypes
<1> QED BY <1>1, <1>2 DEF Judges

LEMMA FewerWait ==
    ASSUME NEW record \in Records, NEW set, NEW waiting \in SUBSET Slots, NEW r, NEW moment \in Nat,
           IsFiniteSet(set), CountOK(record, set, waiting, moment)
    PROVE  CountOK(record, set, waiting \ {r}, moment)
<1>1. IsFiniteSet(waiting) /\ Cardinality(waiting) \in Nat /\ Cardinality(set) \in Nat
  BY Limited, SubsetCount, FS_CardinalityType
<1>2. Cardinality(waiting \ {r}) \in Nat /\ Cardinality(waiting \ {r}) <= Cardinality(waiting)
  BY <1>1, SubsetCount
<1>3. Cardinality(set) + Cardinality(waiting) <= 2 * (Attempts - 1) + Cardinality(Slots)
        => Cardinality(set) + Cardinality(waiting \ {r}) <= 2 * (Attempts - 1) + Cardinality(Slots)
  BY <1>1, <1>2, Limited
<1> QED BY <1>3 DEF CountOK

LEMMA AddressFacts ==
    ASSUME ThrottleTypes, NEW x \in Addresses, AddressOK(x)
    PROVE  /\ clients[x] \in Records /\ guesses[x] \in SUBSET (Nat \X Nat) /\ Judges(x) \in SUBSET Slots
           /\ IsFiniteSet(guesses[x]) /\ Numbered(guesses[x], now) /\ now \in Nat
           /\ \A h \in guesses[x] : now < h[1] + Lockout
           /\ CountOK(clients[x], guesses[x], Judges(x), now)
  BY DEF ThrottleTypes, AddressOK, Judges, Numbered

(* An address a step does not fail for: its record is as it was, or goes    *)
(* with its guesses, or without them when it says nothing.                  *)
LEMMA OtherAddress ==
    ASSUME ThrottleTypes, NEW x \in Addresses, AddressOK(x), NEW r, now' = now,
           Judges(x)' = Judges(x) \/ Judges(x)' = Judges(x) \ {r},
           \/ clients'[x] = clients[x] /\ guesses'[x] = guesses[x]
           \/ clients'[x] = Throttle!NoRecord /\ guesses'[x] = {}
           \/ /\ clients'[x] = Throttle!NoRecord /\ guesses'[x] = guesses[x]
              /\ Cardinality(guesses[x]) < Attempts
    PROVE  AddressOK(x)'
<1>1. PICK record \in Records, set \in SUBSET (Nat \X Nat), waiting \in SUBSET Slots, moment \in Nat :
        record = clients[x] /\ set = guesses[x] /\ waiting = Judges(x) /\ moment = now
  BY AddressFacts
<1>2. /\ IsFiniteSet(set) /\ Numbered(set, moment) /\ \A h \in set : moment < h[1] + Lockout
      /\ CountOK(record, set, waiting, moment)
  BY <1>1, AddressFacts
<1>3. PICK wait : wait = Judges(x)' /\ wait \in {waiting, waiting \ {r}}
  BY <1>1
<1>4. CountOK(record, set, wait, moment)
  <2>1. CountOK(record, set, waiting \ {r}, moment)
    BY <1>2, FewerWait
  <2> QED BY <1>2, <1>3, <2>1
<1>5. CASE clients'[x] = clients[x] /\ guesses'[x] = guesses[x]
  BY <1>1, <1>2, <1>3, <1>4, <1>5 DEF AddressOK
<1>6. Numbered({}, moment) /\ Cardinality({}) < Attempts
  BY FS_EmptySet, Limited DEF Numbered
<1>7. CASE clients'[x] = Throttle!NoRecord /\ guesses'[x] = {}
  <2>1. CountOK(Throttle!NoRecord, {}, wait, moment)
    BY <1>1, <1>6, NewRecordIsOK
  <2> QED BY <1>1, <1>3, <1>6, <1>7, <2>1 DEF AddressOK
<1>8. CASE clients'[x] = Throttle!NoRecord /\ guesses'[x] = guesses[x] /\ Cardinality(guesses[x]) < Attempts
  <2>1. CountOK(Throttle!NoRecord, set, wait, moment)
    BY <1>1, <1>2, <1>8, NewRecordIsOK
  <2> QED BY <1>1, <1>2, <1>3, <1>8, <2>1 DEF AddressOK
<1> QED BY <1>5, <1>7, <1>8

LEMMA ThrottleStarts == Throttle!ThrottleInit => ThrottleInv
<1> SUFFICES ASSUME Throttle!ThrottleInit PROVE ThrottleInv
  OBVIOUS
<1>1. /\ clients = [x \in Addresses |-> Throttle!NoRecord] /\ swept = 0 /\ now = 0
      /\ login = [r \in Slots |-> Throttle!Free] /\ guesses = [x \in Addresses |-> {}]
  BY DEF Throttle!ThrottleInit
<1>2. Throttle!NoRecord \in Records /\ ~Throttle!NoRecord.known
  BY DEF Throttle!NoRecord, Records
<1>3. ThrottleTypes
  BY <1>1, <1>2 DEF ThrottleTypes
<1>4. Throttle!Tracked(clients) = {}
  BY <1>1, <1>2 DEF Throttle!Tracked
<1>5. TableOK
  BY <1>4, FS_EmptySet, Limited DEF TableOK
<1>6. ASSUME NEW x \in Addresses PROVE AddressOK(x)
  <2>1. clients[x] = Throttle!NoRecord /\ guesses[x] = {}
    BY <1>1
  <2>2. Numbered({}, now) /\ Cardinality({}) < Attempts
    BY FS_EmptySet, Limited DEF Numbered
  <2>3. CountOK(Throttle!NoRecord, {}, Judges(x), now)
    BY <1>3, <2>2, NewRecordIsOK
  <2> QED BY <2>1, <2>2, <2>3 DEF AddressOK
<1> QED BY <1>3, <1>5, <1>6 DEF ThrottleInv

LEMMA ComesKeeps ==
    ASSUME ThrottleInv, NEW r \in Slots, NEW x \in Addresses, Throttle!Comes(r, x)
    PROVE  ThrottleInv'
<1>1. ThrottleTypes /\ TableOK
  BY DEF ThrottleInv
<1>2. login' = [login EXCEPT ![r] = x] /\ UNCHANGED <<clients, swept, now, guesses>> /\ login[r] = Throttle!Free
      /\ ~(clients[x].until > now)
  BY DEF Throttle!Comes, Throttle!Locked
<1>3. ThrottleTypes' /\ TableOK'
  BY <1>1, <1>2 DEF ThrottleTypes, TableOK
<1>4. ASSUME NEW y \in Addresses PROVE AddressOK(y)'
  <2>1. AddressOK(y)
    BY DEF ThrottleInv
  <2>2. CASE y # x
    <3>1. Judges(y)' = Judges(y) \ {r}
      BY <1>1, <1>2, <2>2, JudgesChange
    <3> QED BY <1>1, <1>2, <2>1, <3>1, OtherAddress
  <2>3. CASE y = x
    <3>1. PICK wait : wait = Judges(x)'
      OBVIOUS
    <3>2. CountOK(clients[x], guesses[x], wait, now)
      BY <1>2, <2>1, <2>3 DEF AddressOK, CountOK
    <3> QED BY <1>2, <2>1, <2>3, <3>1, <3>2 DEF AddressOK
  <2> QED BY <2>2, <2>3
<1> QED BY <1>3, <1>4 DEF ThrottleInv

LEMMA FailsKeeps ==
    ASSUME ThrottleInv, NEW r \in Slots, Throttle!Fails(r)
    PROVE  ThrottleInv'
<1>1. ThrottleTypes /\ TableOK
  BY DEF ThrottleInv
<1>2. PICK x \in Addresses : x = login[r]
  BY <1>1 DEF ThrottleTypes, Throttle!Fails
<1>3. PICK table \in Tables(x) :
        /\ clients' = [table EXCEPT ![x] = Throttle!Counted(IF table[x].known THEN table[x] ELSE Throttle!Opened)]
        /\ guesses' = [y \in Addresses |->
              IF y = x THEN Throttle!Judged(x)
              ELSE IF y \in {i \in Throttle!Tracked(clients) \ Throttle!Tracked(table) : ~Throttle!SaysNothing(i)}
                   THEN {} ELSE guesses[y]]
  <2>1. PICK table \in Tables(login[r]) :
        /\ clients' = [table EXCEPT ![login[r]] =
              Throttle!Counted(IF table[login[r]].known THEN table[login[r]] ELSE Throttle!Opened)]
        /\ guesses' = [y \in Addresses |->
              IF y = login[r] THEN Throttle!Judged(login[r])
              ELSE IF y \in {i \in Throttle!Tracked(clients) \ Throttle!Tracked(table) : ~Throttle!SaysNothing(i)}
                   THEN {} ELSE guesses[y]]
    BY Zenon DEF Throttle!Fails, Tables
  <2>2. table \in Tables(x)
    BY <1>2, <2>1
  <2>3. clients' = [table EXCEPT ![x] = Throttle!Counted(IF table[x].known THEN table[x] ELSE Throttle!Opened)]
    BY <1>2, <2>1
  <2>4. guesses' = [y \in Addresses |->
              IF y = x THEN Throttle!Judged(x)
              ELSE IF y \in {i \in Throttle!Tracked(clients) \ Throttle!Tracked(table) : ~Throttle!SaysNothing(i)}
                   THEN {} ELSE guesses[y]]
    BY <1>2, <2>1, Zenon
  <2> QED BY <2>2, <2>3, <2>4
<1>4. swept' \in {now, swept} /\ login' = [login EXCEPT ![r] = Throttle!Free] /\ now' = now
  BY DEF Throttle!Fails
<1>5. /\ table \in [Addresses -> Records]
      /\ \A y \in Addresses : table[y] = clients[y] \/ (table[y] = Throttle!NoRecord /\ clients[y].known)
      /\ clients[x].known => table = clients
      /\ IsFiniteSet(Throttle!Tracked(table)) /\ Cardinality(Throttle!Tracked(table)) \in Nat
      /\ Cardinality(Throttle!Tracked(table)) <= MaxTracked
      /\ ~clients[x].known => Cardinality(Throttle!Tracked(table)) < MaxTracked
  BY <1>1, TableFacts
<1>6. PICK set \in SUBSET (Nat \X Nat), waiting \in SUBSET Slots : set = guesses[x] /\ waiting = Judges(x)
  BY <1>1 DEF ThrottleTypes, Judges
<1>7. /\ IsFiniteSet(set) /\ Numbered(set, now) /\ now \in Nat /\ \A h \in set : now < h[1] + Lockout
      /\ CountOK(clients[x], set, waiting, now) /\ clients[x] \in Records /\ AddressOK(x)
  BY <1>1, <1>6, AddressFacts DEF ThrottleInv
<1>8. PICK record \in Records :
        /\ record = IF table[x].known THEN table[x] ELSE Throttle!Opened
        /\ record.known /\ CountOK(record, set, waiting, now)
  <2>1. CASE clients[x].known
    BY <1>5, <1>7, <2>1
  <2>2. CASE ~clients[x].known
    <3>1. ~table[x].known /\ Cardinality(set) < Attempts
      BY <1>5, <1>7, <2>2 DEF CountOK
    <3> QED BY <1>1, <1>7, <3>1, NewRecordIsOK
  <2> QED BY <2>1, <2>2
<1>9. PICK after \in Records : after = Throttle!Counted(record) /\ after.known
  BY <1>1, <1>8, CountedFacts
<1>10. PICK more \in SUBSET (Nat \X Nat) : more = More(set, now) /\ Numbered(more, now)
       /\ \A h \in more : h \in set \/ h[1] = now
  BY <1>7, OneMore
<1>11. /\ clients' = [table EXCEPT ![x] = after] /\ guesses'[x] = more
       /\ \A y \in Addresses \ {x} :
            guesses'[y] = IF clients[y].known /\ ~table[y].known /\ ~Throttle!SaysNothing(y) THEN {} ELSE guesses[y]
  BY <1>3, <1>6, <1>8, <1>9, <1>10, SameCount DEF Throttle!Judged, More, At, Throttle!Tracked
<1>12. /\ clients' \in [Addresses -> Records] /\ clients'[x] = after
       /\ \A y \in Addresses \ {x} : clients'[y] = table[y]
  BY <1>5, <1>9, <1>11
<1>13. guesses' \in [Addresses -> SUBSET (Nat \X Nat)]
  <2>1. \A y \in Addresses : guesses'[y] \in SUBSET (Nat \X Nat)
    <3>1. \A y \in Addresses : y # x => guesses'[y] \in {{}, guesses[y]}
      BY <1>11
    <3> QED BY <1>1, <1>10, <1>11, <3>1 DEF ThrottleTypes
  <2>2. guesses' = [y \in Addresses |-> guesses'[y]]
    BY <1>3
  <2> QED BY <2>1, <2>2
<1>14. ThrottleTypes'
  BY <1>1, <1>4, <1>12, <1>13 DEF ThrottleTypes
<1>15. TableOK'
  <2>1. Throttle!Tracked(clients') = Throttle!Tracked(table) \union {x}
    BY <1>9, <1>12 DEF Throttle!Tracked
  <2>2. clients[x].known => x \in Throttle!Tracked(table)
    BY <1>5 DEF Throttle!Tracked
  <2>3. PICK T : T = Throttle!Tracked(table)
    OBVIOUS
  <2>4. /\ IsFiniteSet(T \union {x})
        /\ Cardinality(T \union {x}) = IF x \in T THEN Cardinality(T) ELSE Cardinality(T) + 1
    BY <1>5, <2>3, FS_AddElement
  <2>5. Cardinality(T \union {x}) <= MaxTracked
    BY <1>5, <2>2, <2>3, <2>4, Limited
  <2> QED BY <2>1, <2>3, <2>4, <2>5 DEF TableOK
<1>16. ASSUME NEW y \in Addresses PROVE AddressOK(y)'
  <2>1. AddressOK(y) /\ Judges(y)' = Judges(y) \ {r}
    BY <1>1, <1>4, JudgesChange, Limited DEF ThrottleInv
  <2>2. CASE y = x
    <3>1. r \in waiting
      BY <1>2, <1>6 DEF Judges
    <3>2. CountOK(after, more, waiting \ {r}, now)
      BY <1>1, <1>7, <1>8, <1>9, <1>10, <3>1, CountedIsOK
    <3>3. \A h \in more : now < h[1] + Lockout
      BY <1>7, <1>10, Limited
    <3> QED BY <1>4, <1>6, <1>10, <1>11, <1>12, <2>1, <2>2, <3>2, <3>3 DEF AddressOK
  <2>3. CASE y # x
    <3>1. CASE table[y] = clients[y]
      <4>1. clients'[y] = clients[y] /\ guesses'[y] = guesses[y]
        BY <1>11, <1>12, <2>3, <3>1
      <4> QED BY <1>1, <1>4, <2>1, <4>1, OtherAddress
    <3>2. CASE table[y] = Throttle!NoRecord /\ clients[y].known
      <4>1. clients'[y] = Throttle!NoRecord /\ ~Throttle!NoRecord.known
        BY <1>12, <2>3, <3>2 DEF Throttle!NoRecord
      <4>2. CASE Throttle!SaysNothing(y)
        <5>1. Cardinality(guesses[y]) < Attempts /\ guesses'[y] = guesses[y]
          BY <1>1, <1>11, <2>1, <2>3, <3>2, <4>2, ClosedSaysNothing
        <5> QED BY <1>1, <1>4, <2>1, <4>1, <5>1, OtherAddress
      <4>3. CASE ~Throttle!SaysNothing(y)
        <5>1. guesses'[y] = {}
          BY <1>11, <2>3, <3>2, <4>1, <4>3
        <5> QED BY <1>1, <1>4, <2>1, <4>1, <5>1, OtherAddress
      <4> QED BY <4>2, <4>3
    <3> QED BY <1>5, <3>1, <3>2
  <2> QED BY <2>2, <2>3
<1> QED BY <1>14, <1>15, <1>16 DEF ThrottleInv

LEMMA JudgedKeeps ==
    ASSUME ThrottleInv, NEW r \in Slots, Throttle!Clears(r) \/ Throttle!IsNoGuess(r)
    PROVE  ThrottleInv'
<1>1. ThrottleTypes /\ TableOK
  BY DEF ThrottleInv
<1>2. PICK x \in Addresses : x = login[r]
  BY <1>1 DEF ThrottleTypes, Throttle!Clears, Throttle!IsNoGuess
<1>3. login' = [login EXCEPT ![r] = Throttle!Free] /\ swept' = swept /\ now' = now
  BY DEF Throttle!Clears, Throttle!IsNoGuess
<1>4. Throttle!NoRecord \in Records /\ ~Throttle!NoRecord.known
  BY DEF Throttle!NoRecord, Records
<1>5. /\ clients' \in [Addresses -> Records] /\ guesses' \in [Addresses -> SUBSET (Nat \X Nat)]
      /\ \A y \in Addresses :
           \/ clients'[y] = clients[y] /\ guesses'[y] = guesses[y]
           \/ clients'[y] = Throttle!NoRecord /\ guesses'[y] = {}
  <2>1. CASE Throttle!Clears(r)
    <3>1. /\ clients' = [y \in Addresses |-> IF y \in {x} THEN Throttle!NoRecord ELSE clients[y]]
          /\ guesses' = [guesses EXCEPT ![x] = {}]
      BY <1>2, <2>1 DEF Throttle!Clears, Throttle!Forget
    <3> QED BY <1>1, <1>4, <3>1 DEF ThrottleTypes
  <2>2. CASE Throttle!IsNoGuess(r)
    BY <1>1, <2>2 DEF Throttle!IsNoGuess, ThrottleTypes
  <2> QED BY <2>1, <2>2
<1>6. ThrottleTypes'
  BY <1>1, <1>3, <1>5 DEF ThrottleTypes
<1>7. TableOK'
  <2>1. PICK T, S : T = Throttle!Tracked(clients) /\ S = Throttle!Tracked(clients')
    OBVIOUS
  <2>2. S \subseteq T
    BY <1>4, <1>5, <2>1 DEF Throttle!Tracked
  <2>3. IsFiniteSet(S) /\ Cardinality(S) \in Nat /\ Cardinality(T) \in Nat /\ Cardinality(S) <= Cardinality(T)
    BY <1>1, <2>1, <2>2, SubsetCount DEF TableOK
  <2> QED BY <1>1, <2>1, <2>3, Limited DEF TableOK
<1>8. ASSUME NEW y \in Addresses PROVE AddressOK(y)'
  <2>1. AddressOK(y) /\ Judges(y)' = Judges(y) \ {r}
    BY <1>1, <1>3, JudgesChange, Limited DEF ThrottleInv
  <2> QED BY <1>1, <1>3, <1>5, <2>1, OtherAddress
<1> QED BY <1>6, <1>7, <1>8 DEF ThrottleInv

(* Time passes: what is forgotten is older than the lockout, and a lock     *)
(* that ends leaves what came after it.                                     *)
LEMMA TicksKeeps == ASSUME ThrottleInv, Throttle!Ticks PROVE ThrottleInv'
<1>1. ThrottleTypes /\ TableOK
  BY DEF ThrottleInv
<1>2. /\ now' = now + 1 /\ UNCHANGED <<clients, swept, login>>
      /\ guesses' = [x \in Addresses |-> {h \in guesses[x] : h[1] + Lockout > now + 1}]
  BY DEF Throttle!Ticks
<1>3. now \in Nat /\ now' \in Nat /\ Lockout \in Nat
  BY <1>1, <1>2, Limited DEF ThrottleTypes
<1>4. ThrottleTypes' /\ TableOK'
  BY <1>1, <1>2, <1>3 DEF ThrottleTypes, TableOK
<1>5. ASSUME NEW x \in Addresses PROVE AddressOK(x)'
  <2>1. PICK record \in Records, set \in SUBSET (Nat \X Nat), waiting \in SUBSET Slots :
          /\ record = clients[x] /\ set = guesses[x] /\ waiting = Judges(x)
          /\ IsFiniteSet(set) /\ Numbered(set, now) /\ (\A h \in set : now < h[1] + Lockout)
          /\ CountOK(record, set, waiting, now)
    BY <1>1, AddressFacts DEF ThrottleInv
  <2>2. PICK rest : rest = {h \in set : h[1] + Lockout > now + 1}
    OBVIOUS
  <2>3. clients'[x] = record /\ guesses'[x] = rest /\ Judges(x)' = waiting
    BY <1>2, <2>1, <2>2 DEF Judges
  <2>4. rest \subseteq set /\ (\A h \in rest : h[1] \in Nat /\ h[1] + Lockout > now + 1)
        /\ \A h \in set : h[1] \in Nat /\ h[1] <= now
    BY <2>1, <2>2 DEF Numbered
  <2>5. IsFiniteSet(rest) /\ Cardinality(rest) \in Nat /\ Cardinality(set) \in Nat
        /\ Cardinality(rest) <= Cardinality(set)
    BY <2>1, <2>4, SubsetCount
  <2>6. Numbered(rest, now + 1)
    <3>1. ASSUME NEW h \in rest PROVE At(rest, h[1]) = At(set, h[1])
      BY <2>2, <2>4 DEF At
    <3>2. \A h \in rest : h[1] <= now + 1
      BY <1>3, <2>4
    <3> QED BY <2>1, <2>4, <2>5, <3>1, <3>2 DEF Numbered
  <2>7. PICK failures \in Nat, since \in Nat, until \in Nat :
          failures = record.failures /\ since = record.since /\ until = record.until
    BY DEF Records
  <2>8. PICK window \in Nat, all \in Nat :
          /\ window = Cardinality(Since(rest, since)) /\ all = Cardinality(Since(set, since)) /\ window <= all
    <3>1. Since(rest, since) \subseteq Since(set, since) /\ Since(set, since) \subseteq set
      BY <2>4 DEF Since
    <3> QED BY <2>1, <3>1, SubsetCount
  <2>9. record.known => window <= failures
    BY <2>1, <2>7, <2>8 DEF CountOK
  <2>10. until > now => until = since + Lockout
    BY <2>1, <2>7 DEF CountOK
  <2>11. until > now /\ until <= now + 1 => Cardinality(rest) = window
    <3>1. SUFFICES ASSUME until > now, until <= now + 1 PROVE Since(rest, since) = rest
      BY <2>8
    <3>2. since + Lockout = now + 1
      BY <1>3, <2>10, <3>1
    <3>3. \A h \in rest : h[1] > since
      BY <1>3, <2>4, <3>2
    <3> QED BY <3>3 DEF Since
  <2>12. /\ failures < Attempts
         /\ ~record.known => until = 0 /\ Cardinality(set) < Attempts
         /\ record.known /\ until <= now => Cardinality(set) < Attempts + failures
         /\ until > now => Cardinality(set) + Cardinality(waiting) <= 2 * (Attempts - 1) + Cardinality(Slots)
    BY <2>1, <2>7 DEF CountOK
  <2>13. ~record.known => Cardinality(rest) < Attempts
    BY <2>5, <2>12, Limited
  <2>14. record.known /\ until <= now + 1 => Cardinality(rest) < Attempts + failures
    BY <1>3, <2>5, <2>7, <2>8, <2>9, <2>11, <2>12, Limited
  <2>15. until > now + 1 => Cardinality(rest) + Cardinality(waiting) <= 2 * (Attempts - 1) + Cardinality(Slots)
    <3>1. Cardinality(waiting) \in Nat
      BY Limited, SubsetCount
    <3> QED BY <1>3, <2>5, <2>7, <2>12, <3>1, Limited
  <2>16. until > now + 1 => until = since + Lockout
    BY <1>3, <2>7, <2>10
  <2>17. CountOK(record, rest, waiting, now + 1)
    BY <2>7, <2>8, <2>9, <2>12, <2>13, <2>14, <2>15, <2>16 DEF CountOK
  <2> QED BY <1>2, <2>2, <2>3, <2>4, <2>6, <2>17 DEF AddressOK
<1> QED BY <1>4, <1>5 DEF ThrottleInv

LEMMA ThrottleStays == ASSUME ThrottleInv, [Throttle!ThrottleNext]_(Throttle!throttleVars) PROVE ThrottleInv'
<1>1. CASE UNCHANGED Throttle!throttleVars
  BY <1>1 DEF Throttle!throttleVars, ThrottleInv, ThrottleTypes, TableOK, AddressOK, Judges
<1>2. CASE Throttle!ThrottleNext
  BY <1>2, ComesKeeps, FailsKeeps, JudgedKeeps, TicksKeeps DEF Throttle!ThrottleNext
<1> QED BY <1>1, <1>2

LEMMA ThrottleBounds == ThrottleInv => GuessesAreBounded
<1> SUFFICES ASSUME ThrottleInv PROVE GuessesAreBounded
  OBVIOUS
<1>1. ThrottleTypes /\ TableOK
  BY DEF ThrottleInv
<1>2. ASSUME NEW x \in Addresses PROVE Cardinality(guesses[x]) <= 2 * (Attempts - 1) + Cardinality(Slots)
  <2>1. PICK record \in Records, set \in SUBSET (Nat \X Nat), waiting \in SUBSET Slots :
          /\ record = clients[x] /\ set = guesses[x] /\ waiting = Judges(x)
          /\ IsFiniteSet(set) /\ CountOK(record, set, waiting, now)
    BY <1>1, AddressFacts DEF ThrottleInv
  <2>2. Cardinality(set) \in Nat /\ Cardinality(waiting) \in Nat /\ now \in Nat
    BY <1>1, <2>1, Limited, SubsetCount, FS_CardinalityType DEF ThrottleTypes
  <2>3. record.failures \in Nat /\ record.until \in Nat /\ record.known \in BOOLEAN
    BY DEF Records
  <2>4. Cardinality(set) <= 2 * (Attempts - 1) + Cardinality(Slots)
    BY <2>1, <2>2, <2>3, Limited DEF CountOK
  <2> QED BY <2>1, <2>4
<1> QED BY <1>1, <1>2, SameCount DEF GuessesAreBounded, Throttle!GuessesAreBounded, TableOK

(* However requests overlap the lock, no address has more wrong passwords   *)
(* judged within a lockout than two windows count and the requests under    *)
(* way bring, and the table stays within its bound.                         *)
THEOREM GuessesStayBounded == Throttle!ThrottleSpec => []GuessesAreBounded
  BY ThrottleStarts, ThrottleStays, ThrottleBounds, PTL DEF Throttle!ThrottleSpec

-----------------------------------------------------------------------------
(***************************************************************************)
(* The repository.  What it knows of a file is of one package, unless it   *)
(* was replaced meanwhile; a look at a folder that stands still has seen   *)
(* all of it; and the files of the metadata are of one writing, unless the *)
(* last one was cut short.                                                 *)
(***************************************************************************)
Or(S) == S \cup {Nobody}
Steps == {"off", "begins", "idle", "reads", "prunes", "admits", "signs", "signed", "stats", "known",
          "writes", "names", "seals", "cleans", "records"}

RunnerTypes ==
  [pc : Steps, quit : Or(Configs), known : [PackageNames -> Or(Repo!Knowledge)], listed : Or(Repo!Listings)]
LookTypes ==
  [todo : SUBSET PackageNames, found : [PackageNames -> Or(Repo!Finds)], listing : [PackageNames -> Or(Repo!Knowledge)],
   skipped : SUBSET PackageNames, copy : Or(Repo!Packages), touched : SUBSET PackageNames, still : BOOLEAN,
   before : SUBSET Repo!Contents, doc : Or(Repo!Docs), answer : Or({"ok", "failed"})]
MetadataTypes ==
  [lists : SUBSET Repo!Contents, repomd : Or(Repo!Docs), signature : Or(Repo!Docs), index : Or(Repo!Docs), entry : Or(Repo!Docs),
   jar : Or(Repo!Docs), library : Or(Repo!Docs)]
CacheTypes ==
  [listed : Repo!Listings, title : Or(Repo!Titles), key : Repo!Keys, known : [PackageNames -> Or(Repo!Knowledge)]]

RepositoryTypes ==
  /\ kind \in PackageKinds /\ config \in Configs
  /\ packages \in [PackageNames -> Or(Repo!Packages)]
  /\ metadata \in MetadataTypes /\ cache \in CacheTypes
  /\ runner \in RunnerTypes /\ look \in LookTypes
  /\ left \in [changes : Nat, reloads : Nat, faults : 0 .. MaxFaults]
  /\ cut \in BOOLEAN

(* What is known of a file, when it was not replaced meanwhile: it is one   *)
(* package, signed with a key.                                              *)
OnePackage(k, key) ==
  k # Nobody /\ ~k.doubt =>
    k.read = k.stamp /\ k.second = k.stamp /\ k.stamp.whole /\ (kind = "rpm" => k.stamp.key = key)

(* What the look found is what is there, unless people touched it since.    *)
InALook == {"reads", "prunes", "admits", "signs", "signed", "stats"}
OneFile == {"signs", "signed", "stats"}
Afterwards == {"known", "writes", "names", "seals", "cleans", "records"}
FoundAsItIs(n) ==
  look.found[n] # Nobody /\ runner.pc \in InALook =>
    /\ look.found[n].before =>
         runner.known[n] # Nobody /\ runner.known[n].stamp = look.found[n].file
    /\ n \notin look.touched =>
         packages[n] = look.found[n].file /\ (~look.found[n].before => look.found[n].file.whole)

InHand ==
  runner.pc \in OneFile =>
    /\ look.todo # {} /\ look.found[Repo!This] # Nobody /\ ~look.found[Repo!This].before
    /\ Repo!At("signs") => look.copy # Nobody /\ kind = "rpm"
    /\ Repo!At("stats") => look.copy # Nobody
    /\ Repo!This \notin look.touched =>
         /\ Repo!At("signs") => look.copy = [look.found[Repo!This].file EXCEPT !.key = config.key]
         /\ Repo!At("signed") \/ (Repo!At("stats") /\ kind = "rpm") => look.found[Repo!This].file.key = config.key
         /\ Repo!At("stats") => look.copy = packages[Repo!This]

Knows ==
  /\ \A n \in PackageNames :
       /\ OnePackage(cache.known[n], cache.key)
       /\ OnePackage(runner.known[n], config.key) /\ OnePackage(look.listing[n], config.key)
       /\ FoundAsItIs(n)
  /\ InHand

(* How far the look is with a file of a folder that stands still.           *)
Unreadable(n) == left.faults = MaxFaults => ~packages[n].whole
StandsIn(known, n) == known[n] # Nobody /\ known[n].stamp = packages[n]
SeenIn(known, n) ==
  IF n \in look.skipped THEN known[n] = Nobody /\ Unreadable(n)
  ELSE IF packages[n] = Nobody THEN known[n] = Nobody ELSE StandsIn(known, n)
SortedOut(n) ==
  IF n \in look.skipped THEN look.found[n] = Nobody /\ Unreadable(n)
  ELSE look.found[n] = Nobody <=> packages[n] = Nobody
Seen(n) ==
  /\ Repo!At("reads") => IF n \in look.todo THEN packages[n] # Nobody /\ n \notin look.skipped ELSE SortedOut(n)
  /\ Repo!At("prunes") => SortedOut(n)
  /\ runner.pc \in {"admits"} \cup OneFile =>
       IF n \in look.todo THEN packages[n] # Nobody /\ n \notin look.skipped ELSE SeenIn(look.listing, n)
  /\ runner.pc \in Afterwards \/ look.answer = "ok" => SeenIn(runner.known, n)
Sees ==
  /\ look.answer = "ok" => Repo!At("idle")
  /\ Repo!At("off") => look.found = Repo!Unread /\ look.listing = Repo!Unread
  /\ runner.pc \in {"reads", "prunes"} => look.listing = Repo!Unread
  /\ Repo!At("reads") => \A n \in look.todo : look.found[n] = Nobody
  /\ runner.pc \in {"admits"} \cup OneFile => \A n \in look.todo : look.found[n] # Nobody /\ look.listing[n] = Nobody
  /\ look.still => look.touched = {} /\ \A n \in PackageNames : Seen(n)

(* What is too old has newer ones that stay.                                *)
Newer(n) == {m \in Repo!Candidates \ look.todo : Repo!Before(m, n)}
KeepsTheNewest ==
  Repo!At("prunes") => \A n \in look.todo : look.found[n] # Nobody /\ Cardinality(Newer(n)) >= KeepNewest

(* The metadata, file by file.                                              *)
Writing == {"writes", "names", "seals", "cleans", "records"}
TheDoc(doc) ==
  /\ doc # Nobody /\ doc.entries = Repo!Entries(runner.known)
  /\ doc.title = config.title /\ doc.key = config.key
InWriting ==
  /\ runner.pc \in Writing => TheDoc(look.doc)
  /\ kind # "rpm" => ~Repo!At("cleans")
  /\ kind = "jellyfin" => ~Repo!At("names") /\ ~Repo!At("seals")
  /\ runner.pc \in {"seals", "cleans", "records"} \/ (Repo!At("names") /\ kind = "fdroid") => cut
ListsAreThere ==
  /\ recent \subseteq metadata.lists
  /\ metadata.repomd # Nobody => metadata.repomd.entries \in metadata.lists
  /\ kind = "rpm" =>
       /\ runner.pc \in {"names", "seals", "cleans", "records"} => look.doc.entries \in metadata.lists
       /\ runner.pc \in {"writes", "names"} => look.before = Repo!ListsOf(metadata.repomd)
       /\ runner.pc \in {"seals", "cleans"} => recent \subseteq Repo!KeepsLists
       /\ runner.pc \in {"seals", "cleans", "records"} => metadata.repomd = look.doc
       /\ runner.pc \in {"cleans", "records"} => metadata.signature = look.doc
IndexIsLater ==
  /\ metadata.jar # Nobody =>
       metadata.index # Nobody /\ metadata.entry # Nobody /\ metadata.jar.at <= metadata.entry.at
  /\ kind = "fdroid" =>
       /\ runner.pc \in {"writes", "names"} /\ metadata.entry # Nobody => look.doc.at > metadata.entry.at
       /\ Repo!At("seals") /\ metadata.jar # Nobody => look.doc.at > metadata.jar.at
       /\ runner.pc \in {"names", "seals", "records"} => metadata.index = look.doc
       /\ runner.pc \in {"seals", "records"} => metadata.entry = look.doc
       /\ Repo!At("records") => metadata.jar = look.doc
LibraryIsThere == kind = "jellyfin" /\ Repo!At("records") => metadata.library = look.doc

(* Unless the last writing was cut short, the files are of one writing, of  *)
(* what was listed last.                                                    *)
OfOneWriting(doc) ==
  /\ kind = "rpm" => metadata.signature = doc
  /\ kind = "fdroid" => metadata.entry = doc /\ metadata.jar = doc
  /\ \A n \in PackageNames : doc.entries[n] # Nobody => doc.entries[n][1] = doc.entries[n][2]
  /\ runner.listed # Nobody =>
       Repo!ListingOf(doc.entries) = runner.listed /\ doc.title = config.title /\ doc.key = config.key
Agrees == ~cut /\ Repo!Published # Nobody => OfOneWriting(Repo!Published)
Serves ==
  look.answer = "ok" /\ look.still /\ ~cut /\ (\A n \in PackageNames : runner.known[n] # Nobody => ~runner.known[n].doubt) =>
    Repo!Whole(Repo!Published)

MetadataOK == InWriting /\ ListsAreThere /\ IndexIsLater /\ LibraryIsThere /\ Agrees /\ Serves

RepositoryInv == RepositoryTypes /\ Knows /\ Sees /\ KeepsTheNewest /\ MetadataOK

(* What the cache says was listed is what the metadata says, unless nothing *)
(* was or something has failed.                                             *)
IsOf(listed, title, key) ==
  Repo!Published # Nobody =>
    /\ Repo!ListingOf(Repo!Published.entries) = listed
    /\ Repo!Published.title = title /\ Repo!Published.key = key
CacheAgrees ==
  left.faults = MaxFaults /\ ~cut /\ cache.listed # Repo!Unread => IsOf(cache.listed, cache.title, cache.key)
CacheInv == CacheAgrees /\ (~Repo!At("off") => runner.listed \in Repo!Listings)

-----------------------------------------------------------------------------
(* What the fields are, and what they become.                               *)
LEMMA FieldsOf ==
  ASSUME RepositoryTypes
  PROVE  /\ runner.pc \in Steps /\ runner.quit \in Or(Configs)
         /\ runner.known \in [PackageNames -> Or(Repo!Knowledge)] /\ runner.listed \in Or(Repo!Listings)
         /\ look.todo \subseteq PackageNames /\ look.found \in [PackageNames -> Or(Repo!Finds)]
         /\ look.listing \in [PackageNames -> Or(Repo!Knowledge)] /\ look.skipped \subseteq PackageNames
         /\ look.copy \in Or(Repo!Packages) /\ look.touched \subseteq PackageNames /\ look.still \in BOOLEAN
         /\ look.before \subseteq Repo!Contents /\ look.doc \in Or(Repo!Docs)
         /\ look.answer \in Or({"ok", "failed"})
         /\ packages \in [PackageNames -> Or(Repo!Packages)]
<1>1. runner \in RunnerTypes /\ look \in LookTypes /\ packages \in [PackageNames -> Or(Repo!Packages)]
  BY DEF RepositoryTypes
<1>2. /\ runner.pc \in Steps /\ runner.quit \in Or(Configs)
      /\ runner.known \in [PackageNames -> Or(Repo!Knowledge)] /\ runner.listed \in Or(Repo!Listings)
  BY <1>1 DEF RunnerTypes
<1>3. /\ look.todo \subseteq PackageNames /\ look.found \in [PackageNames -> Or(Repo!Finds)]
      /\ look.listing \in [PackageNames -> Or(Repo!Knowledge)] /\ look.skipped \subseteq PackageNames
      /\ look.copy \in Or(Repo!Packages) /\ look.touched \subseteq PackageNames /\ look.still \in BOOLEAN
      /\ look.before \subseteq Repo!Contents /\ look.doc \in Or(Repo!Docs)
      /\ look.answer \in Or({"ok", "failed"})
  BY <1>1 DEF LookTypes
<1> QED BY <1>1, <1>2, <1>3

RunnerIs(pc, quit, known, listed) ==
  /\ runner' \in RunnerTypes /\ runner'.pc = pc /\ runner'.quit = quit
  /\ runner'.known = known /\ runner'.listed = listed

LEMMA RunnerGoes ==
  ASSUME RepositoryTypes, NEW pc \in Steps, Repo!Goes(pc)
  PROVE  RunnerIs(pc, runner.quit, runner.known, runner.listed)
BY DEF RepositoryTypes, Repo!Goes, RunnerTypes, RunnerIs

LookIs(todo, found, listing, skipped, copy, touched) ==
  /\ look' \in LookTypes /\ look'.todo = todo /\ look'.found = found /\ look'.listing = listing
  /\ look'.skipped = skipped /\ look'.copy = copy /\ look'.touched = touched
  /\ look'.still = look.still /\ look'.doc = look.doc /\ look'.before = look.before
  /\ look'.answer = look.answer

LEMMA LookBecomes ==
  ASSUME RepositoryTypes, NEW todo \in SUBSET PackageNames, NEW found \in [PackageNames -> Or(Repo!Finds)],
         NEW listing \in [PackageNames -> Or(Repo!Knowledge)], NEW skipped \in SUBSET PackageNames, NEW copy \in Or(Repo!Packages),
         NEW touched \in SUBSET PackageNames,
         look' = [look EXCEPT !.todo = todo, !.found = found, !.listing = listing, !.skipped = skipped,
                              !.copy = copy, !.touched = touched]
  PROVE  LookIs(todo, found, listing, skipped, copy, touched)
BY DEF RepositoryTypes, LookTypes, LookIs

(* A look that is over, or has not begun.                                   *)
LEMMA NoLookIs ==
  Repo!NoLook \in LookTypes
BY DEF Repo!NoLook, LookTypes, Repo!Unread, Or

LEMMA LeftIs ==
  ASSUME RepositoryTypes, Repo!Faulty
  PROVE  /\ left' \in [changes : Nat, reloads : Nat, faults : 0 .. MaxFaults]
         /\ left'.changes = left.changes /\ left'.faults < MaxFaults /\ left'.faults # MaxFaults
BY RepositoryAssumption DEF RepositoryTypes, Repo!Faulty

LEMMA ThisIs ==
  ASSUME RepositoryTypes, look.todo # {}
  PROVE  Repo!This \in look.todo /\ Repo!This \in PackageNames
<1> DEFINE less == {x \in Nat \X Nat : x[1] < x[2]}
<1>1. IsWellFoundedOn(less, Nat)
  BY NatLessThanWellFounded DEF OpToRel
<1>2. look.todo \subseteq Nat /\ look.todo \subseteq PackageNames
  BY FieldsOf, RepositoryAssumption
<1>3. PICK x \in look.todo : \A y \in look.todo : ~(<<y, x>> \in less)
  BY <1>1, <1>2, WFMin
<1>4. ASSUME NEW y \in look.todo PROVE x <= y
  <2>1. x \in Nat /\ y \in Nat /\ ~(<<y, x>> \in less)
    BY <1>2, <1>3
  <2> QED BY <2>1
<1>5. Repo!Min(look.todo) \in look.todo
  BY <1>4 DEF Repo!Min
<1> QED BY <1>2, <1>5 DEF Repo!This

(* What is not of the metadata leaves the metadata as it is.                *)
LEMMA MetadataStays ==
  ASSUME RepositoryInv, UNCHANGED <<kind, config, metadata, recent, cut>>,
         runner'.listed = runner.listed,
         \/ runner'.pc \notin Writing
         \/ runner'.pc = runner.pc /\ runner'.known = runner.known /\ look'.doc = look.doc /\ look'.before = look.before,
         \/ look'.answer # "ok" \/ look'.still = FALSE
         \/ runner'.known = runner.known /\ look'.answer = look.answer /\ look'.still = look.still
  PROVE  MetadataOK'
<1>1. MetadataOK
  BY DEF RepositoryInv
<1>2. InWriting'
  <2>1. CASE runner'.pc \notin Writing
    BY <2>1 DEF InWriting, Writing, Repo!At
  <2>2. CASE runner'.pc = runner.pc /\ runner'.known = runner.known /\ look'.doc = look.doc
    BY <1>1, <2>2 DEF InWriting, MetadataOK, Repo!At, TheDoc, Repo!Entries
  <2> QED BY <2>1, <2>2
<1>3. ListsAreThere'
  <2>1. CASE runner'.pc \notin Writing
    BY <1>1, <2>1 DEF ListsAreThere, MetadataOK, Writing
  <2>2. CASE runner'.pc = runner.pc /\ look'.doc = look.doc /\ look'.before = look.before
    BY <1>1, <2>2 DEF ListsAreThere, MetadataOK, Repo!KeepsLists, Repo!ListsOf
  <2> QED BY <2>1, <2>2
<1>4. IndexIsLater' /\ LibraryIsThere'
  <2>1. CASE runner'.pc \notin Writing
    BY <1>1, <2>1 DEF IndexIsLater, LibraryIsThere, MetadataOK, Writing, Repo!At
  <2>2. CASE runner'.pc = runner.pc /\ look'.doc = look.doc
    BY <1>1, <2>2 DEF IndexIsLater, LibraryIsThere, MetadataOK, Repo!At
  <2> QED BY <2>1, <2>2
<1>5. Repo!Published' = Repo!Published
  BY DEF Repo!Published
<1>6. Agrees'
  BY <1>1, <1>5 DEF Agrees, MetadataOK, OfOneWriting, Repo!ListingOf
<1>7. Serves'
  BY <1>1, <1>5 DEF Serves, MetadataOK, Repo!Whole, Repo!Entries
<1> QED BY <1>2, <1>3, <1>4, <1>6, <1>7 DEF MetadataOK

(* What writes the metadata, or has something else to do than to look,      *)
(* leaves what is known as it is.                                           *)
LEMMA KnowledgeStays ==
  ASSUME RepositoryInv, UNCHANGED <<kind, config, packages, cache>>, runner'.known = runner.known,
         look'.found = look.found, look'.listing = look.listing, look'.touched = look.touched,
         look'.skipped = look.skipped, look'.still = look.still,
         runner'.pc \in Afterwards, runner.pc \in Afterwards,
         left'.faults = left.faults \/ left'.faults # MaxFaults, look'.answer # "ok"
  PROVE  Knows' /\ Sees' /\ KeepsTheNewest'
<1>1. Knows'
  BY DEF RepositoryInv, Knows, OnePackage, FoundAsItIs, InHand, Afterwards, InALook, OneFile
<1>2. Sees'
  BY DEF RepositoryInv, Sees, Seen, SeenIn, StandsIn, Unreadable, Afterwards, OneFile, Repo!At
<1>3. KeepsTheNewest'
  BY DEF KeepsTheNewest, Afterwards, Repo!At
<1> QED BY <1>1, <1>2, <1>3

(* A look that is over knows what it knew.                                  *)
LEMMA LookIsOver ==
  ASSUME RepositoryInv, kind' = kind, packages' = packages, runner'.pc \in {"off", "idle", "begins"},
         \A n \in PackageNames : OnePackage(runner'.known[n], config'.key),
         \A n \in PackageNames : OnePackage(cache'.known[n], cache'.key),
         look'.found = Repo!Unread, look'.listing = Repo!Unread, look'.still => look'.touched = {},
         look'.answer # "ok"
  PROVE  Knows' /\ Sees' /\ KeepsTheNewest'
<1>1. \A n \in PackageNames : (look.found')[n] = Nobody /\ (look.listing')[n] = Nobody
  BY DEF Repo!Unread
<1>2. \A n \in PackageNames : FoundAsItIs(n)'
  BY <1>1 DEF FoundAsItIs
<1>3. Knows'
  BY <1>1, <1>2 DEF Knows, InHand, OneFile, OnePackage
<1>4. Sees'
  BY DEF Sees, Seen, Repo!At, OneFile, Afterwards
<1>5. KeepsTheNewest'
  BY DEF KeepsTheNewest, Repo!At
<1> QED BY <1>3, <1>4, <1>5

-----------------------------------------------------------------------------
(* People.                                                                  *)
LEMMA ChangesKeeps ==
  ASSUME RepositoryInv, NEW n \in PackageNames, NEW file \in PackageFiles \cup {Nobody}, Repo!Changes(n, file)
  PROVE  RepositoryInv'
<1>1. RepositoryTypes /\ look.touched \subseteq PackageNames /\ packages \in [PackageNames -> Or(Repo!Packages)]
  BY FieldsOf DEF RepositoryInv
<1>2. /\ look' \in LookTypes /\ look'.touched = look.touched \cup {n} /\ look'.still = FALSE
      /\ look'.todo = look.todo /\ look'.found = look.found /\ look'.listing = look.listing
      /\ look'.skipped = look.skipped /\ look'.copy = look.copy /\ look'.doc = look.doc
      /\ look'.before = look.before /\ look'.answer = look.answer
  BY <1>1 DEF Repo!Changes, RepositoryTypes, LookTypes
<1>3. /\ packages' \in [PackageNames -> Or(Repo!Packages)] /\ \A m \in PackageNames : m # n => packages'[m] = packages[m]
      /\ UNCHANGED <<kind, config, metadata, cache, runner, recent, cut>>
  BY <1>1, RepositoryAssumption DEF Repo!Changes, Or
<1>4. left' \in [changes : Nat, reloads : Nat, faults : 0 .. MaxFaults]
  BY <1>1 DEF Repo!Changes, RepositoryTypes
<1>5. RepositoryTypes'
  BY <1>1, <1>2, <1>3, <1>4 DEF RepositoryTypes, RunnerTypes
<1>6. \A m \in PackageNames : FoundAsItIs(m) => FoundAsItIs(m)'
  BY <1>2, <1>3 DEF FoundAsItIs
<1>7. InHand'
  <2>1. Repo!This' = Repo!This
    BY <1>2 DEF Repo!This
  <2>2. look.todo # {} => Repo!This \in PackageNames
    BY <1>1, ThisIs
  <2> QED BY <1>2, <1>3, <2>1, <2>2 DEF RepositoryInv, Knows, InHand, Repo!At
<1>8. Knows'
  BY <1>2, <1>3, <1>6, <1>7 DEF RepositoryInv, Knows, OnePackage
<1>9. Sees'
  BY <1>2, <1>3 DEF RepositoryInv, Sees, Repo!At
<1>10. KeepsTheNewest'
  <2>1. \A m \in PackageNames : Newer(m)' = Newer(m)
    BY <1>2, <1>3 DEF Newer, Repo!Candidates, Repo!Before, Repo!Version
  <2>2. look.todo \subseteq PackageNames
    BY <1>1, FieldsOf
  <2> QED BY <1>2, <1>3, <2>1, <2>2 DEF RepositoryInv, KeepsTheNewest, Repo!At
<1>11. MetadataOK'
  BY <1>2, <1>3, MetadataStays
<1> QED BY <1>5, <1>8, <1>9, <1>10, <1>11 DEF RepositoryInv

LEMMA WipesKeeps ==
  ASSUME RepositoryInv, Repo!Wipes
  PROVE  RepositoryInv'
<1>1. RepositoryTypes /\ MetadataOK
  BY DEF RepositoryInv
<1>2. /\ look' \in LookTypes /\ look'.touched = look.touched /\ look'.still = FALSE
      /\ look'.todo = look.todo /\ look'.found = look.found /\ look'.listing = look.listing
      /\ look'.skipped = look.skipped /\ look'.copy = look.copy /\ look'.doc = look.doc
      /\ look'.before = look.before /\ look'.answer = look.answer
  BY <1>1 DEF Repo!Wipes, RepositoryTypes, LookTypes
<1>3. /\ UNCHANGED <<kind, config, packages, cache, runner, cut>> /\ runner.pc \notin Writing
      /\ metadata' = Repo!Blank /\ recent' = {} /\ kind # "jellyfin"
  BY DEF Repo!Wipes, Writing
<1>4. left' \in [changes : Nat, reloads : Nat, faults : 0 .. MaxFaults]
  BY <1>1 DEF Repo!Wipes, RepositoryTypes
<1>5. Repo!Blank \in MetadataTypes
  BY DEF Repo!Blank, MetadataTypes, Or
<1>6. RepositoryTypes'
  BY <1>1, <1>2, <1>3, <1>4, <1>5 DEF RepositoryTypes, RunnerTypes
<1>7. Repo!This' = Repo!This
  BY <1>2 DEF Repo!This
<1>8. Knows'
  BY <1>2, <1>3, <1>7 DEF RepositoryInv, Knows, OnePackage, FoundAsItIs, InHand, Repo!At
<1>9. Sees'
  BY <1>2, <1>3 DEF RepositoryInv, Sees, Repo!At
<1>10. KeepsTheNewest'
  BY <1>2, <1>3 DEF RepositoryInv, KeepsTheNewest, Newer, Repo!Candidates, Repo!Before, Repo!Version, Repo!At
<1>11. InWriting' /\ ListsAreThere' /\ IndexIsLater' /\ LibraryIsThere'
  BY <1>3 DEF InWriting, ListsAreThere, IndexIsLater, LibraryIsThere, Repo!Blank, Writing, Repo!At
<1>12. Repo!Published' = Nobody
  BY <1>1, <1>3, RepositoryAssumption DEF Repo!Published, Repo!Blank, RepositoryTypes
<1>13. Agrees' /\ Serves'
  BY <1>2, <1>12 DEF Agrees, Serves
<1> QED BY <1>6, <1>8, <1>9, <1>10, <1>11, <1>13 DEF RepositoryInv, MetadataOK

(* The runner starts and stops.                                             *)
LEMMA StoppedIs ==
  /\ Repo!NoLook.found = Repo!Unread /\ Repo!NoLook.listing = Repo!Unread /\ Repo!NoLook.touched = {} /\ Repo!NoLook.answer = Nobody
  /\ Repo!Stopped \in RunnerTypes /\ Repo!Stopped.pc = "off" /\ Repo!Stopped.known = Repo!Unread /\ Repo!Stopped.listed = Nobody
  /\ \A key : \A n \in PackageNames : OnePackage(Repo!Unread[n], key)
BY DEF Repo!NoLook, Repo!Stopped, RunnerTypes, Steps, Repo!Unread, Or, OnePackage

(* While it is off nothing is known or found.                               *)
LEMMA ReloadsKeeps ==
  ASSUME RepositoryInv, NEW to \in Configs, Repo!Reloads(to)
  PROVE  RepositoryInv'
<1>1. RepositoryTypes
  BY DEF RepositoryInv
<1>2. /\ RunnerIs(runner.pc, to, runner.known, runner.listed)
      /\ UNCHANGED <<kind, config, packages, metadata, cache, look, recent, cut>>
  BY <1>1 DEF Repo!Reloads, RepositoryTypes, RunnerTypes, RunnerIs, Or
<1>3. left' \in [changes : Nat, reloads : Nat, faults : 0 .. MaxFaults] /\ left'.faults = left.faults
  BY <1>1 DEF Repo!Reloads, RepositoryTypes
<1>4. RepositoryTypes'
  BY <1>1, <1>2, <1>3 DEF RepositoryTypes, RunnerIs, LookTypes
<1>5. Repo!This' = Repo!This
  BY <1>2 DEF Repo!This
<1>6. Knows'
  BY <1>2, <1>5 DEF RepositoryInv, Knows, OnePackage, FoundAsItIs, InHand, Repo!At, RunnerIs
<1>7. Sees'
  BY <1>2, <1>3 DEF RepositoryInv, Sees, Seen, SeenIn, SortedOut, StandsIn, Unreadable, Repo!At, RunnerIs
<1>8. KeepsTheNewest'
  BY <1>2 DEF RepositoryInv, KeepsTheNewest, Newer, Repo!Candidates, Repo!Before, Repo!Version, Repo!At, RunnerIs
<1>9. MetadataOK'
  BY <1>2, MetadataStays DEF RunnerIs
<1> QED BY <1>4, <1>6, <1>7, <1>8, <1>9 DEF RepositoryInv

LEMMA GoneKeeps ==
  ASSUME RepositoryInv, Repo!Gone, left' \in [changes : Nat, reloads : Nat, faults : 0 .. MaxFaults]
  PROVE  RepositoryInv'
<1>1. RepositoryTypes /\ MetadataOK
  BY DEF RepositoryInv
<1>2. /\ runner' = Repo!Stopped /\ look' = Repo!NoLook /\ UNCHANGED <<kind, packages, cache, recent, cut>>
      /\ config' \in Configs
  BY <1>1 DEF Repo!Gone, RepositoryTypes, RunnerTypes, Or
<1>3. /\ metadata' \in MetadataTypes /\ metadata'.library = Nobody /\ metadata'.lists = metadata.lists
      /\ metadata'.repomd = metadata.repomd /\ metadata'.signature = metadata.signature
      /\ metadata'.index = metadata.index /\ metadata'.entry = metadata.entry /\ metadata'.jar = metadata.jar
  BY <1>1 DEF Repo!Gone, RepositoryTypes, MetadataTypes, Or
<1>4. RepositoryTypes'
  BY <1>1, <1>2, <1>3, StoppedIs, NoLookIs DEF RepositoryTypes
<1>5. Knows' /\ Sees' /\ KeepsTheNewest'
  <2>1. \A n \in PackageNames : OnePackage(runner'.known[n], config'.key) /\ OnePackage(cache'.known[n], cache'.key)
    <3>1. \A n \in PackageNames : OnePackage(cache.known[n], cache.key)
      BY DEF RepositoryInv, Knows
    <3>2. runner'.known = Repo!Unread
      BY <1>2, StoppedIs
    <3> QED BY <1>2, <3>1, <3>2, StoppedIs
  <2>2. look'.answer # "ok"
    BY <1>2, StoppedIs, RepositoryAssumption
  <2>3. /\ UNCHANGED <<kind, packages>> /\ runner'.pc = "off" /\ look'.found = Repo!Unread /\ look'.listing = Repo!Unread
        /\ look'.touched = {}
    BY <1>2, StoppedIs
  <2> QED BY <2>1, <2>2, <2>3, LookIsOver
<1>6. InWriting' /\ ListsAreThere' /\ IndexIsLater' /\ LibraryIsThere'
  BY <1>1, <1>2, <1>3, StoppedIs
  DEF MetadataOK, InWriting, ListsAreThere, IndexIsLater, LibraryIsThere, Writing, Repo!At
<1>7. Agrees'
  <2>1. CASE kind = "jellyfin"
    BY <1>2, <1>3, <2>1 DEF Agrees, Repo!Published
  <2>2. CASE kind # "jellyfin"
    <3>1. Repo!Published' = Repo!Published
      BY <1>1, <1>2, <1>3, <2>2, RepositoryAssumption DEF Repo!Published, RepositoryTypes
    <3> QED BY <1>1, <1>2, <1>3, <3>1, StoppedIs DEF MetadataOK, Agrees, OfOneWriting
  <2> QED BY <2>1, <2>2
<1>8. Serves'
  BY <1>2, StoppedIs, RepositoryAssumption DEF Serves
<1> QED BY <1>4, <1>5, <1>6, <1>7, <1>8 DEF RepositoryInv, MetadataOK

LEMMA StopsKeeps ==
  ASSUME RepositoryInv, Repo!Stops \/ Repo!Crashes
  PROVE  RepositoryInv'
<1>1. RepositoryTypes
  BY DEF RepositoryInv
<1>2. Repo!Gone /\ left' \in [changes : Nat, reloads : Nat, faults : 0 .. MaxFaults]
  BY <1>1, LeftIs DEF Repo!Stops, Repo!Crashes, RepositoryTypes
<1> QED BY <1>2, GoneKeeps

(* The runner starts with what the cache has, or with nothing.              *)
LEMMA StartsKeeps ==
  ASSUME RepositoryInv,
         NEW known \in [PackageNames -> Or(Repo!Knowledge)], NEW listed \in Repo!Listings, Repo!Starts(known, listed),
         \A n \in PackageNames : OnePackage(known[n], config.key) /\ OnePackage(cache'.known[n], cache'.key),
         cache' \in CacheTypes, left' \in [changes : Nat, reloads : Nat, faults : 0 .. MaxFaults],
         left.faults = MaxFaults /\ ~cut /\ listed # Repo!Unread => IsOf(listed, config.title, config.key)
  PROVE  RepositoryInv'
<1>1. /\ RepositoryTypes /\ MetadataOK /\ look.found = Repo!Unread /\ look.listing = Repo!Unread
      /\ look.answer # "ok" /\ (look.still => look.touched = {})
      /\ runner' = [runner EXCEPT !.pc = "begins", !.known = known, !.listed = listed]
      /\ cut' = (cut \/ Repo!IsOther(listed))
      /\ UNCHANGED <<kind, config, packages, metadata, look, recent>>
  BY DEF RepositoryInv, Sees, Repo!At, Repo!Starts
<1>2. RunnerIs("begins", runner.quit, known, listed)
  BY <1>1 DEF RepositoryTypes, RunnerTypes, RunnerIs, Steps, Or
<1>9. /\ cut' \in BOOLEAN /\ (~cut' => ~cut)
      /\ ~cut' /\ Repo!Published # Nobody =>
           Repo!ListingOf(Repo!Published.entries) = listed /\ Repo!Published.title = config.title
             /\ Repo!Published.key = config.key
  <2>1. cut \in BOOLEAN /\ left.faults \in 0 .. MaxFaults /\ Repo!IsOther(listed) \in BOOLEAN
    BY <1>1 DEF RepositoryTypes, Repo!IsOther
  <2>2. left.faults = MaxFaults \/ left.faults < MaxFaults
    BY <2>1, RepositoryAssumption
  <2> QED BY <1>1, <2>1, <2>2 DEF Repo!IsOther, IsOf
<1>3. RepositoryTypes'
  BY <1>1, <1>2, <1>9 DEF RepositoryTypes, RunnerIs
<1>4. Knows' /\ Sees' /\ KeepsTheNewest'
  BY <1>1, <1>2, LookIsOver DEF RunnerIs
<1>5. InWriting' /\ ListsAreThere' /\ IndexIsLater' /\ LibraryIsThere'
  BY <1>1, <1>2 DEF RunnerIs, MetadataOK, InWriting, ListsAreThere, IndexIsLater, LibraryIsThere, Writing, Repo!At
<1>6. Agrees'
  <2>1. Repo!Published' = Repo!Published
    BY <1>1 DEF Repo!Published
  <2> QED BY <1>1, <1>2, <1>9, <2>1 DEF MetadataOK, Agrees, OfOneWriting, RunnerIs, Repo!ListingOf
<1>7. Serves'
  BY <1>1 DEF Serves
<1> QED BY <1>3, <1>4, <1>5, <1>6, <1>7 DEF RepositoryInv, MetadataOK

LEMMA UnreadIs ==
  /\ Repo!Unread \in [PackageNames -> Or(Repo!Knowledge)] /\ Repo!Unread \in Repo!Listings /\ Repo!Unread # Nobody
  /\ Repo!NoCache \in CacheTypes /\ Repo!NoCache.known = Repo!Unread /\ Repo!NoCache.listed = Repo!Unread
<1>1. Repo!Unread \in [PackageNames -> Or(Repo!Knowledge)] /\ Repo!Unread \in Repo!Listings
  BY DEF Repo!Unread, Or, Repo!Listings
<1>2. Repo!NoCache \in CacheTypes
  BY <1>1 DEF Repo!NoCache, CacheTypes, Or, Repo!Keys
<1> QED BY <1>1, <1>2, RepositoryAssumption DEF Repo!NoCache

LEMMA StartKeeps ==
  ASSUME RepositoryInv, CacheAgrees, Repo!Restores \/ Repo!Drops \/ Repo!CannotRestore
  PROVE  RepositoryInv'
<1>1. RepositoryTypes
  BY DEF RepositoryInv
<1>2. /\ cache \in CacheTypes /\ cache.known \in [PackageNames -> Or(Repo!Knowledge)] /\ cache.listed \in Repo!Listings
      /\ left \in [changes : Nat, reloads : Nat, faults : 0 .. MaxFaults]
      /\ \A n \in PackageNames : OnePackage(cache.known[n], cache.key)
  BY <1>1 DEF RepositoryTypes, CacheTypes, RepositoryInv, Knows
<1>3. CASE Repo!Restores
  <2> DEFINE listed == IF cache.title = config.title THEN cache.listed ELSE Repo!Unread
  <2>1. /\ listed \in Repo!Listings /\ Repo!Starts(cache.known, listed) /\ cache.key = config.key
        /\ UNCHANGED <<cache, left>>
    BY <1>2, <1>3, UnreadIs DEF Repo!Restores
  <2>2. left.faults = MaxFaults /\ ~cut /\ listed # Repo!Unread => IsOf(listed, config.title, config.key)
    BY <2>1 DEF CacheAgrees
  <2> HIDE DEF listed
  <2>3. \A n \in PackageNames : OnePackage(cache.known[n], config.key) /\ OnePackage(cache'.known[n], cache'.key)
    <3>1. kind' = kind
      BY <2>1 DEF Repo!Starts
    <3> QED BY <1>2, <2>1, <3>1 DEF OnePackage
  <2> QED BY <1>2, <2>1, <2>2, <2>3, StartsKeeps
<1>4. CASE Repo!Drops
  <2>1. Repo!Starts(Repo!Unread, Repo!Unread) /\ cache' = Repo!NoCache /\ UNCHANGED left
    BY <1>4 DEF Repo!Drops
  <2> QED BY <1>2, <2>1, UnreadIs, StartsKeeps, StoppedIs
<1>5. CASE Repo!CannotRestore
  <2>1. Repo!Starts(Repo!Unread, Repo!Unread) /\ Repo!Faulty /\ UNCHANGED cache
    BY <1>5 DEF Repo!CannotRestore
  <2>2. left' \in [changes : Nat, reloads : Nat, faults : 0 .. MaxFaults]
    BY <1>1, <2>1, LeftIs
  <2>3. \A n \in PackageNames : OnePackage(Repo!Unread[n], config.key) /\ OnePackage(cache'.known[n], cache'.key)
    <3>1. kind' = kind
      BY <2>1 DEF Repo!Starts
    <3> QED BY <1>2, <2>1, <3>1, StoppedIs DEF OnePackage
  <2> QED BY <1>2, <2>1, <2>2, <2>3, UnreadIs, StartsKeeps
<1> QED BY <1>3, <1>4, <1>5

-----------------------------------------------------------------------------
(* A look begins, or cannot.                                                *)
LookStarts ==
  /\ runner'.known = runner.known /\ runner'.listed = runner.listed
  /\ UNCHANGED <<kind, config, metadata, cache, recent, cut>>

LEMMA EndedIs ==
  ASSUME RepositoryTypes, NEW result \in {"ok", "failed"}, look' = Repo!Ended(result)
  PROVE  /\ look' \in LookTypes /\ look'.found = Repo!Unread /\ look'.listing = Repo!Unread /\ look'.touched = {}
         /\ look'.answer = result /\ look'.skipped = look.skipped /\ look'.still = look.still
         /\ look'.todo = {}
<1>1. look.skipped \subseteq PackageNames /\ look.still \in BOOLEAN
  BY FieldsOf
<1>2. /\ Repo!NoLook \in LookTypes /\ Repo!NoLook.found = Repo!Unread /\ Repo!NoLook.listing = Repo!Unread
      /\ Repo!NoLook.touched = {} /\ Repo!NoLook.todo = {}
  BY NoLookIs DEF Repo!NoLook
<1> HIDE DEF Repo!NoLook
<1> QED BY <1>1, <1>2 DEF Repo!Ended, LookTypes, Or

LEMMA StaysTyped ==
  ASSUME RepositoryTypes, UNCHANGED <<kind, config, metadata, cache, cut>>,
         packages' \in [PackageNames -> Or(Repo!Packages)], runner' \in RunnerTypes, look' \in LookTypes,
         left' = left \/ Repo!Faulty
  PROVE  RepositoryTypes'
BY LeftIs DEF RepositoryTypes

LEMMA LooksKeeps ==
  ASSUME RepositoryInv, Repo!Looks
  PROVE  RepositoryInv'
<1>1. RepositoryTypes /\ Repo!Present \subseteq PackageNames
  BY DEF RepositoryInv, Repo!Present
<1>2. RunnerIs("reads", runner.quit, runner.known, runner.listed)
  BY <1>1, RunnerGoes DEF Repo!Looks, Steps
<1>3. /\ look' \in LookTypes /\ look'.todo = Repo!Present /\ look'.found = Repo!Unread /\ look'.listing = Repo!Unread
      /\ look'.skipped = {} /\ look'.touched = {} /\ look'.answer = Nobody
  BY <1>1 DEF Repo!Looks, Repo!NoLook, LookTypes, Repo!Unread, Or
<1>4. UNCHANGED <<kind, config, packages, metadata, cache, recent, cut, left>>
  BY DEF Repo!Looks
<1>5. RepositoryTypes'
  <2>1. packages' \in [PackageNames -> Or(Repo!Packages)]
    BY <1>1, <1>4 DEF RepositoryTypes
  <2> QED BY <1>1, <1>2, <1>3, <1>4, <2>1, StaysTyped DEF RunnerIs
<1>6. \A n \in PackageNames : (look.found')[n] = Nobody /\ (look.listing')[n] = Nobody
  BY <1>3 DEF Repo!Unread
<1>7. Knows'
  BY <1>2, <1>3, <1>4, <1>6 DEF RepositoryInv, Knows, FoundAsItIs, InHand, OneFile, OnePackage, RunnerIs
<1>8. \A n \in PackageNames : Seen(n)'
  BY <1>2, <1>3, <1>4, <1>6, RepositoryAssumption
  DEF Seen, SortedOut, Repo!Present, Repo!At, OneFile, Afterwards, RunnerIs
<1>9. Sees'
  BY <1>1, <1>2, <1>3, <1>6, <1>8, RepositoryAssumption DEF Sees, Repo!At, OneFile, RunnerIs
<1>10. KeepsTheNewest'
  BY <1>2 DEF KeepsTheNewest, Repo!At, RunnerIs
<1>11. MetadataOK'
  BY <1>2, <1>3, <1>4, MetadataStays, RepositoryAssumption DEF Writing, RunnerIs
<1> QED BY <1>5, <1>7, <1>9, <1>10, <1>11 DEF RepositoryInv

LEMMA CannotLookKeeps ==
  ASSUME RepositoryInv, Repo!CannotLook
  PROVE  RepositoryInv'
<1>1. RepositoryTypes
  BY DEF RepositoryInv
<1>2. RunnerIs("idle", runner.quit, runner.known, runner.listed)
  BY <1>1, RunnerGoes DEF Repo!CannotLook, Repo!Answers, Steps
<1>3. /\ look' \in LookTypes /\ look'.found = Repo!Unread /\ look'.listing = Repo!Unread /\ look'.touched = {}
      /\ look'.answer = "failed"
  BY <1>1, EndedIs DEF Repo!CannotLook, Repo!Answers
<1>4. UNCHANGED <<kind, config, packages, metadata, cache, recent, cut>> /\ Repo!Faulty
  BY DEF Repo!CannotLook
<1>5. RepositoryTypes'
  <2>1. packages' \in [PackageNames -> Or(Repo!Packages)]
    BY <1>1, <1>4 DEF RepositoryTypes
  <2> QED BY <1>1, <1>2, <1>3, <1>4, <2>1, StaysTyped DEF RunnerIs
<1>6. Knows' /\ Sees' /\ KeepsTheNewest'
  <2>1. \A n \in PackageNames : OnePackage(cache.known[n], cache.key) /\ OnePackage(runner.known[n], config.key)
    BY DEF RepositoryInv, Knows
  <2> QED BY <1>2, <1>3, <1>4, <2>1, LookIsOver DEF RunnerIs
<1>7. MetadataOK'
  BY <1>2, <1>3, <1>4, MetadataStays DEF Writing, RunnerIs
<1> QED BY <1>5, <1>6, <1>7 DEF RepositoryInv

LEMMA SkipsIs ==
  ASSUME RepositoryTypes, look.todo # {}, Repo!Skips
  PROVE  LookIs(Repo!Rest, look.found, look.listing, look.skipped \cup {Repo!This}, Nobody, look.touched)
<1>1. Repo!This \in PackageNames /\ look.todo \subseteq PackageNames /\ look.skipped \subseteq PackageNames
  BY ThisIs, FieldsOf
<1> QED BY <1>1 DEF Repo!Skips, Repo!Rest, RepositoryTypes, LookTypes, LookIs, Or

(* What is common to the steps of a look.                                   *)
InTheLook == UNCHANGED <<kind, config, metadata, cache, recent, cut>>
GoesOn(pc) == RunnerIs(pc, runner.quit, runner.known, runner.listed)

LEMMA LookGoesOn ==
  ASSUME RepositoryInv, InTheLook, packages' \in [PackageNames -> Or(Repo!Packages)], left' = left \/ Repo!Faulty,
         NEW pc \in InALook, GoesOn(pc),
         look' \in LookTypes, look'.answer = look.answer, look'.still = look.still
  PROVE  RepositoryTypes' /\ MetadataOK'
<1>1. RepositoryTypes'
  BY StaysTyped DEF RepositoryInv, InTheLook, GoesOn, RunnerIs
<1>2. MetadataOK'
  BY MetadataStays DEF InTheLook, GoesOn, RunnerIs, InALook, Writing
<1> QED BY <1>1, <1>2

LEMMA StaysThere ==
  ASSUME RepositoryTypes, runner' = runner
  PROVE  GoesOn(runner.pc)
BY DEF RepositoryTypes, RunnerIs, GoesOn

LEMMA LeftOver ==
  ASSUME RepositoryTypes, left' = left \/ Repo!Faulty, NEW n \in PackageNames, packages'[n] = packages[n], Unreadable(n)
  PROVE  Unreadable(n)'
BY LeftIs DEF Unreadable

(* A package that cannot be read, or not now, is left out.                  *)
LEMMA LeavesOut ==
  ASSUME RepositoryInv, Repo!Working("reads"), Repo!Skips, InTheLook, packages' = packages, runner' = runner,
         left' = left \/ Repo!Faulty,
         look.still /\ packages[Repo!This] # Nobody => (left'.faults = MaxFaults => ~packages[Repo!This].whole)
  PROVE  RepositoryInv'
<1>1. RepositoryTypes /\ look.todo # {} /\ runner.pc = "reads" /\ Repo!This \in PackageNames /\ Repo!This \in look.todo
      /\ packages \in [PackageNames -> Or(Repo!Packages)] /\ look.todo \subseteq PackageNames
  BY ThisIs, FieldsOf DEF RepositoryInv, Repo!Working, Repo!At
<1>2. LookIs(Repo!Rest, look.found, look.listing, look.skipped \cup {Repo!This}, Nobody, look.touched)
  BY <1>1, SkipsIs
<1>3. RepositoryTypes' /\ MetadataOK'
  BY <1>1, <1>2, StaysThere, LookGoesOn DEF LookIs, InALook
<1>4. Knows'
  BY <1>1, <1>2 DEF RepositoryInv, Knows, OnePackage, FoundAsItIs, InHand, OneFile, InTheLook, LookIs
<1>5. Sees /\ (look.still => look.touched = {} /\ \A n \in PackageNames : Seen(n))
  BY DEF RepositoryInv, Sees
<1>6. ASSUME look.still, NEW n \in PackageNames PROVE Seen(n)'
  <2>1. IF n \in look.todo THEN packages[n] # Nobody /\ n \notin look.skipped ELSE SortedOut(n)
    BY <1>1, <1>5, <1>6 DEF Seen, Repo!At
  <2>2. CASE n = Repo!This
    <3>1. look.found[Repo!This] = Nobody /\ packages[Repo!This] # Nobody
      BY <1>1, <1>5, <2>1, <2>2 DEF Sees, Repo!At
    <3>2. SortedOut(n)'
      BY <1>2, <1>6, <2>2, <3>1 DEF SortedOut, LookIs, Unreadable
    <3> QED BY <1>1, <1>2, <1>5, <2>2, <3>2, RepositoryAssumption
            DEF Seen, Repo!At, LookIs, Repo!Rest, OneFile, Afterwards, Sees
  <2>3. CASE n # Repo!This /\ n \in look.todo
    BY <1>1, <1>2, <1>5, <2>1, <2>3 DEF Seen, Repo!At, LookIs, Repo!Rest, OneFile, Afterwards, Sees
  <2>4. CASE n \notin look.todo
    <3>1. SortedOut(n)'
      BY <1>1, <1>2, <2>1, <2>4, LeftOver DEF SortedOut, LookIs
    <3> QED BY <1>1, <1>2, <1>5, <2>4, <3>1 DEF Seen, Repo!At, LookIs, Repo!Rest, OneFile, Afterwards, Sees
  <2> QED BY <2>2, <2>3, <2>4
<1>7. Sees'
  BY <1>1, <1>2, <1>5, <1>6 DEF Sees, Repo!At, OneFile, LookIs, Repo!Rest
<1>8. KeepsTheNewest'
  BY <1>1 DEF KeepsTheNewest, Repo!At
<1> QED BY <1>3, <1>4, <1>7, <1>8 DEF RepositoryInv

LEMMA ReadsKeeps ==
  ASSUME RepositoryInv, Repo!Reads
  PROVE  RepositoryInv'
<1>1. /\ RepositoryTypes /\ look.todo # {} /\ runner.pc = "reads" /\ Repo!This \in PackageNames /\ Repo!This \in look.todo
      /\ packages \in [PackageNames -> Or(Repo!Packages)] /\ look.todo \subseteq PackageNames /\ look.touched \subseteq PackageNames
      /\ look.found \in [PackageNames -> Or(Repo!Finds)] /\ Repo!Working("reads")
  BY ThisIs, FieldsOf DEF RepositoryInv, Repo!Working, Repo!Reads, Repo!At
<1>2. InTheLook /\ packages' = packages /\ runner' = runner /\ left' = left
  BY DEF Repo!Reads, InTheLook
<1>3. CASE packages[Repo!This] # Nobody /\ (Repo!Known(Repo!This) \/ packages[Repo!This].whole)
  <2> DEFINE find == [file |-> packages[Repo!This], before |-> Repo!Known(Repo!This)]
             found == [look.found EXCEPT ![Repo!This] = find]
  <2>1. find \in Repo!Finds /\ find # Nobody /\ find.file = packages[Repo!This] /\ find.before = Repo!Known(Repo!This)
    <3>1. Repo!Known(Repo!This) \in BOOLEAN
      BY DEF Repo!Known
    <3>2. packages[Repo!This] \in Repo!Packages
      BY <1>1, <1>3 DEF Or
    <3> QED BY <3>1, <3>2, RepositoryAssumption DEF Repo!Finds
  <2>2. /\ found \in [PackageNames -> Or(Repo!Finds)] /\ found[Repo!This] = find
        /\ \A n \in PackageNames : n # Repo!This => found[n] = look.found[n]
    BY <1>1, <2>1 DEF Or
  <2>3. look' = [look EXCEPT !.todo = Repo!Rest, !.touched = @ \ {Repo!This}, !.found[Repo!This] = find]
    BY <1>3 DEF Repo!Reads
  <2>4. LookIs(Repo!Rest, found, look.listing, look.skipped, look.copy, look.touched \ {Repo!This})
    BY <1>1, <2>2, <2>3 DEF Repo!Rest, RepositoryTypes, LookTypes, LookIs
  <2> HIDE DEF find, found
  <2>5. RepositoryTypes' /\ MetadataOK'
    BY <1>1, <1>2, <2>4, StaysThere, LookGoesOn DEF LookIs, InALook
  <2>6. ASSUME NEW n \in PackageNames PROVE FoundAsItIs(n)'
    <3>1. FoundAsItIs(n)
      BY DEF RepositoryInv, Knows
    <3>2. CASE n = Repo!This
      BY <1>2, <1>3, <2>1, <2>2, <2>4, <3>2 DEF FoundAsItIs, LookIs, Repo!Known
    <3>3. CASE n # Repo!This
      BY <1>2, <2>2, <2>4, <3>1, <3>3 DEF FoundAsItIs, LookIs
    <3> QED BY <3>2, <3>3
  <2>7. Knows'
    BY <1>1, <1>2, <2>4, <2>6 DEF RepositoryInv, Knows, OnePackage, InHand, OneFile, InTheLook, LookIs
  <2>8. Sees /\ (look.still => look.touched = {} /\ \A n \in PackageNames : Seen(n))
    BY DEF RepositoryInv, Sees
  <2>9. ASSUME look.still, NEW n \in PackageNames PROVE Seen(n)'
    <3>1. IF n \in look.todo THEN packages[n] # Nobody /\ n \notin look.skipped ELSE SortedOut(n)
      BY <1>1, <2>8, <2>9 DEF Seen, Repo!At
    <3>2. IF n \in Repo!Rest THEN packages[n] # Nobody /\ n \notin look.skipped ELSE SortedOut(n)'
      BY <1>1, <1>2, <2>1, <2>2, <2>4, <3>1 DEF SortedOut, Unreadable, LookIs, Repo!Rest
    <3> QED BY <1>1, <1>2, <2>4, <2>8, <3>2 DEF Seen, Repo!At, LookIs, OneFile, Afterwards, Sees
  <2>10. Sees'
    BY <1>1, <1>2, <2>2, <2>4, <2>8, <2>9 DEF Sees, Repo!At, OneFile, LookIs, Repo!Rest
  <2>11. KeepsTheNewest'
    BY <1>1, <1>2 DEF KeepsTheNewest, Repo!At
  <2> QED BY <2>5, <2>7, <2>10, <2>11 DEF RepositoryInv
<1>4. CASE ~(packages[Repo!This] # Nobody /\ (Repo!Known(Repo!This) \/ packages[Repo!This].whole))
  <2>1. Repo!Skips /\ (packages[Repo!This] # Nobody => ~packages[Repo!This].whole)
    BY <1>4 DEF Repo!Reads
  <2> QED BY <1>1, <1>2, <2>1, LeavesOut
<1> QED BY <1>3, <1>4

LEMMA CannotReadKeeps ==
  ASSUME RepositoryInv, Repo!CannotRead
  PROVE  RepositoryInv'
<1>1. RepositoryTypes /\ Repo!Working("reads") /\ Repo!Skips /\ InTheLook /\ packages' = packages /\ runner' = runner /\ Repo!Faulty
  BY DEF Repo!CannotRead, InTheLook, RepositoryInv
<1>2. left'.faults # MaxFaults
  BY <1>1, LeftIs
<1> QED BY <1>1, <1>2, LeavesOut

-----------------------------------------------------------------------------
(* The versions found are numbers, and newer is an order of the candidates.  *)
LEMMA VersionsAreNumbers ==
  ASSUME RepositoryTypes, runner.pc \in InALook, \A n \in PackageNames : FoundAsItIs(n), NEW n \in Repo!Candidates
  PROVE  Repo!Version(n) \in Nat /\ n \in Nat
<1>1. /\ n \in PackageNames /\ look.found[n] # Nobody /\ FoundAsItIs(n)
      /\ look.found \in [PackageNames -> Or(Repo!Finds)] /\ runner.known \in [PackageNames -> Or(Repo!Knowledge)]
  BY FieldsOf DEF Repo!Candidates
<1>2. look.found[n] \in Repo!Finds
  BY <1>1 DEF Or
<1>3. CASE look.found[n].before
  <2>1. runner.known[n] \in Repo!Knowledge
    BY <1>1, <1>3 DEF FoundAsItIs, Or
  <2> QED BY <1>1, <1>3, <2>1, RepositoryAssumption DEF Repo!Version, Repo!Knowledge, Repo!Packages
<1>4. CASE ~look.found[n].before
  BY <1>1, <1>2, <1>4, RepositoryAssumption DEF Repo!Version, Repo!Finds, Repo!Packages
<1> QED BY <1>3, <1>4

LEMMA NewerIsAnOrder ==
  ASSUME RepositoryTypes, runner.pc \in InALook, \A n \in PackageNames : FoundAsItIs(n)
  PROVE  /\ \A m, n \in Repo!Candidates : m # n => Repo!Before(m, n) \/ Repo!Before(n, m)
         /\ \A n \in Repo!Candidates : ~Repo!Before(n, n)
         /\ \A l, m, n \in Repo!Candidates : Repo!Before(l, m) /\ Repo!Before(m, n) => Repo!Before(l, n)
<1>1. \A n \in Repo!Candidates : Repo!Version(n) \in Nat /\ n \in Nat
  BY VersionsAreNumbers
<1>2. ASSUME NEW m \in Repo!Candidates, NEW n \in Repo!Candidates, m # n PROVE Repo!Before(m, n) \/ Repo!Before(n, m)
  <2>1. Repo!Version(m) \in Nat /\ Repo!Version(n) \in Nat /\ m \in Nat /\ n \in Nat
    BY <1>1
  <2> QED BY <1>2, <2>1 DEF Repo!Before
<1>3. ASSUME NEW n \in Repo!Candidates PROVE ~Repo!Before(n, n)
  BY <1>1 DEF Repo!Before
<1>4. ASSUME NEW l \in Repo!Candidates, NEW m \in Repo!Candidates, NEW n \in Repo!Candidates, Repo!Before(l, m), Repo!Before(m, n)
      PROVE  Repo!Before(l, n)
  <2>1. /\ Repo!Version(l) \in Nat /\ Repo!Version(m) \in Nat /\ Repo!Version(n) \in Nat
        /\ l \in Nat /\ m \in Nat /\ n \in Nat
    BY <1>1
  <2> QED BY <1>4, <2>1 DEF Repo!Before
<1> QED BY <1>2, <1>3, <1>4

LEMMA CandidatesAreFinite ==
  ASSUME NEW S, S \subseteq Repo!Candidates
  PROVE  IsFiniteSet(S) /\ Cardinality(S) \in Nat
<1>1. S \subseteq PackageNames
  BY DEF Repo!Candidates
<1> QED BY <1>1, FS_Subset, FS_CardinalityType, RepositoryAssumption

LEMMA SameNumber == \A S : Repo!Cardinality(S) = Cardinality(S)
  BY DEF Cardinality, Repo!Cardinality

(* The newest of the old has only newer ones before it that stay, and they  *)
(* are before the other old ones too.                                       *)
LEMMA TheNewestStay ==
  ASSUME RepositoryTypes, runner.pc \in InALook, \A n \in PackageNames : FoundAsItIs(n), NEW n \in Repo!Old
  PROVE  Cardinality({m \in Repo!Candidates \ Repo!Old : Repo!Before(m, n)}) >= KeepNewest
<1> DEFINE newer(x) == {m \in Repo!Candidates : Repo!Before(m, x)}
           counts == {Cardinality(newer(x)) : x \in Repo!Old}
           less == {x \in Nat \X Nat : x[1] < x[2]}
<1>1. Repo!Old \subseteq Repo!Candidates /\ \A x \in Repo!Old : Cardinality(newer(x)) >= KeepNewest
  BY SameNumber DEF Repo!Old
<1>2. \A x \in Repo!Old : IsFiniteSet(newer(x)) /\ Cardinality(newer(x)) \in Nat
  BY CandidatesAreFinite
<1>3. PICK first \in Repo!Old : \A x \in Repo!Old : Cardinality(newer(first)) <= Cardinality(newer(x))
  <2>1. IsWellFoundedOn(less, Nat)
    BY NatLessThanWellFounded DEF OpToRel
  <2>2. counts \subseteq Nat /\ counts # {}
    BY <1>2
  <2>3. PICK k \in counts : \A i \in counts : ~(<<i, k>> \in less)
    BY <2>1, <2>2, WFMin
  <2>4. PICK x \in Repo!Old : k = Cardinality(newer(x))
    BY <2>3
  <2>5. ASSUME NEW y \in Repo!Old PROVE Cardinality(newer(x)) <= Cardinality(newer(y))
    <3>1. k \in Nat /\ Cardinality(newer(y)) \in Nat /\ Cardinality(newer(y)) \in counts
      BY <1>2, <2>2, <2>5
    <3>2. ~(<<Cardinality(newer(y)), k>> \in less)
      BY <2>3, <3>1
    <3> QED BY <2>4, <3>1, <3>2
  <2> QED BY <2>4, <2>5
<1>4. ASSUME NEW m \in newer(first) PROVE m \notin Repo!Old
  <2>1. SUFFICES ASSUME m \in Repo!Old PROVE FALSE
    OBVIOUS
  <2>2. m \in Repo!Candidates /\ first \in Repo!Candidates /\ Repo!Before(m, first)
    BY <1>1, <1>4
  <2>3. newer(m) \subseteq newer(first) \ {m}
    BY <2>2, NewerIsAnOrder
  <2>4. /\ IsFiniteSet(newer(first)) /\ Cardinality(newer(first) \ {m}) = Cardinality(newer(first)) - 1
        /\ IsFiniteSet(newer(first) \ {m})
    BY <1>2, <1>4, FS_RemoveElement
  <2>5. Cardinality(newer(m)) <= Cardinality(newer(first) \ {m})
    BY <2>3, <2>4, FS_Subset
  <2>6. /\ Cardinality(newer(m)) \in Nat /\ Cardinality(newer(first)) \in Nat
        /\ Cardinality(newer(first)) <= Cardinality(newer(m))
    BY <1>2, <1>3, <2>1
  <2> HIDE DEF newer
  <2> QED BY <2>4, <2>5, <2>6
<1>5. newer(first) \subseteq {m \in Repo!Candidates \ Repo!Old : Repo!Before(m, n)}
  <2>1. CASE n = first
    BY <1>4, <2>1
  <2>2. CASE n # first
    <3>1. Repo!Before(first, n)
      <4>1. n \notin newer(first)
        BY <1>4
      <4> QED BY <1>1, <2>2, <4>1, NewerIsAnOrder
    <3> QED BY <1>1, <1>4, <3>1, NewerIsAnOrder
  <2> QED BY <2>1, <2>2
<1>6. /\ IsFiniteSet({m \in Repo!Candidates \ Repo!Old : Repo!Before(m, n)})
      /\ Cardinality({m \in Repo!Candidates \ Repo!Old : Repo!Before(m, n)}) \in Nat
  BY CandidatesAreFinite
<1>7. Cardinality(newer(first)) <= Cardinality({m \in Repo!Candidates \ Repo!Old : Repo!Before(m, n)})
  BY <1>5, <1>6, FS_Subset
<1> QED BY <1>1, <1>2, <1>6, <1>7, RepositoryAssumption

LEMMA ReadAllKeeps ==
  ASSUME RepositoryInv, Repo!ReadAll
  PROVE  RepositoryInv'
<1>1. /\ RepositoryTypes /\ runner.pc = "reads" /\ look.todo = {}
      /\ Repo!Old \subseteq Repo!Candidates /\ Repo!Candidates \subseteq PackageNames
      /\ packages \in [PackageNames -> Or(Repo!Packages)]
  BY FieldsOf DEF RepositoryInv, Repo!ReadAll, Repo!Old, Repo!Candidates, Repo!At
<1>2. InTheLook /\ packages' = packages /\ left' = left /\ GoesOn("prunes")
  BY <1>1, RunnerGoes DEF Repo!ReadAll, InTheLook, GoesOn, Steps
<1>3. LookIs(Repo!Old, look.found, look.listing, look.skipped, look.copy, look.touched)
  <2> HIDE DEF Repo!Old
  <2> QED BY <1>1 DEF Repo!ReadAll, RepositoryTypes, LookTypes, LookIs
<1>4. RepositoryTypes' /\ MetadataOK'
  BY <1>1, <1>2, <1>3, LookGoesOn DEF LookIs, InALook
<1>5. Knows'
  BY <1>1, <1>2, <1>3
  DEF RepositoryInv, Knows, OnePackage, FoundAsItIs, InHand, OneFile, InALook, InTheLook, LookIs, GoesOn, RunnerIs
<1>6. Sees /\ (look.still => look.touched = {} /\ \A n \in PackageNames : Seen(n))
  BY DEF RepositoryInv, Sees
<1>7. ASSUME look.still, NEW n \in PackageNames PROVE Seen(n)'
  <2>1. SortedOut(n)
    BY <1>1, <1>6, <1>7 DEF Seen, Repo!At
  <2>2. SortedOut(n)'
    BY <1>2, <1>3, <2>1 DEF SortedOut, Unreadable, LookIs
  <2> QED BY <1>1, <1>2, <1>3, <1>6, <2>2 DEF Seen, Repo!At, LookIs, OneFile, Afterwards, GoesOn, RunnerIs, Sees
<1>8. Sees'
  BY <1>1, <1>2, <1>3, <1>6, <1>7 DEF Sees, Repo!At, OneFile, LookIs, GoesOn, RunnerIs
<1>9. ASSUME NEW n \in Repo!Old PROVE look.found[n] # Nobody /\ Cardinality(Newer(n)') >= KeepNewest
  <2>1. Cardinality({m \in Repo!Candidates \ Repo!Old : Repo!Before(m, n)}) >= KeepNewest
    BY <1>1, TheNewestStay DEF RepositoryInv, Knows, InALook
  <2>2. Newer(n)' = {m \in Repo!Candidates \ Repo!Old : Repo!Before(m, n)}
    BY <1>2, <1>3 DEF Newer, Repo!Candidates, Repo!Before, Repo!Version, LookIs, GoesOn, RunnerIs
  <2> QED BY <1>1, <2>1, <2>2 DEF Repo!Candidates
<1>10. KeepsTheNewest'
  BY <1>3, <1>9 DEF KeepsTheNewest, LookIs
<1> QED BY <1>4, <1>5, <1>8, <1>10 DEF RepositoryInv

LEMMA RemovesOldKeeps ==
  ASSUME RepositoryInv, Repo!RemovesOld
  PROVE  RepositoryInv'
<1>1. /\ RepositoryTypes /\ runner.pc = "prunes" /\ Repo!This \in look.todo
      /\ Repo!This \in PackageNames /\ look.todo \subseteq PackageNames
      /\ packages \in [PackageNames -> Or(Repo!Packages)] /\ look.found \in [PackageNames -> Or(Repo!Finds)]
  BY ThisIs, FieldsOf DEF RepositoryInv, Repo!RemovesOld, Repo!At
<1>2. InTheLook /\ runner' = runner /\ left' = left
  BY DEF Repo!RemovesOld, InTheLook
<1> DEFINE found == [look.found EXCEPT ![Repo!This] = Nobody]
<1>3. /\ found \in [PackageNames -> Or(Repo!Finds)] /\ found[Repo!This] = Nobody
      /\ \A n \in PackageNames : n # Repo!This => found[n] = look.found[n]
  BY <1>1 DEF Or
<1>4. LookIs(Repo!Rest, found, look.listing, look.skipped, look.copy, look.touched)
  <2>1. look' = [look EXCEPT !.todo = Repo!Rest, !.found = found]
    BY <1>1 DEF Repo!RemovesOld, RepositoryTypes, LookTypes
  <2> HIDE DEF found
  <2> QED BY <1>1, <1>3, <2>1 DEF Repo!Rest, RepositoryTypes, LookTypes, LookIs
<1>5. /\ packages' \in [PackageNames -> Or(Repo!Packages)] /\ packages'[Repo!This] = Nobody
      /\ \A n \in PackageNames : n # Repo!This => packages'[n] = packages[n]
  BY <1>1 DEF Repo!RemovesOld, Or
<1> HIDE DEF found
<1>6. RepositoryTypes' /\ MetadataOK'
  BY <1>1, <1>2, <1>4, <1>5, StaysThere, LookGoesOn DEF LookIs, InALook
<1>7. ASSUME NEW n \in PackageNames PROVE FoundAsItIs(n)'
  <2>1. FoundAsItIs(n)
    BY DEF RepositoryInv, Knows
  <2> QED BY <1>2, <1>3, <1>4, <1>5, <2>1 DEF FoundAsItIs, LookIs
<1>8. Knows'
  BY <1>1, <1>2, <1>4, <1>7 DEF RepositoryInv, Knows, OnePackage, InHand, OneFile, InTheLook, LookIs
<1>9. /\ Sees /\ (look.still => look.touched = {} /\ \A n \in PackageNames : Seen(n))
      /\ \A n \in look.todo : look.found[n] # Nobody /\ Cardinality(Newer(n)) >= KeepNewest
  BY <1>1 DEF RepositoryInv, Sees, KeepsTheNewest, Repo!At
<1>10. ASSUME look.still, NEW n \in PackageNames PROVE Seen(n)'
  <2>1. SortedOut(n)
    BY <1>1, <1>9, <1>10 DEF Seen, Repo!At
  <2>2. SortedOut(n)'
    <3>1. CASE n = Repo!This
      BY <1>1, <1>2, <1>3, <1>4, <1>5, <1>9, <2>1, <3>1 DEF SortedOut, LookIs
    <3>2. CASE n # Repo!This
      BY <1>2, <1>3, <1>4, <1>5, <2>1, <3>2 DEF SortedOut, Unreadable, LookIs
    <3> QED BY <3>1, <3>2
  <2> QED BY <1>1, <1>2, <1>4, <1>9, <2>2 DEF Seen, Repo!At, LookIs, OneFile, Afterwards, Sees
<1>11. Sees'
  BY <1>1, <1>2, <1>4, <1>9, <1>10 DEF Sees, Repo!At, OneFile, LookIs
<1>12. ASSUME NEW n \in Repo!Rest PROVE found[n] # Nobody /\ Newer(n)' = Newer(n)
  <2>1. Repo!Candidates' \ Repo!Rest = Repo!Candidates \ look.todo
    BY <1>1, <1>3, <1>4 DEF Repo!Candidates, LookIs, Repo!Rest
  <2>2. \A m \in Repo!Candidates' \ Repo!Rest : Repo!Before(m, n)' <=> Repo!Before(m, n)
    BY <1>1, <1>2, <1>3, <1>4, <2>1 DEF Repo!Candidates, Repo!Before, Repo!Version, LookIs, Repo!Rest
  <2>3. Newer(n)' = {m \in Repo!Candidates' \ Repo!Rest : Repo!Before(m, n)'}
    BY <1>4 DEF Newer, LookIs
  <2> QED BY <1>1, <1>3, <1>9, <2>1, <2>2, <2>3 DEF Newer, Repo!Rest
<1>13. KeepsTheNewest'
  <2>1. \A n \in Repo!Rest : n \in look.todo
    BY DEF Repo!Rest
  <2> QED BY <1>4, <1>9, <1>12, <2>1 DEF KeepsTheNewest, LookIs
<1> QED BY <1>6, <1>8, <1>11, <1>13 DEF RepositoryInv

LEMMA CannotRemoveKeeps ==
  ASSUME RepositoryInv, Repo!CannotRemove
  PROVE  RepositoryInv'
<1>1. /\ RepositoryTypes /\ runner.pc = "prunes" /\ Repo!This \in look.todo
      /\ Repo!This \in PackageNames /\ look.todo \subseteq PackageNames
      /\ packages \in [PackageNames -> Or(Repo!Packages)]
  BY ThisIs, FieldsOf DEF RepositoryInv, Repo!CannotRemove, Repo!At
<1>2. InTheLook /\ runner' = runner /\ packages' = packages /\ Repo!Faulty
  BY DEF Repo!CannotRemove, InTheLook
<1>3. LookIs(Repo!Rest, look.found, look.listing, look.skipped, look.copy, look.touched)
  BY <1>1 DEF Repo!CannotRemove, Repo!Rest, RepositoryTypes, LookTypes, LookIs
<1>4. RepositoryTypes' /\ MetadataOK'
  BY <1>1, <1>2, <1>3, StaysThere, LookGoesOn DEF LookIs, InALook
<1>5. Knows'
  BY <1>1, <1>2, <1>3 DEF RepositoryInv, Knows, OnePackage, FoundAsItIs, InHand, OneFile, InTheLook, LookIs
<1>6. /\ Sees /\ (look.still => look.touched = {} /\ \A n \in PackageNames : Seen(n))
      /\ \A n \in look.todo : look.found[n] # Nobody /\ Cardinality(Newer(n)) >= KeepNewest
  BY <1>1 DEF RepositoryInv, Sees, KeepsTheNewest, Repo!At
<1>7. ASSUME look.still, NEW n \in PackageNames PROVE Seen(n)'
  <2>1. SortedOut(n)
    BY <1>1, <1>6, <1>7 DEF Seen, Repo!At
  <2>2. SortedOut(n)'
    BY <1>1, <1>2, <1>3, <2>1, LeftOver DEF SortedOut, LookIs
  <2> QED BY <1>1, <1>2, <1>3, <1>6, <2>2 DEF Seen, Repo!At, LookIs, OneFile, Afterwards, Sees
<1>8. Sees'
  BY <1>1, <1>2, <1>3, <1>6, <1>7 DEF Sees, Repo!At, OneFile, LookIs
<1>9. ASSUME NEW n \in Repo!Rest PROVE look.found[n] # Nobody /\ Cardinality(Newer(n)') >= KeepNewest
  <2>1. Newer(n) \subseteq Newer(n)' /\ Newer(n)' \subseteq Repo!Candidates
    BY <1>2, <1>3 DEF Newer, Repo!Candidates, Repo!Before, Repo!Version, LookIs, Repo!Rest
  <2>2. IsFiniteSet(Newer(n)') /\ Cardinality(Newer(n)') \in Nat
    BY <2>1, CandidatesAreFinite
  <2>3. Cardinality(Newer(n)) <= Cardinality(Newer(n)') /\ Cardinality(Newer(n)) \in Nat
    BY <2>1, <2>2, FS_Subset, FS_CardinalityType
  <2>4. look.found[n] # Nobody /\ Cardinality(Newer(n)) >= KeepNewest
    BY <1>6 DEF Repo!Rest
  <2> HIDE DEF Newer
  <2> QED BY <2>2, <2>3, <2>4, RepositoryAssumption
<1>10. KeepsTheNewest'
  BY <1>3, <1>9 DEF KeepsTheNewest, LookIs
<1> QED BY <1>4, <1>5, <1>8, <1>10 DEF RepositoryInv

LEMMA PrunedKeeps ==
  ASSUME RepositoryInv, Repo!Pruned
  PROVE  RepositoryInv'
<1>1. /\ RepositoryTypes /\ runner.pc = "prunes" /\ look.todo = {} /\ Repo!Candidates \subseteq PackageNames
      /\ packages \in [PackageNames -> Or(Repo!Packages)]
  BY FieldsOf DEF RepositoryInv, Repo!Pruned, Repo!At, Repo!Candidates
<1>2. InTheLook /\ packages' = packages /\ left' = left /\ GoesOn("admits")
  BY <1>1, RunnerGoes DEF Repo!Pruned, InTheLook, GoesOn, Steps
<1>3. LookIs(Repo!Candidates, look.found, look.listing, look.skipped, look.copy, look.touched)
  <2> HIDE DEF Repo!Candidates
  <2> QED BY <1>1 DEF Repo!Pruned, RepositoryTypes, LookTypes, LookIs
<1>4. RepositoryTypes' /\ MetadataOK'
  BY <1>1, <1>2, <1>3, LookGoesOn DEF LookIs, InALook
<1>5. Knows'
  BY <1>1, <1>2, <1>3
  DEF RepositoryInv, Knows, OnePackage, FoundAsItIs, InHand, OneFile, InALook, InTheLook, LookIs, GoesOn, RunnerIs
<1>6. /\ Sees /\ (look.still => look.touched = {} /\ \A n \in PackageNames : Seen(n))
      /\ \A n \in PackageNames : look.listing[n] = Nobody
  BY <1>1 DEF RepositoryInv, Sees, Repo!Unread
<1>7. ASSUME look.still, NEW n \in PackageNames PROVE Seen(n)'
  <2>1. SortedOut(n)
    BY <1>1, <1>6, <1>7 DEF Seen, Repo!At
  <2>2. IF n \in Repo!Candidates THEN packages[n] # Nobody /\ n \notin look.skipped ELSE SeenIn(look.listing, n)
    BY <1>6, <2>1 DEF SortedOut, SeenIn, Repo!Candidates
  <2>3. SeenIn(look.listing, n) => SeenIn(look.listing, n)'
    BY <1>2, <1>3 DEF SeenIn, StandsIn, Unreadable, LookIs
  <2> QED BY <1>1, <1>2, <1>3, <1>6, <2>2, <2>3 DEF Seen, Repo!At, LookIs, OneFile, Afterwards, GoesOn, RunnerIs, Sees
<1>8. Sees'
  BY <1>1, <1>2, <1>3, <1>6, <1>7 DEF Sees, Repo!At, OneFile, LookIs, GoesOn, RunnerIs, Repo!Candidates
<1>9. KeepsTheNewest'
  BY <1>2 DEF KeepsTheNewest, Repo!At, GoesOn, RunnerIs
<1> QED BY <1>4, <1>5, <1>8, <1>9 DEF RepositoryInv

-----------------------------------------------------------------------------
(* A look at one package.                                                   *)
Admitting == runner.pc \in {"admits"} \cup OneFile /\ look.todo # {}

LEMMA AdmittingIs ==
  ASSUME RepositoryInv, Admitting
  PROVE  /\ RepositoryTypes /\ Repo!This \in look.todo /\ Repo!This \in PackageNames /\ look.todo \subseteq PackageNames
         /\ packages \in [PackageNames -> Or(Repo!Packages)] /\ look.listing \in [PackageNames -> Or(Repo!Knowledge)]
         /\ look.found[Repo!This] \in Repo!Finds /\ FoundAsItIs(Repo!This) /\ look.answer # "ok"
         /\ \A n \in look.todo : look.found[n] # Nobody /\ look.listing[n] = Nobody
         /\ look.still => look.touched = {}
         /\ look.still => \A n \in PackageNames :
              IF n \in look.todo THEN packages[n] # Nobody /\ n \notin look.skipped ELSE SeenIn(look.listing, n)
<1>1. RepositoryTypes /\ Sees /\ \A n \in PackageNames : FoundAsItIs(n)
  BY DEF RepositoryInv, Knows
<1>2. /\ Repo!This \in look.todo /\ Repo!This \in PackageNames /\ look.todo \subseteq PackageNames
      /\ look.found \in [PackageNames -> Or(Repo!Finds)] /\ look.listing \in [PackageNames -> Or(Repo!Knowledge)]
      /\ packages \in [PackageNames -> Or(Repo!Packages)]
  BY <1>1, ThisIs, FieldsOf DEF Admitting
<1>3. /\ \A n \in look.todo : look.found[n] # Nobody /\ look.listing[n] = Nobody
      /\ look.answer # "ok" /\ (look.still => look.touched = {} /\ \A n \in PackageNames : Seen(n))
  BY <1>1 DEF Sees, Admitting, Repo!At, OneFile
<1>4. look.found[Repo!This] \in Repo!Finds
  BY <1>2, <1>3 DEF Or
<1>5. look.still => \A n \in PackageNames :
        IF n \in look.todo THEN packages[n] # Nobody /\ n \notin look.skipped ELSE SeenIn(look.listing, n)
  BY <1>3 DEF Seen, Admitting
<1> QED BY <1>1, <1>2, <1>3, <1>4, <1>5

(* It is left out.                                                          *)
LEMMA LeftOutKeeps ==
  ASSUME RepositoryInv, Admitting, Repo!Skips, InTheLook, packages' = packages, GoesOn("admits"),
         left' = left \/ Repo!Faulty, packages[Repo!This] # Nobody => left'.faults # MaxFaults
  PROVE  RepositoryInv'
<1>1. /\ RepositoryTypes /\ Repo!This \in look.todo /\ Repo!This \in PackageNames /\ look.todo \subseteq PackageNames
      /\ packages \in [PackageNames -> Or(Repo!Packages)] /\ look.answer # "ok"
      /\ \A n \in look.todo : look.found[n] # Nobody /\ look.listing[n] = Nobody
      /\ look.still => look.touched = {}
      /\ look.still => \A n \in PackageNames :
           IF n \in look.todo THEN packages[n] # Nobody /\ n \notin look.skipped ELSE SeenIn(look.listing, n)
  BY AdmittingIs
<1>2. LookIs(Repo!Rest, look.found, look.listing, look.skipped \cup {Repo!This}, Nobody, look.touched)
  BY <1>1, SkipsIs
<1>3. RepositoryTypes' /\ MetadataOK'
  BY <1>1, <1>2, LookGoesOn DEF LookIs, InALook
<1>4. Knows'
  <2>1. Knows
    BY DEF RepositoryInv
  <2>2. runner.pc \in InALook
    BY DEF Admitting, InALook, OneFile
  <2> QED BY <1>1, <1>2, <2>1, <2>2 DEF Knows, OnePackage, FoundAsItIs, InHand, OneFile, InALook, InTheLook, LookIs, GoesOn, RunnerIs
<1>5. ASSUME look.still, NEW n \in PackageNames PROVE Seen(n)'
  <2>1. IF n \in look.todo THEN packages[n] # Nobody /\ n \notin look.skipped ELSE SeenIn(look.listing, n)
    BY <1>1, <1>5
  <2>2. CASE n = Repo!This
    BY <1>1, <1>2, <2>1, <2>2
    DEF Seen, SeenIn, Unreadable, StandsIn, Repo!At, LookIs, Repo!Rest, OneFile, Afterwards, GoesOn, RunnerIs
  <2>3. CASE n # Repo!This
    <3>1. SeenIn(look.listing, n) => SeenIn(look.listing, n)'
      BY <1>1, <1>2, <2>3, LeftOver DEF SeenIn, StandsIn, LookIs
    <3> QED BY <1>1, <1>2, <2>1, <2>3, <3>1 DEF Seen, Repo!At, LookIs, Repo!Rest, OneFile, Afterwards, GoesOn, RunnerIs
  <2> QED BY <2>2, <2>3
<1>6. Sees'
  BY <1>1, <1>2, <1>5 DEF Sees, Repo!At, OneFile, LookIs, Repo!Rest, GoesOn, RunnerIs
<1>7. KeepsTheNewest'
  BY DEF KeepsTheNewest, Repo!At, GoesOn, RunnerIs
<1> QED BY <1>3, <1>4, <1>6, <1>7 DEF RepositoryInv

(* It is listed.                                                            *)
LEMMA ListedKeeps ==
  ASSUME RepositoryInv, Admitting, InTheLook, packages' = packages, left' = left, GoesOn("admits"),
         NEW k \in Repo!Knowledge, NEW copy \in Or(Repo!Packages), OnePackage(k, config.key),
         look' = [look EXCEPT !.todo = Repo!Rest, !.copy = copy, !.listing[Repo!This] = k],
         look.still => k.stamp = packages[Repo!This]
  PROVE  RepositoryInv'
<1>1. /\ RepositoryTypes /\ Repo!This \in look.todo /\ Repo!This \in PackageNames /\ look.todo \subseteq PackageNames
      /\ packages \in [PackageNames -> Or(Repo!Packages)]
      /\ look.listing \in [PackageNames -> Or(Repo!Knowledge)] /\ look.answer # "ok"
      /\ \A n \in look.todo : look.found[n] # Nobody /\ look.listing[n] = Nobody
      /\ look.still => look.touched = {}
      /\ look.still => \A n \in PackageNames :
           IF n \in look.todo THEN packages[n] # Nobody /\ n \notin look.skipped ELSE SeenIn(look.listing, n)
  BY AdmittingIs
<1> DEFINE listing == [look.listing EXCEPT ![Repo!This] = k]
<1>2. /\ listing \in [PackageNames -> Or(Repo!Knowledge)] /\ listing[Repo!This] = k /\ k # Nobody
      /\ \A n \in PackageNames : n # Repo!This => listing[n] = look.listing[n]
  BY <1>1, RepositoryAssumption DEF Or
<1>3. LookIs(Repo!Rest, look.found, listing, look.skipped, copy, look.touched)
  BY <1>1, <1>2 DEF Repo!Rest, RepositoryTypes, LookTypes, LookIs
<1> HIDE DEF listing
<1>4. RepositoryTypes' /\ MetadataOK'
  BY <1>1, <1>3, LookGoesOn DEF LookIs, InALook
<1>5. Knows'
  <2>1. /\ \A n \in PackageNames : FoundAsItIs(n)'
    BY <1>3 DEF RepositoryInv, Knows, FoundAsItIs, LookIs, GoesOn, RunnerIs, Admitting, InALook, OneFile
  <2>2. \A n \in PackageNames : OnePackage(look.listing[n], config.key) /\ OnePackage(runner.known[n], config.key)
                           /\ OnePackage(cache.known[n], cache.key)
    BY DEF RepositoryInv, Knows
  <2>3. \A n \in PackageNames : OnePackage(listing[n], config.key)
    BY <1>2, <2>2
  <2>4. InHand'
    BY DEF InHand, GoesOn, RunnerIs, OneFile
  <2> QED BY <1>3, <2>1, <2>2, <2>3, <2>4 DEF Knows, OnePackage, InTheLook, LookIs, GoesOn, RunnerIs
<1>6. ASSUME look.still, NEW n \in PackageNames PROVE Seen(n)'
  <2>1. IF n \in look.todo THEN packages[n] # Nobody /\ n \notin look.skipped ELSE SeenIn(look.listing, n)
    BY <1>1, <1>6
  <2>2. CASE n = Repo!This
    BY <1>1, <1>2, <1>3, <1>6, <2>1, <2>2
    DEF Seen, SeenIn, StandsIn, Repo!At, LookIs, Repo!Rest, OneFile, Afterwards, GoesOn, RunnerIs
  <2>3. CASE n # Repo!This
    <3>1. SeenIn(look.listing, n) => SeenIn(look.listing, n)'
      BY <1>2, <1>3, <2>3 DEF SeenIn, StandsIn, Unreadable, LookIs
    <3> QED BY <1>1, <1>3, <2>1, <2>3, <3>1 DEF Seen, Repo!At, LookIs, Repo!Rest, OneFile, Afterwards, GoesOn, RunnerIs
  <2> QED BY <2>2, <2>3
<1>7. Sees'
  <2>1. \A n \in Repo!Rest : n \in PackageNames /\ n # Repo!This /\ n \in look.todo
    BY <1>1 DEF Repo!Rest
  <2> QED BY <1>1, <1>2, <1>3, <1>6, <2>1 DEF Sees, Repo!At, OneFile, LookIs, GoesOn, RunnerIs
<1>8. KeepsTheNewest'
  BY DEF KeepsTheNewest, Repo!At, GoesOn, RunnerIs
<1> QED BY <1>4, <1>5, <1>7, <1>8 DEF RepositoryInv

LEMMA AdmitsKnownKeeps ==
  ASSUME RepositoryInv, Repo!AdmitsKnown
  PROVE  RepositoryInv'
<1>1. /\ Admitting /\ runner.pc = "admits" /\ look.found[Repo!This].before /\ InTheLook /\ packages' = packages /\ left' = left
      /\ runner' = runner
  BY DEF Repo!AdmitsKnown, Repo!Working, Repo!At, Admitting, InTheLook
<1>2. /\ RepositoryTypes /\ Repo!This \in look.todo /\ Repo!This \in PackageNames /\ FoundAsItIs(Repo!This)
      /\ look.found[Repo!This] # Nobody /\ (look.still => look.touched = {})
      /\ runner.known \in [PackageNames -> Or(Repo!Knowledge)] /\ look.copy \in Or(Repo!Packages)
  BY <1>1, AdmittingIs, FieldsOf
<1>3. /\ runner.known[Repo!This] \in Repo!Knowledge /\ OnePackage(runner.known[Repo!This], config.key)
      /\ look.still => runner.known[Repo!This].stamp = packages[Repo!This]
  BY <1>1, <1>2 DEF FoundAsItIs, InALook, Or, RepositoryInv, Knows
<1>4. look' = [look EXCEPT !.todo = Repo!Rest, !.copy = look.copy, !.listing[Repo!This] = runner.known[Repo!This]]
  BY <1>2 DEF Repo!AdmitsKnown, RepositoryTypes, LookTypes
<1> QED BY <1>1, <1>2, <1>3, <1>4, StaysThere, ListedKeeps

LEMMA AdmitsKeeps ==
  ASSUME RepositoryInv, Repo!Admits
  PROVE  RepositoryInv'
<1>1. runner.pc = "stats" /\ InHand /\ RepositoryTypes
  BY DEF Repo!Admits, Repo!At, RepositoryInv, Knows
<1>2. /\ Admitting /\ look.found[Repo!This] # Nobody /\ ~look.found[Repo!This].before /\ look.copy # Nobody
      /\ Repo!This \notin look.touched => (kind = "rpm" => Repo!Opened.key = config.key) /\ look.copy = packages[Repo!This]
  BY <1>1 DEF InHand, OneFile, Repo!At, Admitting, Repo!Opened
<1>3. InTheLook /\ packages' = packages /\ left' = left /\ GoesOn("admits")
  BY <1>1, RunnerGoes DEF Repo!Admits, InTheLook, GoesOn, Steps
<1>4. /\ Repo!This \in PackageNames /\ FoundAsItIs(Repo!This) /\ look.found[Repo!This] \in Repo!Finds
      /\ packages \in [PackageNames -> Or(Repo!Packages)] /\ look.copy \in Or(Repo!Packages) /\ look.touched \subseteq PackageNames
      /\ look.still => look.touched = {}
  BY <1>2, AdmittingIs, FieldsOf
<1>5. CASE packages[Repo!This] = Nobody
  BY <1>2, <1>3, <1>5, LeftOutKeeps DEF Repo!Admits
<1>6. CASE packages[Repo!This] # Nobody
  <2> DEFINE k == [read |-> Repo!Opened, second |-> look.copy, stamp |-> packages[Repo!This], doubt |-> Repo!This \in look.touched]
  <2>1. k \in Repo!Knowledge /\ k.stamp = packages[Repo!This]
    BY <1>2, <1>4, <1>6 DEF Repo!Knowledge, Repo!Opened, Repo!Finds, Or
  <2>2. OnePackage(k, config.key)
    BY <1>1, <1>2, <1>4 DEF OnePackage, FoundAsItIs, InALook, Repo!Opened
  <2>3. look' = [look EXCEPT !.todo = Repo!Rest, !.copy = Nobody, !.listing[Repo!This] = k]
    BY <1>6 DEF Repo!Admits
  <2> HIDE DEF k
  <2> QED BY <1>2, <1>3, <2>1, <2>2, <2>3, ListedKeeps DEF Or
<1> QED BY <1>5, <1>6

LEMMA CannotAdmitKeeps ==
  ASSUME RepositoryInv, Repo!CannotAdmit
  PROVE  RepositoryInv'
<1>1. /\ runner.pc \in OneFile /\ InHand /\ RepositoryTypes /\ Repo!Faulty /\ Repo!Skips /\ InTheLook /\ packages' = packages
      /\ Repo!Goes("admits")
  BY DEF Repo!CannotAdmit, OneFile, RepositoryInv, Knows, InTheLook
<1>2. Admitting /\ GoesOn("admits") /\ left'.faults # MaxFaults
  BY <1>1, RunnerGoes, LeftIs DEF InHand, Admitting, GoesOn, Steps
<1> QED BY <1>1, <1>2, LeftOutKeeps

(* It is copied, to be signed or looked at: nothing else becomes of it.     *)
LEMMA CopiedKeeps ==
  ASSUME RepositoryInv, Admitting, ~look.found[Repo!This].before, InTheLook, packages' = packages, left' = left,
         NEW pc \in {"signs", "stats"}, GoesOn(pc),
         NEW copy \in Repo!Packages, look' = [look EXCEPT !.copy = copy],
         pc = "signs" => kind = "rpm",
         Repo!This \notin look.touched =>
           /\ pc = "signs" => copy = [look.found[Repo!This].file EXCEPT !.key = config.key]
           /\ pc = "stats" => copy = packages[Repo!This] /\ (kind = "rpm" => look.found[Repo!This].file.key = config.key)
  PROVE  RepositoryInv'
<1>1. /\ RepositoryTypes /\ Repo!This \in look.todo /\ Repo!This \in PackageNames /\ look.answer # "ok" /\ copy # Nobody
      /\ \A n \in look.todo : look.found[n] # Nobody /\ look.listing[n] = Nobody
      /\ look.still => look.touched = {}
      /\ look.still => \A n \in PackageNames :
           IF n \in look.todo THEN packages[n] # Nobody /\ n \notin look.skipped ELSE SeenIn(look.listing, n)
      /\ packages \in [PackageNames -> Or(Repo!Packages)] /\ pc \in InALook
  BY AdmittingIs, RepositoryAssumption DEF InALook
<1>2. LookIs(look.todo, look.found, look.listing, look.skipped, copy, look.touched)
  BY <1>1 DEF RepositoryTypes, LookTypes, LookIs, Or
<1>3. RepositoryTypes' /\ MetadataOK'
  BY <1>1, <1>2, LookGoesOn DEF LookIs
<1>4. Knows'
  <2>1. \A n \in PackageNames : FoundAsItIs(n)'
    BY <1>2 DEF RepositoryInv, Knows, FoundAsItIs, LookIs, GoesOn, RunnerIs, Admitting, InALook, OneFile
  <2>2. InHand'
    <3>1. Repo!This' = Repo!This
      BY <1>2 DEF Repo!This, LookIs
    <3> QED BY <1>1, <1>2, <3>1 DEF InHand, InTheLook, LookIs, GoesOn, RunnerIs, Repo!At, OneFile
  <2> QED BY <1>2, <2>1, <2>2 DEF RepositoryInv, Knows, OnePackage, InTheLook, LookIs, GoesOn, RunnerIs
<1>5. ASSUME look.still, NEW n \in PackageNames PROVE Seen(n)'
  <2>1. IF n \in look.todo THEN packages[n] # Nobody /\ n \notin look.skipped ELSE SeenIn(look.listing, n)
    BY <1>1, <1>5
  <2>2. SeenIn(look.listing, n) => SeenIn(look.listing, n)'
    BY <1>2 DEF SeenIn, StandsIn, Unreadable, LookIs
  <2> QED BY <1>1, <1>2, <2>1, <2>2 DEF Seen, Repo!At, LookIs, OneFile, Afterwards, GoesOn, RunnerIs
<1>6. Sees'
  BY <1>1, <1>2, <1>5 DEF Sees, Repo!At, OneFile, LookIs, GoesOn, RunnerIs
<1>7. KeepsTheNewest'
  BY DEF KeepsTheNewest, Repo!At, GoesOn, RunnerIs
<1> QED BY <1>3, <1>4, <1>6, <1>7 DEF RepositoryInv

LEMMA CopiesKeeps ==
  ASSUME RepositoryInv, Repo!Copies
  PROVE  RepositoryInv'
<1>1. /\ RepositoryTypes /\ runner.pc = "admits" /\ Admitting /\ ~look.found[Repo!This].before /\ kind = "rpm"
      /\ InTheLook /\ packages' = packages /\ left' = left
  BY DEF Repo!Copies, Repo!Working, Repo!At, Repo!Unsigned, Admitting, InTheLook, RepositoryInv
<1>2. /\ Repo!This \in PackageNames /\ look.found[Repo!This] \in Repo!Finds
      /\ FoundAsItIs(Repo!This) /\ packages \in [PackageNames -> Or(Repo!Packages)]
      /\ Repo!Opened \in Repo!Packages /\ config.key \in Repo!Keys /\ look.found[Repo!This] # Nobody
  BY <1>1, AdmittingIs, RepositoryAssumption DEF Repo!Opened, Repo!Finds, RepositoryTypes, Repo!Keys
<1>3. CASE packages[Repo!This] = Nobody
  <2>1. Repo!Skips /\ runner' = runner
    BY <1>3 DEF Repo!Copies
  <2> QED BY <1>1, <1>3, <2>1, StaysThere, LeftOutKeeps
<1>4. CASE packages[Repo!This] # Nobody
  <2> DEFINE copy == IF packages[Repo!This] = Repo!Opened THEN [Repo!Opened EXCEPT !.key = config.key]
                     ELSE [packages[Repo!This] EXCEPT !.key = Nobody, !.whole = FALSE]
  <2>1. look' = [look EXCEPT !.copy = copy] /\ GoesOn("signs")
    BY <1>1, <1>4, RunnerGoes DEF Repo!Copies, GoesOn, Steps
  <2>2. copy \in Repo!Packages
    <3>1. packages[Repo!This] \in Repo!Packages /\ Nobody \in Repo!Keys
      BY <1>2, <1>4 DEF Or, Repo!Keys
    <3> QED BY <1>2, <3>1 DEF Repo!Packages
  <2>3. Repo!This \notin look.touched => copy = [look.found[Repo!This].file EXCEPT !.key = config.key]
    BY <1>1, <1>2 DEF FoundAsItIs, InALook, Repo!Opened
  <2> HIDE DEF copy
  <2> QED BY <1>1, <2>1, <2>2, <2>3, CopiedKeeps
<1> QED BY <1>3, <1>4

LEMMA ReadsAgainKeeps ==
  ASSUME RepositoryInv, Repo!ReadsAgain
  PROVE  RepositoryInv'
<1>1. InHand /\ RepositoryTypes
  BY DEF RepositoryInv, Knows
<1>2. /\ Admitting /\ ~look.found[Repo!This].before
      /\ Repo!This \notin look.touched /\ kind = "rpm" => look.found[Repo!This].file.key = config.key
  <2>1. CASE Repo!Working("admits") /\ ~look.found[Repo!This].before /\ ~Repo!Unsigned
    BY <2>1 DEF Repo!Working, Admitting, Repo!Unsigned, Repo!Opened, Repo!At
  <2>2. CASE Repo!At("signed")
    BY <1>1, <2>2 DEF InHand, OneFile, Admitting, Repo!At
  <2> QED BY <2>1, <2>2 DEF Repo!ReadsAgain
<1>3. /\ Repo!This \in PackageNames /\ packages \in [PackageNames -> Or(Repo!Packages)]
      /\ InTheLook /\ packages' = packages /\ left' = left
  BY <1>2, AdmittingIs DEF InTheLook, Repo!ReadsAgain
<1>4. CASE packages[Repo!This] = Nobody
  <2>1. Repo!Skips /\ GoesOn("admits")
    BY <1>1, <1>4, RunnerGoes DEF Repo!ReadsAgain, GoesOn, Steps
  <2> QED BY <1>2, <1>3, <1>4, <2>1, LeftOutKeeps
<1>5. CASE packages[Repo!This] # Nobody
  <2>1. look' = [look EXCEPT !.copy = packages[Repo!This]] /\ GoesOn("stats") /\ packages[Repo!This] \in Repo!Packages
    BY <1>1, <1>3, <1>5, RunnerGoes DEF Repo!ReadsAgain, GoesOn, Steps, Or
  <2> QED BY <1>2, <1>3, <2>1, CopiedKeeps
<1> QED BY <1>4, <1>5

LEMMA SignsKeeps ==
  ASSUME RepositoryInv, Repo!Signs
  PROVE  RepositoryInv'
<1>1. /\ RepositoryTypes /\ runner.pc = "signs" /\ InHand /\ InTheLook /\ left' = left
  BY DEF Repo!Signs, Repo!At, InTheLook, RepositoryInv, Knows
<1>2. /\ Admitting /\ look.found[Repo!This] # Nobody /\ ~look.found[Repo!This].before /\ look.copy # Nobody /\ kind = "rpm"
      /\ Repo!This \notin look.touched => look.copy = [look.found[Repo!This].file EXCEPT !.key = config.key]
  BY <1>1 DEF InHand, OneFile, Repo!At, Admitting
<1>3. /\ Repo!This \in look.todo /\ Repo!This \in PackageNames /\ look.todo \subseteq PackageNames
      /\ packages \in [PackageNames -> Or(Repo!Packages)] /\ look.answer # "ok"
      /\ look.found[Repo!This] \in Repo!Finds /\ FoundAsItIs(Repo!This)
      /\ \A n \in look.todo : look.found[n] # Nobody /\ look.listing[n] = Nobody
      /\ look.still => look.touched = {}
      /\ look.still => \A n \in PackageNames :
           IF n \in look.todo THEN packages[n] # Nobody /\ n \notin look.skipped ELSE SeenIn(look.listing, n)
  BY <1>2, AdmittingIs
<1>4. look.copy \in Repo!Packages /\ look.found \in [PackageNames -> Or(Repo!Finds)] /\ look.touched \subseteq PackageNames
  BY <1>1, <1>2, FieldsOf DEF Or
<1> DEFINE find == [look.found[Repo!This] EXCEPT !.file = look.copy]
           found == [look.found EXCEPT ![Repo!This] = find]
<1>5. find \in Repo!Finds /\ find # Nobody /\ find.file = look.copy /\ ~find.before
  BY <1>2, <1>3, <1>4, RepositoryAssumption DEF Repo!Finds
<1>6. /\ found \in [PackageNames -> Or(Repo!Finds)] /\ found[Repo!This] = find
      /\ \A n \in PackageNames : n # Repo!This => found[n] = look.found[n]
  BY <1>3, <1>4, <1>5 DEF Or
<1>7. LookIs(look.todo, found, look.listing, look.skipped, Nobody, look.touched)
  <2>1. look' = [look EXCEPT !.found = found, !.copy = Nobody]
    BY <1>1, <1>3, <1>4 DEF Repo!Signs, RepositoryTypes, LookTypes
  <2> HIDE DEF found
  <2> QED BY <1>1, <1>6, <2>1 DEF RepositoryTypes, LookTypes, LookIs, Or
<1> HIDE DEF find, found
<1>8. /\ packages' \in [PackageNames -> Or(Repo!Packages)] /\ packages'[Repo!This] = look.copy
      /\ \A n \in PackageNames : n # Repo!This => packages'[n] = packages[n]
  BY <1>3, <1>4 DEF Repo!Signs, Or
<1>9. GoesOn("signed") /\ Repo!This' = Repo!This
  BY <1>1, <1>7, RunnerGoes DEF Repo!Signs, GoesOn, Steps, Repo!This, LookIs
<1>10. RepositoryTypes' /\ MetadataOK'
  BY <1>1, <1>7, <1>8, <1>9, LookGoesOn DEF LookIs, InALook
<1>11. ASSUME NEW n \in PackageNames PROVE FoundAsItIs(n)'
  <2>1. FoundAsItIs(n)
    BY DEF RepositoryInv, Knows
  <2>2. CASE n = Repo!This
    <3>1. n \notin look.touched => look.copy.whole
      BY <1>1, <1>2, <1>3, <2>2 DEF FoundAsItIs, InALook, Repo!Finds, Repo!Packages
    <3> QED BY <1>5, <1>6, <1>7, <1>8, <2>2, <3>1 DEF FoundAsItIs, LookIs
  <2>3. CASE n # Repo!This
    BY <1>1, <1>6, <1>7, <1>8, <1>9, <2>1, <2>3 DEF FoundAsItIs, LookIs, GoesOn, RunnerIs, InALook
  <2> QED BY <2>2, <2>3
<1>12. InHand'
  <2>1. Repo!This \notin look.touched => look.copy.key = config.key
    BY <1>2, <1>3 DEF Repo!Finds, Repo!Packages
  <2> QED BY <1>1, <1>3, <1>5, <1>6, <1>7, <1>9, <2>1 DEF InHand, Repo!At, LookIs, GoesOn, RunnerIs, InTheLook
<1>13. Knows'
  BY <1>7, <1>9, <1>1, <1>11, <1>12 DEF RepositoryInv, Knows, OnePackage, InTheLook, LookIs, GoesOn, RunnerIs
<1>14. ASSUME look.still, NEW n \in PackageNames PROVE Seen(n)'
  <2>1. IF n \in look.todo THEN packages[n] # Nobody /\ n \notin look.skipped ELSE SeenIn(look.listing, n)
    BY <1>3, <1>14
  <2>2. CASE n = Repo!This
    BY <1>2, <1>3, <1>7, <1>8, <1>9, <2>1, <2>2
    DEF Seen, Repo!At, LookIs, OneFile, Afterwards, GoesOn, RunnerIs
  <2>3. CASE n # Repo!This
    <3>1. SeenIn(look.listing, n) => SeenIn(look.listing, n)'
      BY <1>1, <1>7, <1>8, <2>3 DEF SeenIn, StandsIn, Unreadable, LookIs
    <3> QED BY <1>3, <1>7, <1>8, <1>9, <2>1, <2>3, <3>1
            DEF Seen, Repo!At, LookIs, OneFile, Afterwards, GoesOn, RunnerIs
  <2> QED BY <2>2, <2>3
<1>15. Sees'
  <2>1. \A n \in look.todo : found[n] # Nobody
    BY <1>3, <1>5, <1>6
  <2> QED BY <1>3, <1>7, <1>9, <1>14, <2>1 DEF Sees, Repo!At, OneFile, LookIs, GoesOn, RunnerIs
<1>16. KeepsTheNewest'
  BY <1>9 DEF KeepsTheNewest, Repo!At, GoesOn, RunnerIs
<1> QED BY <1>10, <1>13, <1>15, <1>16 DEF RepositoryInv

-----------------------------------------------------------------------------
(* What is listed.                                                          *)
LEMMA EntriesOfAre ==
  ASSUME NEW known \in [PackageNames -> Or(Repo!Knowledge)]
  PROVE  /\ Repo!Entries(known) \in Repo!Contents
         /\ \A n \in PackageNames : IF known[n] = Nobody THEN Repo!Entries(known)[n] = Nobody
                             ELSE Repo!Entries(known)[n] = <<known[n].read, known[n].second>>
<1>1. ASSUME NEW n \in PackageNames, known[n] # Nobody
      PROVE  <<known[n].read, known[n].second>> \in Repo!Packages \X Repo!Packages
  BY <1>1 DEF Or, Repo!Knowledge
<1> QED BY <1>1 DEF Repo!Entries, Repo!Contents

LEMMA PairsAre ==
  ASSUME NEW entries \in Repo!Contents, NEW n \in PackageNames, entries[n] # Nobody
  PROVE  /\ entries[n] \in Repo!Packages \X Repo!Packages /\ entries[n] = <<entries[n][1], entries[n][2]>>
         /\ entries[n][1] \in Repo!Packages /\ entries[n][2] \in Repo!Packages
BY DEF Repo!Contents

LEMMA ListingsAre ==
  ASSUME NEW entries \in Repo!Contents
  PROVE  Repo!ListingOf(entries) \in Repo!Listings /\ Repo!ListingOf(entries) # Nobody
<1>1. CASE kind = "fdroid"
  <2>1. Repo!ListingOf(entries) = entries
    BY <1>1 DEF Repo!ListingOf, Repo!Contents
  <2> QED BY <2>1, RepositoryAssumption DEF Repo!Listings
<1>2. CASE kind # "fdroid"
  <2>1. Repo!ListingOf(entries) = [n \in PackageNames |-> IF entries[n] = Nobody THEN Nobody ELSE entries[n][2]]
    BY <1>2 DEF Repo!ListingOf
  <2>2. \A n \in PackageNames : entries[n] # Nobody => entries[n][2] \in Repo!Packages
    BY PairsAre
  <2>3. Repo!ListingOf(entries) \in [PackageNames -> Repo!Packages \cup {Nobody}]
    BY <2>1, <2>2
  <2> QED BY <2>3, RepositoryAssumption DEF Repo!Listings
<1> QED BY <1>1, <1>2

(* Two lists of packages that were read at once are the same when what is   *)
(* listed is.                                                               *)
LEMMA ListingsTell ==
  ASSUME NEW a \in Repo!Contents, NEW b \in Repo!Contents, Repo!ListingOf(a) = Repo!ListingOf(b),
         \A n \in PackageNames : a[n] # Nobody => a[n][1] = a[n][2],
         \A n \in PackageNames : b[n] # Nobody => b[n][1] = b[n][2]
  PROVE  a = b
<1>1. ASSUME NEW n \in PackageNames PROVE a[n] = b[n]
  <2>1. Repo!ListingOf(a)[n] = Repo!ListingOf(b)[n]
    OBVIOUS
  <2>2. /\ a[n] # Nobody => a[n] = <<a[n][1], a[n][2]>> /\ a[n][2] \in Repo!Packages
        /\ b[n] # Nobody => b[n] = <<b[n][1], b[n][2]>> /\ b[n][2] \in Repo!Packages
    BY PairsAre
  <2>3. /\ Repo!ListingOf(a)[n] = IF a[n] = Nobody \/ kind = "fdroid" THEN a[n] ELSE a[n][2]
        /\ Repo!ListingOf(b)[n] = IF b[n] = Nobody \/ kind = "fdroid" THEN b[n] ELSE b[n][2]
    BY DEF Repo!ListingOf
  <2>4. CASE kind = "fdroid" \/ (a[n] = Nobody /\ b[n] = Nobody)
    BY <2>1, <2>3, <2>4
  <2>5. CASE kind # "fdroid" /\ a[n] # Nobody /\ b[n] # Nobody
    <3>1. a[n][2] = b[n][2]
      BY <2>1, <2>3, <2>5
    <3>2. a[n][1] = a[n][2] /\ b[n][1] = b[n][2]
      BY <2>5
    <3> QED BY <2>2, <2>5, <3>1, <3>2
  <2>6. CASE kind # "fdroid" /\ (a[n] = Nobody) # (b[n] = Nobody)
    BY <2>1, <2>2, <2>3, <2>6, RepositoryAssumption
  <2> QED BY <2>4, <2>5, <2>6
<1> QED BY <1>1 DEF Repo!Contents

(* A look has read the folder, and what it knows is kept.                    *)
LEMMA OthersAre ==
  ASSUME RepositoryInv, NEW n \in PackageNames
  PROVE  Repo!Others(n) \in Or(Repo!Knowledge) /\ OnePackage(Repo!Others(n), config.key)
<1>1. cache.known[n] \in Or(Repo!Knowledge) /\ OnePackage(cache.known[n], cache.key)
  BY DEF RepositoryInv, RepositoryTypes, CacheTypes, Knows
<1>2. CASE cache.known[n] = Nobody \/ cache.key = config.key
  BY <1>1, <1>2 DEF Repo!Others, OnePackage
<1>3. CASE ~(cache.known[n] = Nobody \/ cache.key = config.key)
  <2>1. cache.known[n] \in Repo!Knowledge /\ Repo!Others(n) = [cache.known[n] EXCEPT !.doubt = TRUE]
    BY <1>1, <1>3 DEF Repo!Others, Or
  <2>2. Repo!Others(n) \in Repo!Knowledge /\ Repo!Others(n).doubt
    BY <2>1 DEF Repo!Knowledge
  <2> QED BY <2>2 DEF OnePackage, Or
<1> QED BY <1>2, <1>3

LEMMA MetaIs ==
  ASSUME RepositoryTypes, NEW listed \in Repo!Listings, NEW known \in [PackageNames -> Or(Repo!Knowledge)]
  PROVE  /\ Repo!Meta(listed, known) \in CacheTypes /\ Repo!Meta(listed, known).known = known
         /\ Repo!Meta(listed, known).listed = listed
         /\ Repo!Meta(listed, known).title = config.title /\ Repo!Meta(listed, known).key = config.key
<1>1. config.key \in Repo!Keys /\ config.title \in Repo!Titles
  BY DEF RepositoryTypes, Repo!Keys, Repo!Titles
<1> QED BY <1>1 DEF Repo!Meta, CacheTypes, Or

LEMMA KeptIs ==
  ASSUME RepositoryInv, runner.listed \in Repo!Listings, cache' = Repo!Kept
  PROVE  /\ cache' \in CacheTypes /\ \A n \in PackageNames : OnePackage(cache'.known[n], cache'.key)
         /\ \/ cache' = cache
            \/ cache'.listed = runner.listed /\ cache'.title = config.title /\ cache'.key = config.key
<1>1. RepositoryTypes /\ \A n \in PackageNames : OnePackage(cache.known[n], cache.key) /\ OnePackage(look.listing[n], config.key)
  BY DEF RepositoryInv, Knows
<1>2. CASE cache' = cache
  BY <1>1, <1>2 DEF RepositoryTypes
<1>3. CASE cache' # cache
  <2> DEFINE known == [n \in PackageNames |-> IF Repo!Changed(n) \/ Repo!Removed(n) THEN look.listing[n] ELSE Repo!Others(n)]
  <2>1. look.listing \in [PackageNames -> Or(Repo!Knowledge)]
    BY <1>1, FieldsOf
  <2>2. known \in [PackageNames -> Or(Repo!Knowledge)] /\ \A n \in PackageNames : OnePackage(known[n], config.key)
    BY <1>1, <2>1, OthersAre
  <2>3. cache' = Repo!Meta(runner.listed, known)
    BY <1>3 DEF Repo!Kept
  <2> HIDE DEF known
  <2>4. /\ cache' \in CacheTypes /\ cache'.known = known /\ cache'.listed = runner.listed
        /\ cache'.title = config.title /\ cache'.key = config.key
    BY <1>1, <2>2, <2>3, MetaIs
  <2> QED BY <2>2, <2>4
<1> QED BY <1>2, <1>3

LEMMA LearnsKeeps ==
  ASSUME RepositoryInv, CacheInv, Repo!Keeps \/ Repo!CannotKeep
  PROVE  RepositoryInv'
<1>1. /\ RepositoryTypes /\ runner.pc = "admits" /\ look.todo = {} /\ Repo!Learns /\ Knows /\ Sees
      /\ UNCHANGED <<kind, config, packages, metadata, look, recent, cut>>
  BY DEF RepositoryInv, Repo!Keeps, Repo!CannotKeep, Repo!Learns, Repo!At
<1>2. look.listing \in [PackageNames -> Or(Repo!Knowledge)] /\ look.answer # "ok" /\ (look.still => look.touched = {})
  BY <1>1, FieldsOf DEF Sees, Repo!At
<1>3. RunnerIs("known", runner.quit, look.listing, runner.listed)
  BY <1>1, <1>2 DEF Repo!Learns, RepositoryTypes, RunnerTypes, RunnerIs, Steps
<1>4. cache' \in CacheTypes /\ \A n \in PackageNames : OnePackage(cache'.known[n], cache'.key)
  <2>1. CASE Repo!Keeps
    BY <1>1, <2>1, KeptIs DEF Repo!Keeps, CacheInv, Repo!At
  <2>2. CASE Repo!CannotKeep
    BY <1>1, <2>2 DEF Repo!CannotKeep, Knows, RepositoryTypes
  <2> QED BY <2>1, <2>2
<1>5. left' \in [changes : Nat, reloads : Nat, faults : 0 .. MaxFaults] /\ (left'.faults = left.faults \/ left'.faults # MaxFaults)
  BY <1>1, LeftIs DEF Repo!Keeps, Repo!CannotKeep, RepositoryTypes
<1>6. RepositoryTypes'
  BY <1>1, <1>3, <1>4, <1>5 DEF RepositoryTypes, RunnerIs, LookTypes
<1>7. Knows'
  <2>1. \A n \in PackageNames : OnePackage(look.listing[n], config.key)
    BY <1>1 DEF Knows
  <2> QED BY <1>1, <1>3, <1>4, <2>1 DEF Knows, OnePackage, FoundAsItIs, InHand, OneFile, InALook, RunnerIs
<1>8. ASSUME look.still, NEW n \in PackageNames PROVE Seen(n)'
  <2>1. SeenIn(look.listing, n)
    BY <1>1, <1>8 DEF Sees, Seen, Repo!At
  <2>2. SeenIn(runner.known, n)'
    BY <1>1, <1>3, <1>5, <2>1 DEF SeenIn, StandsIn, Unreadable, RunnerIs
  <2> QED BY <1>1, <1>2, <1>3, <2>2 DEF Seen, Repo!At, OneFile, Afterwards, RunnerIs
<1>9. Sees'
  BY <1>1, <1>2, <1>3, <1>8 DEF Sees, Repo!At, OneFile, RunnerIs
<1>10. KeepsTheNewest'
  BY <1>3 DEF KeepsTheNewest, Repo!At, RunnerIs
<1>11. MetadataOK'
  BY <1>1, <1>2, <1>3, MetadataStays DEF Writing, RunnerIs
<1> QED BY <1>6, <1>7, <1>9, <1>10, <1>11 DEF RepositoryInv

-----------------------------------------------------------------------------
(* Nothing has changed, or the metadata is written.                         *)
LEMMA WhatIsKnown ==
  ASSUME RepositoryTypes
  PROVE  /\ runner.known \in [PackageNames -> Or(Repo!Knowledge)] /\ Repo!Entries(runner.known) \in Repo!Contents
         /\ Repo!Listing \in Repo!Listings /\ Repo!Listing # Nobody /\ Repo!Listing = Repo!ListingOf(Repo!Entries(runner.known))
BY FieldsOf, EntriesOfAre, ListingsAre DEF Repo!Listing

LEMMA MetadataIs ==
  ASSUME RepositoryTypes
  PROVE  /\ metadata.lists \subseteq Repo!Contents /\ metadata.repomd \in Or(Repo!Docs) /\ metadata.signature \in Or(Repo!Docs)
         /\ metadata.index \in Or(Repo!Docs) /\ metadata.entry \in Or(Repo!Docs) /\ metadata.jar \in Or(Repo!Docs)
         /\ metadata.library \in Or(Repo!Docs)
BY DEF RepositoryTypes, MetadataTypes

LEMMA PublishedIs ==
  ASSUME RepositoryTypes
  PROVE  /\ kind \in {"rpm", "fdroid", "jellyfin"}
         /\ kind = "rpm" => Repo!Published = metadata.repomd
         /\ kind = "fdroid" => Repo!Published = metadata.index
         /\ kind = "jellyfin" => Repo!Published = metadata.library
         /\ Repo!Published \in Or(Repo!Docs)
<1>1. kind \in {"rpm", "fdroid", "jellyfin"}
  BY RepositoryAssumption DEF RepositoryTypes
<1>2. /\ kind = "rpm" => Repo!Published = metadata.repomd
      /\ kind = "fdroid" => Repo!Published = metadata.index
      /\ kind = "jellyfin" => Repo!Published = metadata.library
  BY DEF Repo!Published
<1> QED BY <1>1, <1>2, MetadataIs

Certain == \A n \in PackageNames : runner.known[n] # Nobody => ~runner.known[n].doubt

(* What is known and in no doubt was read at once.                          *)
LEMMA ReadAtOnce ==
  ASSUME RepositoryTypes, Knows, Certain, NEW n \in PackageNames, Repo!Entries(runner.known)[n] # Nobody
  PROVE  Repo!Entries(runner.known)[n][1] = Repo!Entries(runner.known)[n][2]
<1>1. IF runner.known[n] = Nobody THEN Repo!Entries(runner.known)[n] = Nobody
      ELSE Repo!Entries(runner.known)[n] = <<runner.known[n].read, runner.known[n].second>>
  BY WhatIsKnown, EntriesOfAre
<1>2. OnePackage(runner.known[n], config.key)
  BY DEF Knows
<1> QED BY <1>1, <1>2 DEF OnePackage, Certain

LEMMA UpToDateKeeps ==
  ASSUME RepositoryInv, Repo!UpToDate
  PROVE  RepositoryInv'
<1>1. /\ RepositoryTypes /\ runner.pc = "known" /\ Knows /\ Sees /\ MetadataOK
      /\ InTheLook /\ packages' = packages /\ left' = left /\ Repo!Listing = runner.listed /\ Repo!Written
  BY DEF RepositoryInv, Repo!UpToDate, InTheLook, Repo!At
<1>2. RunnerIs("idle", runner.quit, runner.known, runner.listed)
  BY <1>1, RunnerGoes DEF Repo!UpToDate, Repo!Answers, Steps
<1>3. /\ look' \in LookTypes /\ look'.found = Repo!Unread /\ look'.listing = Repo!Unread /\ look'.touched = {}
      /\ look'.answer = "ok" /\ look'.skipped = look.skipped /\ look'.still = look.still /\ look'.todo = {}
  BY <1>1, EndedIs DEF Repo!UpToDate, Repo!Answers
<1>4. RepositoryTypes'
  BY <1>1, <1>2, <1>3 DEF RepositoryTypes, InTheLook, RunnerIs
<1>5. \A n \in PackageNames : (look.found')[n] = Nobody /\ (look.listing')[n] = Nobody
  BY <1>3 DEF Repo!Unread
<1>6. Knows'
  BY <1>1, <1>2, <1>3, <1>5 DEF Knows, OnePackage, FoundAsItIs, InHand, OneFile, InTheLook, RunnerIs
<1>7. ASSUME look.still, NEW n \in PackageNames PROVE Seen(n)'
  <2>1. SeenIn(runner.known, n)
    BY <1>1, <1>7 DEF Sees, Seen, Afterwards
  <2>2. SeenIn(runner.known, n)'
    BY <1>1, <1>2, <1>3, <2>1 DEF SeenIn, StandsIn, Unreadable, RunnerIs
  <2> QED BY <1>2, <2>2 DEF Seen, Repo!At, OneFile, Afterwards, RunnerIs
<1>8. Sees'
  BY <1>2, <1>3, <1>5, <1>7 DEF Sees, Repo!At, OneFile, RunnerIs
<1>9. KeepsTheNewest'
  BY <1>2 DEF KeepsTheNewest, Repo!At, RunnerIs
<1>10. InWriting' /\ ListsAreThere' /\ IndexIsLater' /\ LibraryIsThere'
  BY <1>1, <1>2 DEF MetadataOK, InWriting, ListsAreThere, IndexIsLater, LibraryIsThere, Writing, Repo!At, InTheLook, RunnerIs
<1>11. Repo!Published' = Repo!Published
  BY <1>1 DEF Repo!Published, InTheLook
<1>12. Agrees'
  BY <1>1, <1>2, <1>11 DEF MetadataOK, Agrees, OfOneWriting, Repo!ListingOf, InTheLook, RunnerIs
<1>13. ASSUME ~cut, Certain PROVE Repo!Whole(Repo!Published)
  <2>1. Repo!Published # Nobody
    BY <1>1, PublishedIs DEF Repo!Written, MetadataOK, IndexIsLater
  <2>2. Repo!Published \in Repo!Docs /\ Repo!Published.entries \in Repo!Contents
    BY <1>1, <2>1, PublishedIs DEF Or, Repo!Docs
  <2>3. OfOneWriting(Repo!Published)
    BY <1>1, <1>13, <2>1 DEF MetadataOK, Agrees
  <2>4. /\ Repo!ListingOf(Repo!Published.entries) = Repo!ListingOf(Repo!Entries(runner.known))
        /\ Repo!Published.title = config.title /\ Repo!Published.key = config.key
    BY <1>1, <2>3, WhatIsKnown DEF OfOneWriting
  <2>5. Repo!Published.entries = Repo!Entries(runner.known)
    <3>1. /\ \A n \in PackageNames : Repo!Published.entries[n] # Nobody => Repo!Published.entries[n][1] = Repo!Published.entries[n][2]
          /\ \A n \in PackageNames : Repo!Entries(runner.known)[n] # Nobody =>
               Repo!Entries(runner.known)[n][1] = Repo!Entries(runner.known)[n][2]
      BY <1>1, <1>13, <2>3, ReadAtOnce DEF OfOneWriting
    <3> QED BY <1>1, <2>2, <2>4, <3>1, ListingsTell, WhatIsKnown
  <2>6. kind = "rpm" => Repo!Published.entries \in metadata.lists
    BY <1>1, <2>1, PublishedIs DEF MetadataOK, ListsAreThere
  <2> QED BY <2>1, <2>3, <2>4, <2>5, <2>6 DEF Repo!Whole, OfOneWriting
<1>14. Serves'
  <2>1. Certain' <=> Certain
    BY <1>2 DEF Certain, RunnerIs
  <2>2. Repo!Whole(Repo!Published) => Repo!Whole(Repo!Published)'
    BY <1>1, <1>2, <1>11 DEF Repo!Whole, Repo!Entries, InTheLook, RunnerIs
  <2>3. cut' = cut
    BY <1>1 DEF InTheLook
  <2>4. ASSUME ~cut', Certain' PROVE Repo!Whole(Repo!Published)'
    BY <1>13, <2>1, <2>2, <2>3, <2>4
  <2> QED BY <2>4 DEF Serves, Certain
<1> QED BY <1>4, <1>6, <1>8, <1>9, <1>10, <1>12, <1>14 DEF RepositoryInv, MetadataOK

LEMMA BeginsKeeps ==
  ASSUME RepositoryInv, NEW at \in 0 .. MaxClock, Repo!Begins(at)
  PROVE  RepositoryInv'
<1>1. /\ RepositoryTypes /\ runner.pc = "known" /\ MetadataOK /\ InTheLook /\ packages' = packages /\ left' = left
      /\ look.answer # "ok"
  BY DEF RepositoryInv, Repo!Begins, InTheLook, Repo!At, Sees
<1>2. RunnerIs("writes", runner.quit, runner.known, runner.listed)
  BY <1>1, RunnerGoes DEF Repo!Begins, Steps
<1> DEFINE doc == [entries |-> Repo!Entries(runner.known), title |-> config.title, key |-> config.key,
                   at |-> IF kind = "fdroid" THEN Repo!Later(at) ELSE 0]
<1>3. /\ Repo!Later(at) \in Nat
      /\ metadata.entry # Nobody => metadata.entry.at \in Nat /\ Repo!Later(at) > metadata.entry.at
  <2>1. metadata.entry # Nobody => metadata.entry.at \in Nat
    BY <1>1, MetadataIs DEF Or, Repo!Docs
  <2>2. at \in Nat
    BY RepositoryAssumption
  <2> QED BY <2>1, <2>2 DEF Repo!Later
<1>4. doc \in Repo!Docs /\ doc # Nobody /\ (kind = "fdroid" => doc.at = Repo!Later(at)) /\ TheDoc(doc)
  BY <1>1, <1>3, WhatIsKnown, RepositoryAssumption DEF Repo!Docs, TheDoc, RepositoryTypes, Repo!Titles, Repo!Keys
<1>5. Repo!ListsOf(metadata.repomd) \subseteq Repo!Contents
  BY <1>1, MetadataIs DEF Repo!ListsOf, Or, Repo!Docs
<1>6. look' = [look EXCEPT !.before = Repo!ListsOf(metadata.repomd), !.doc = doc]
  BY DEF Repo!Begins
<1> HIDE DEF doc
<1>7. /\ look' \in LookTypes /\ look'.doc = doc /\ look'.before = Repo!ListsOf(metadata.repomd)
      /\ look'.found = look.found /\ look'.listing = look.listing /\ look'.touched = look.touched
      /\ look'.skipped = look.skipped /\ look'.still = look.still /\ look'.answer = look.answer
  BY <1>1, <1>4, <1>5, <1>6 DEF RepositoryTypes, LookTypes, Or
<1>8. RepositoryTypes'
  BY <1>1, <1>2, <1>7 DEF RepositoryTypes, InTheLook, RunnerIs
<1>9. Knows' /\ Sees' /\ KeepsTheNewest'
  BY <1>1, <1>2, <1>7, KnowledgeStays DEF InTheLook, RunnerIs, Afterwards
<1>10. InWriting'
  <2>1. TheDoc(look.doc)'
    BY <1>1, <1>2, <1>4, <1>7 DEF TheDoc, Repo!Entries, InTheLook, RunnerIs
  <2> QED BY <1>1, <1>2, <2>1 DEF InWriting, Repo!At, RunnerIs
<1>11. ListsAreThere' /\ IndexIsLater' /\ LibraryIsThere'
  BY <1>1, <1>2, <1>3, <1>4, <1>7
  DEF MetadataOK, ListsAreThere, IndexIsLater, LibraryIsThere, Repo!At, InTheLook, RunnerIs, Repo!ListsOf
<1>12. Agrees' /\ Serves'
  <2>1. Repo!Published' = Repo!Published
    BY <1>1 DEF Repo!Published, InTheLook
  <2> QED BY <1>1, <1>2, <1>7, <2>1 DEF MetadataOK, Agrees, Serves, OfOneWriting, Repo!ListingOf, InTheLook, RunnerIs
<1> QED BY <1>8, <1>9, <1>10, <1>11, <1>12 DEF RepositoryInv, MetadataOK

-----------------------------------------------------------------------------
(* The files of the metadata are replaced, one after the other.             *)
LEMMA WritesOne ==
  ASSUME RepositoryInv, runner.pc \in Writing, NEW to \in Writing, Repo!Goes(to), Repo!Aside,
         metadata' \in MetadataTypes, cut' \in BOOLEAN
  PROVE  /\ RepositoryTypes' /\ Knows' /\ Sees' /\ KeepsTheNewest' /\ Serves'
         /\ runner'.pc = to /\ runner'.known = runner.known /\ runner'.listed = runner.listed
         /\ kind' = kind /\ config' = config /\ look' = look
         /\ TheDoc(look.doc) /\ TheDoc(look.doc)' /\ look.doc \in Repo!Docs
<1>1. /\ RepositoryTypes /\ to \in Steps /\ to \in Afterwards /\ runner.pc \in Afterwards /\ look.answer # "ok"
      /\ InWriting
  BY DEF RepositoryInv, Writing, Steps, Afterwards, Sees, Repo!At, MetadataOK
<1>2. RunnerIs(to, runner.quit, runner.known, runner.listed)
  BY <1>1, RunnerGoes
<1>3. RepositoryTypes'
  BY <1>1, <1>2 DEF RepositoryTypes, Repo!Aside, RunnerIs
<1>4. Knows' /\ Sees' /\ KeepsTheNewest'
  BY <1>1, <1>2, KnowledgeStays DEF Repo!Aside, RunnerIs
<1>5. Serves'
  BY <1>1 DEF Serves, Repo!Aside
<1>6. TheDoc(look.doc) /\ look.doc \in Repo!Docs
  BY <1>1, FieldsOf DEF InWriting, TheDoc, Or
<1>7. TheDoc(look.doc)'
  BY <1>2, <1>6 DEF TheDoc, Repo!Entries, Repo!Aside, RunnerIs
<1> QED BY <1>2, <1>3, <1>4, <1>5, <1>6, <1>7 DEF Repo!Aside, RunnerIs

(* Of a repository of rpm packages.                                         *)
LEMMA WritesListsKeeps ==
  ASSUME RepositoryInv, Repo!WritesLists
  PROVE  RepositoryInv'
<1>1. /\ RepositoryTypes /\ runner.pc = "writes" /\ Repo!Goes("names") /\ kind = "rpm" /\ MetadataOK /\ Repo!Aside
      /\ metadata' = [metadata EXCEPT !.lists = @ \cup {look.doc.entries}] /\ UNCHANGED <<recent, cut>>
      /\ cut \in BOOLEAN /\ look.doc \in Or(Repo!Docs)
  BY FieldsOf DEF RepositoryInv, Repo!WritesLists, Repo!Replaces, Repo!At, RepositoryTypes
<1>2. look.doc \in Repo!Docs /\ look.doc.entries \in Repo!Contents
  BY <1>1 DEF MetadataOK, InWriting, TheDoc, Writing, Or, Repo!Docs
<1>3. /\ metadata' \in MetadataTypes /\ metadata'.lists = metadata.lists \cup {look.doc.entries}
      /\ metadata'.repomd = metadata.repomd /\ metadata'.signature = metadata.signature
      /\ metadata'.index = metadata.index /\ metadata'.entry = metadata.entry /\ metadata'.jar = metadata.jar
      /\ metadata'.library = metadata.library
  BY <1>1, <1>2 DEF RepositoryTypes, MetadataTypes
<1>4. /\ RepositoryTypes' /\ Knows' /\ Sees' /\ KeepsTheNewest' /\ Serves'
      /\ runner'.pc = "names" /\ runner'.known = runner.known /\ runner'.listed = runner.listed
      /\ kind' = kind /\ config' = config /\ look' = look /\ TheDoc(look.doc)'
  BY <1>1, <1>3, WritesOne DEF Writing
<1>5. InWriting' /\ LibraryIsThere'
  BY <1>1, <1>4 DEF InWriting, LibraryIsThere, Repo!At
<1>6. ListsAreThere'
  BY <1>1, <1>3, <1>4 DEF MetadataOK, ListsAreThere, Repo!ListsOf
<1>7. IndexIsLater'
  BY <1>1, <1>3, <1>4 DEF MetadataOK, IndexIsLater
<1>8. Agrees'
  <2>1. Repo!Published' = Repo!Published
    BY <1>1, <1>3, <1>4 DEF Repo!Published
  <2> QED BY <1>1, <1>3, <1>4, <2>1 DEF MetadataOK, Agrees, OfOneWriting, Repo!ListingOf
<1> QED BY <1>4, <1>5, <1>6, <1>7, <1>8 DEF RepositoryInv, MetadataOK

LEMMA WritesRepomdKeeps ==
  ASSUME RepositoryInv, Repo!WritesRepomd
  PROVE  RepositoryInv'
<1>1. /\ RepositoryTypes /\ runner.pc = "names" /\ Repo!Goes("seals") /\ kind = "rpm" /\ MetadataOK /\ Repo!Aside
      /\ metadata' = [metadata EXCEPT !.repomd = look.doc] /\ cut' = TRUE
      /\ recent' = Repo!ListsOf(metadata.repomd) \cup {look.doc.entries} /\ look.doc \in Or(Repo!Docs)
  BY FieldsOf DEF RepositoryInv, Repo!WritesRepomd, Repo!Replaces, Repo!At
<1>2. /\ metadata' \in MetadataTypes /\ metadata'.lists = metadata.lists
      /\ metadata'.repomd = look.doc /\ metadata'.signature = metadata.signature
      /\ metadata'.index = metadata.index /\ metadata'.entry = metadata.entry /\ metadata'.jar = metadata.jar
      /\ metadata'.library = metadata.library
  BY <1>1 DEF RepositoryTypes, MetadataTypes
<1>3. /\ RepositoryTypes' /\ Knows' /\ Sees' /\ KeepsTheNewest' /\ Serves'
      /\ runner'.pc = "seals" /\ runner'.known = runner.known /\ runner'.listed = runner.listed
      /\ kind' = kind /\ config' = config /\ look' = look /\ TheDoc(look.doc)'
  BY <1>1, <1>2, WritesOne DEF Writing
<1>4. InWriting' /\ LibraryIsThere'
  BY <1>1, <1>3 DEF InWriting, LibraryIsThere, Repo!At
<1>5. ListsAreThere'
  BY <1>1, <1>2, <1>3 DEF MetadataOK, ListsAreThere, Repo!ListsOf, Repo!KeepsLists
<1>6. IndexIsLater'
  BY <1>1, <1>2, <1>3 DEF MetadataOK, IndexIsLater
<1>7. Agrees'
  BY <1>1 DEF Agrees
<1> QED BY <1>3, <1>4, <1>5, <1>6, <1>7 DEF RepositoryInv, MetadataOK

LEMMA WritesSignatureKeeps ==
  ASSUME RepositoryInv, Repo!WritesSignature
  PROVE  RepositoryInv'
<1>1. /\ RepositoryTypes /\ runner.pc = "seals" /\ Repo!Goes("cleans") /\ kind = "rpm" /\ MetadataOK /\ Repo!Aside
      /\ metadata' = [metadata EXCEPT !.signature = look.doc] /\ UNCHANGED <<recent, cut>>
      /\ look.doc \in Or(Repo!Docs) /\ cut
  BY FieldsOf DEF RepositoryInv, Repo!WritesSignature, Repo!Replaces, Repo!At, MetadataOK, InWriting
<1>2. /\ metadata' \in MetadataTypes /\ metadata'.lists = metadata.lists
      /\ metadata'.repomd = metadata.repomd /\ metadata'.signature = look.doc
      /\ metadata'.index = metadata.index /\ metadata'.entry = metadata.entry /\ metadata'.jar = metadata.jar
      /\ metadata'.library = metadata.library
  BY <1>1 DEF RepositoryTypes, MetadataTypes
<1>3. cut' \in BOOLEAN
  BY <1>1 DEF RepositoryTypes
<1>4. /\ RepositoryTypes' /\ Knows' /\ Sees' /\ KeepsTheNewest' /\ Serves'
      /\ runner'.pc = "cleans" /\ runner'.known = runner.known /\ runner'.listed = runner.listed
      /\ kind' = kind /\ config' = config /\ look' = look /\ TheDoc(look.doc)'
  BY <1>1, <1>2, <1>3, WritesOne DEF Writing
<1>5. InWriting' /\ LibraryIsThere'
  BY <1>1, <1>4 DEF InWriting, LibraryIsThere, Repo!At
<1>6. ListsAreThere'
  BY <1>1, <1>2, <1>4 DEF MetadataOK, ListsAreThere, Repo!KeepsLists
<1>7. IndexIsLater'
  BY <1>1, <1>2, <1>4 DEF MetadataOK, IndexIsLater
<1>8. Agrees'
  BY <1>1 DEF Agrees
<1> QED BY <1>4, <1>5, <1>6, <1>7, <1>8 DEF RepositoryInv, MetadataOK

LEMMA CleansUpKeeps ==
  ASSUME RepositoryInv, Repo!CleansUp
  PROVE  RepositoryInv'
<1>1. /\ RepositoryTypes /\ runner.pc = "cleans" /\ Repo!Goes("records") /\ kind = "rpm" /\ MetadataOK /\ Repo!Aside
      /\ metadata' = [metadata EXCEPT !.lists = @ \cap Repo!KeepsLists] /\ UNCHANGED <<recent, cut>> /\ cut
  BY DEF RepositoryInv, Repo!CleansUp, Repo!Replaces, Repo!At, MetadataOK, InWriting
<1>2. /\ metadata' \in MetadataTypes /\ metadata'.lists = metadata.lists \cap Repo!KeepsLists
      /\ metadata'.repomd = metadata.repomd /\ metadata'.signature = metadata.signature
      /\ metadata'.index = metadata.index /\ metadata'.entry = metadata.entry /\ metadata'.jar = metadata.jar
      /\ metadata'.library = metadata.library
  BY <1>1 DEF RepositoryTypes, MetadataTypes
<1>3. cut' \in BOOLEAN
  BY <1>1 DEF RepositoryTypes
<1>4. /\ RepositoryTypes' /\ Knows' /\ Sees' /\ KeepsTheNewest' /\ Serves'
      /\ runner'.pc = "records" /\ runner'.known = runner.known /\ runner'.listed = runner.listed
      /\ kind' = kind /\ config' = config /\ look' = look /\ TheDoc(look.doc)' /\ TheDoc(look.doc)
  BY <1>1, <1>2, <1>3, WritesOne DEF Writing
<1>5. InWriting' /\ LibraryIsThere'
  BY <1>1, <1>4 DEF InWriting, LibraryIsThere, Repo!At
<1>6. ListsAreThere'
  <2>1. look.doc.entries \in Repo!KeepsLists
    BY DEF Repo!KeepsLists
  <2> QED BY <1>1, <1>2, <1>4, <2>1 DEF MetadataOK, ListsAreThere
<1>7. IndexIsLater'
  BY <1>1, <1>2, <1>4 DEF MetadataOK, IndexIsLater
<1>8. Agrees'
  BY <1>1 DEF Agrees
<1> QED BY <1>4, <1>5, <1>6, <1>7, <1>8 DEF RepositoryInv, MetadataOK

(* Of the others.                                                           *)
LEMMA DatesAre ==
  ASSUME RepositoryTypes
  PROVE  /\ metadata.entry # Nobody => metadata.entry.at \in Nat
         /\ metadata.jar # Nobody => metadata.jar.at \in Nat
BY MetadataIs DEF Or, Repo!Docs

LEMMA WritesIndexKeeps ==
  ASSUME RepositoryInv, Repo!WritesIndex
  PROVE  RepositoryInv'
<1>1. /\ RepositoryTypes /\ runner.pc = "writes" /\ Repo!Goes("names") /\ kind = "fdroid" /\ MetadataOK /\ Repo!Aside
      /\ metadata' = [metadata EXCEPT !.index = look.doc] /\ UNCHANGED recent
      /\ look.doc \in Or(Repo!Docs) /\ cut' = TRUE
  BY FieldsOf DEF RepositoryInv, Repo!WritesIndex, Repo!Replaces, Repo!At
<1>2. /\ metadata' \in MetadataTypes /\ metadata'.lists = metadata.lists
      /\ metadata'.repomd = metadata.repomd /\ metadata'.index = look.doc
      /\ metadata'.entry = metadata.entry /\ metadata'.jar = metadata.jar
  BY <1>1 DEF RepositoryTypes, MetadataTypes
<1>3. /\ RepositoryTypes' /\ Knows' /\ Sees' /\ KeepsTheNewest' /\ Serves'
      /\ runner'.pc = "names" /\ runner'.known = runner.known /\ runner'.listed = runner.listed
      /\ kind' = kind /\ config' = config /\ look' = look /\ TheDoc(look.doc)' /\ TheDoc(look.doc)
  BY <1>1, <1>2, WritesOne DEF Writing
<1>4. InWriting' /\ LibraryIsThere' /\ ListsAreThere'
  BY <1>1, <1>2, <1>3 DEF InWriting, LibraryIsThere, ListsAreThere, MetadataOK, Repo!At
<1>5. IndexIsLater'
  BY <1>1, <1>2, <1>3 DEF MetadataOK, IndexIsLater, Repo!At, TheDoc
<1>6. Agrees'
  BY <1>1 DEF Agrees
<1> QED BY <1>3, <1>4, <1>5, <1>6 DEF RepositoryInv, MetadataOK

LEMMA WritesEntryKeeps ==
  ASSUME RepositoryInv, Repo!WritesEntry
  PROVE  RepositoryInv'
<1>1. /\ RepositoryTypes /\ runner.pc = "names" /\ Repo!Goes("seals") /\ kind = "fdroid" /\ MetadataOK /\ Repo!Aside
      /\ metadata' = [metadata EXCEPT !.entry = look.doc] /\ UNCHANGED <<recent, cut>>
      /\ look.doc \in Or(Repo!Docs) /\ cut
  BY FieldsOf DEF RepositoryInv, Repo!WritesEntry, Repo!Replaces, Repo!At, MetadataOK, InWriting
<1>2. /\ metadata' \in MetadataTypes /\ metadata'.lists = metadata.lists
      /\ metadata'.repomd = metadata.repomd /\ metadata'.index = metadata.index
      /\ metadata'.entry = look.doc /\ metadata'.jar = metadata.jar
  BY <1>1 DEF RepositoryTypes, MetadataTypes
<1>3. cut' \in BOOLEAN
  BY <1>1 DEF RepositoryTypes
<1>4. /\ RepositoryTypes' /\ Knows' /\ Sees' /\ KeepsTheNewest' /\ Serves'
      /\ runner'.pc = "seals" /\ runner'.known = runner.known /\ runner'.listed = runner.listed
      /\ kind' = kind /\ config' = config /\ look' = look /\ TheDoc(look.doc)' /\ TheDoc(look.doc)
      /\ look.doc \in Repo!Docs
  BY <1>1, <1>2, <1>3, WritesOne DEF Writing
<1>5. InWriting' /\ LibraryIsThere' /\ ListsAreThere'
  BY <1>1, <1>2, <1>4 DEF InWriting, LibraryIsThere, ListsAreThere, MetadataOK, Repo!At
<1>6. IndexIsLater'
  <2>1. look.doc.at \in Nat /\ look.doc # Nobody
    BY <1>4 DEF Repo!Docs, TheDoc
  <2>2. metadata.jar # Nobody =>
          metadata.index # Nobody /\ metadata.jar.at \in Nat /\ look.doc.at > metadata.jar.at
    BY <1>1, <2>1, DatesAre DEF MetadataOK, IndexIsLater
  <2>3. metadata.jar # Nobody => metadata.jar.at <= look.doc.at
    BY <2>1, <2>2
  <2> QED BY <1>1, <1>2, <1>4, <2>1, <2>2, <2>3 DEF MetadataOK, IndexIsLater, Repo!At
<1>7. Agrees'
  BY <1>1 DEF Agrees
<1> QED BY <1>4, <1>5, <1>6, <1>7 DEF RepositoryInv, MetadataOK

LEMMA WritesJarKeeps ==
  ASSUME RepositoryInv, Repo!WritesJar
  PROVE  RepositoryInv'
<1>1. /\ RepositoryTypes /\ runner.pc = "seals" /\ Repo!Goes("records") /\ kind = "fdroid" /\ MetadataOK /\ Repo!Aside
      /\ metadata' = [metadata EXCEPT !.jar = look.doc] /\ UNCHANGED <<recent, cut>>
      /\ look.doc \in Or(Repo!Docs) /\ cut
  BY FieldsOf DEF RepositoryInv, Repo!WritesJar, Repo!Replaces, Repo!At, MetadataOK, InWriting
<1>2. /\ metadata' \in MetadataTypes /\ metadata'.lists = metadata.lists
      /\ metadata'.repomd = metadata.repomd /\ metadata'.index = metadata.index
      /\ metadata'.entry = metadata.entry /\ metadata'.jar = look.doc
  BY <1>1 DEF RepositoryTypes, MetadataTypes
<1>3. cut' \in BOOLEAN
  BY <1>1 DEF RepositoryTypes
<1>4. /\ RepositoryTypes' /\ Knows' /\ Sees' /\ KeepsTheNewest' /\ Serves'
      /\ runner'.pc = "records" /\ runner'.known = runner.known /\ runner'.listed = runner.listed
      /\ kind' = kind /\ config' = config /\ look' = look /\ TheDoc(look.doc)' /\ TheDoc(look.doc)
      /\ look.doc \in Repo!Docs
  BY <1>1, <1>2, <1>3, WritesOne DEF Writing
<1>5. InWriting' /\ LibraryIsThere' /\ ListsAreThere'
  BY <1>1, <1>2, <1>4 DEF InWriting, LibraryIsThere, ListsAreThere, MetadataOK, Repo!At
<1>6. IndexIsLater'
  <2>1. look.doc.at \in Nat /\ look.doc.at <= look.doc.at
    BY <1>4 DEF Repo!Docs
  <2>2. look.doc # Nobody /\ metadata.index = look.doc /\ metadata.entry = look.doc
    BY <1>1, <1>4 DEF MetadataOK, IndexIsLater, TheDoc
  <2> QED BY <1>1, <1>2, <1>4, <2>1, <2>2 DEF IndexIsLater, Repo!At
<1>7. Agrees'
  BY <1>1 DEF Agrees
<1> QED BY <1>4, <1>5, <1>6, <1>7 DEF RepositoryInv, MetadataOK

LEMMA PublishesKeeps ==
  ASSUME RepositoryInv, Repo!Publishes
  PROVE  RepositoryInv'
<1>1. /\ RepositoryTypes /\ runner.pc = "writes" /\ Repo!Goes("records") /\ kind = "jellyfin" /\ MetadataOK /\ Repo!Aside
      /\ metadata' = [metadata EXCEPT !.library = look.doc] /\ UNCHANGED recent
      /\ look.doc \in Or(Repo!Docs) /\ cut' = TRUE
  BY FieldsOf DEF RepositoryInv, Repo!Publishes, Repo!Replaces, Repo!At
<1>2. /\ metadata' \in MetadataTypes /\ metadata'.lists = metadata.lists
      /\ metadata'.repomd = metadata.repomd /\ metadata'.index = metadata.index
      /\ metadata'.entry = metadata.entry /\ metadata'.jar = metadata.jar /\ metadata'.library = look.doc
  BY <1>1 DEF RepositoryTypes, MetadataTypes
<1>3. /\ RepositoryTypes' /\ Knows' /\ Sees' /\ KeepsTheNewest' /\ Serves'
      /\ runner'.pc = "records" /\ runner'.known = runner.known /\ runner'.listed = runner.listed
      /\ kind' = kind /\ config' = config /\ look' = look /\ TheDoc(look.doc)'
  BY <1>1, <1>2, WritesOne DEF Writing
<1>4. InWriting' /\ LibraryIsThere' /\ ListsAreThere' /\ IndexIsLater'
  BY <1>1, <1>2, <1>3 DEF InWriting, LibraryIsThere, ListsAreThere, IndexIsLater, MetadataOK, Repo!At
<1>5. Agrees'
  BY <1>1 DEF Agrees
<1> QED BY <1>3, <1>4, <1>5 DEF RepositoryInv, MetadataOK

LEMMA CannotWriteKeeps ==
  ASSUME RepositoryInv, Repo!CannotWrite
  PROVE  RepositoryInv'
<1>1. RepositoryTypes /\ InTheLook /\ packages' = packages /\ Repo!Faulty /\ packages \in [PackageNames -> Or(Repo!Packages)]
  BY FieldsOf DEF RepositoryInv, Repo!CannotWrite, InTheLook
<1>2. GoesOn("idle")
  BY <1>1, RunnerGoes DEF Repo!CannotWrite, Repo!Answers, Steps, GoesOn
<1>3. /\ look' \in LookTypes /\ look'.found = Repo!Unread /\ look'.listing = Repo!Unread /\ look'.touched = {}
      /\ look'.answer = "failed"
  BY <1>1, EndedIs DEF Repo!CannotWrite, Repo!Answers
<1>4. RepositoryTypes'
  BY <1>1, <1>2, <1>3, StaysTyped DEF InTheLook, GoesOn, RunnerIs
<1>5. Knows' /\ Sees' /\ KeepsTheNewest'
  <2>1. \A n \in PackageNames : OnePackage(cache.known[n], cache.key) /\ OnePackage(runner.known[n], config.key)
    BY DEF RepositoryInv, Knows
  <2> QED BY <1>1, <1>2, <1>3, <2>1, LookIsOver DEF InTheLook, GoesOn, RunnerIs
<1>6. MetadataOK'
  BY <1>1, <1>2, <1>3, MetadataStays DEF Writing, InTheLook, GoesOn, RunnerIs
<1> QED BY <1>4, <1>5, <1>6 DEF RepositoryInv

(* What is listed is recorded.                                              *)
LEMMA RecordsKeeps ==
  ASSUME RepositoryInv, Repo!Records \/ Repo!CannotRecord
  PROVE  RepositoryInv'
<1>1. /\ RepositoryTypes /\ runner.pc = "records" /\ Knows /\ Sees /\ MetadataOK
      /\ UNCHANGED <<kind, config, packages, metadata, recent>>
      /\ runner' = [runner EXCEPT !.pc = "idle", !.listed = Repo!Listing] /\ look' = Repo!Ended("ok")
      /\ cut' = \E n \in PackageNames : runner.known[n] # Nobody /\ runner.known[n].doubt
  BY DEF RepositoryInv, Repo!Records, Repo!CannotRecord, Repo!Lists, Repo!At
<1>2. Repo!Listing \in Repo!Listings /\ Repo!Listing \in Or(Repo!Listings) /\ Repo!Listing = Repo!ListingOf(Repo!Entries(runner.known))
  BY <1>1, WhatIsKnown DEF Or
<1>3. RunnerIs("idle", runner.quit, runner.known, Repo!Listing)
  <2> HIDE DEF Repo!Listing
  <2> QED BY <1>1, <1>2 DEF RepositoryTypes, RunnerTypes, RunnerIs, Steps
<1>4. /\ look' \in LookTypes /\ look'.found = Repo!Unread /\ look'.listing = Repo!Unread /\ look'.touched = {}
      /\ look'.answer = "ok" /\ look'.skipped = look.skipped /\ look'.still = look.still
  BY <1>1, EndedIs
<1>5. cache' \in CacheTypes /\ \A n \in PackageNames : OnePackage(cache'.known[n], cache'.key)
  <2>1. CASE Repo!Records
    <3> DEFINE known == [n \in PackageNames |-> Repo!Others(n)]
    <3>1. known \in [PackageNames -> Or(Repo!Knowledge)] /\ \A n \in PackageNames : OnePackage(known[n], config.key)
      BY OthersAre
    <3>2. cache' = Repo!Meta(Repo!Listing, known)
      BY <2>1 DEF Repo!Records
    <3> HIDE DEF known, Repo!Listing
    <3>3. cache' \in CacheTypes /\ cache'.known = known /\ cache'.key = config.key
      BY <1>1, <1>2, <3>1, <3>2, MetaIs
    <3> QED BY <3>1, <3>3
  <2>2. CASE Repo!CannotRecord
    BY <1>1, <2>2 DEF Repo!CannotRecord, Knows, RepositoryTypes
  <2> QED BY <2>1, <2>2
<1>6. left' \in [changes : Nat, reloads : Nat, faults : 0 .. MaxFaults] /\ (left'.faults = left.faults \/ left'.faults # MaxFaults)
  BY <1>1, LeftIs DEF Repo!Records, Repo!CannotRecord, RepositoryTypes
<1>7. RepositoryTypes'
  BY <1>1, <1>3, <1>4, <1>5, <1>6 DEF RepositoryTypes, RunnerIs
<1>8. \A n \in PackageNames : (look.found')[n] = Nobody /\ (look.listing')[n] = Nobody
  BY <1>4 DEF Repo!Unread
<1>9. Knows'
  BY <1>1, <1>3, <1>4, <1>5, <1>8 DEF Knows, OnePackage, FoundAsItIs, InHand, OneFile, RunnerIs
<1>10. ASSUME look.still, NEW n \in PackageNames PROVE Seen(n)'
  <2>1. SeenIn(runner.known, n)
    BY <1>1, <1>10 DEF Sees, Seen, Afterwards
  <2>2. SeenIn(runner.known, n)'
    BY <1>1, <1>3, <1>4, <1>6, <2>1 DEF SeenIn, StandsIn, Unreadable, RunnerIs
  <2> QED BY <1>3, <2>2 DEF Seen, Repo!At, OneFile, Afterwards, RunnerIs
<1>11. Sees'
  BY <1>3, <1>4, <1>8, <1>10 DEF Sees, Repo!At, OneFile, RunnerIs
<1>12. KeepsTheNewest'
  BY <1>3 DEF KeepsTheNewest, Repo!At, RunnerIs
<1>13. InWriting' /\ ListsAreThere' /\ IndexIsLater' /\ LibraryIsThere'
  BY <1>1, <1>3 DEF MetadataOK, InWriting, ListsAreThere, IndexIsLater, LibraryIsThere, Writing, Repo!At, RunnerIs
<1>14. /\ Repo!Published = look.doc /\ TheDoc(look.doc)
       /\ kind = "rpm" => metadata.signature = look.doc /\ look.doc.entries \in metadata.lists
       /\ kind = "fdroid" => metadata.entry = look.doc /\ metadata.jar = look.doc
  BY <1>1, PublishedIs DEF MetadataOK, InWriting, ListsAreThere, IndexIsLater, LibraryIsThere, Repo!At, Writing
<1>15. Repo!Published' = look.doc
  BY <1>1, <1>14 DEF Repo!Published
<1>16. Agrees'
  <2>1. ASSUME ~cut' PROVE \A n \in PackageNames : look.doc.entries[n] # Nobody => look.doc.entries[n][1] = look.doc.entries[n][2]
    <3>1. Certain
      BY <1>1, <2>1 DEF Certain
    <3> QED BY <1>1, <1>14, <3>1, ReadAtOnce DEF TheDoc
  <2>2. Repo!ListingOf(look.doc.entries) = Repo!Listing /\ look.doc.title = config.title /\ look.doc.key = config.key
    BY <1>2, <1>14 DEF TheDoc
  <2>3. Repo!ListingOf(look.doc.entries) = runner'.listed /\ kind' = kind /\ config' = config /\ metadata' = metadata
    BY <1>1, <1>3, <2>2 DEF RunnerIs
  <2>4. ~cut' => OfOneWriting(Repo!Published)'
    BY <1>14, <1>15, <2>1, <2>2, <2>3 DEF OfOneWriting, Repo!ListingOf
  <2> QED BY <2>4 DEF Agrees
<1>17. Serves'
  <2>1. Repo!Whole(Repo!Published)'
    BY <1>1, <1>3, <1>14, <1>15 DEF Repo!Whole, TheDoc, Repo!Entries, RunnerIs
  <2> QED BY <2>1 DEF Serves
<1> QED BY <1>7, <1>9, <1>11, <1>12, <1>13, <1>16, <1>17 DEF RepositoryInv, MetadataOK

-----------------------------------------------------------------------------
LEMMA RepositoryStarts ==
  ASSUME Repo!RepositoryInit
  PROVE  RepositoryInv
<1>1. /\ kind \in PackageKinds /\ config \in Configs /\ packages = Repo!Unread /\ metadata = Repo!Blank /\ cache = Repo!NoCache
      /\ runner = Repo!Stopped /\ look = Repo!NoLook /\ recent = {} /\ cut = FALSE
      /\ left = [changes |-> MaxPackages, reloads |-> MaxRestarts, faults |-> MaxFaults]
  BY DEF Repo!RepositoryInit
<1>2. RepositoryTypes
  <2>1. Repo!Unread \in [PackageNames -> Or(Repo!Packages)] /\ Repo!Blank \in MetadataTypes
    BY DEF Repo!Unread, Repo!Blank, MetadataTypes, Or
  <2>2. Repo!NoCache \in CacheTypes
    BY UnreadIs
  <2>3. left \in [changes : Nat, reloads : Nat, faults : 0 .. MaxFaults]
    BY <1>1, RepositoryAssumption
  <2> QED BY <1>1, <2>1, <2>2, <2>3, StoppedIs, NoLookIs DEF RepositoryTypes
<1>3. /\ \A n \in PackageNames : look.found[n] = Nobody /\ look.listing[n] = Nobody /\ runner.known[n] = Nobody
                            /\ cache.known[n] = Nobody
      /\ runner.pc = "off" /\ look.answer # "ok" /\ ~look.still
      /\ look.found = Repo!Unread /\ look.listing = Repo!Unread
  BY <1>1, RepositoryAssumption DEF Repo!NoLook, Repo!Stopped, Repo!NoCache, Repo!Unread
<1>4. Knows /\ Sees /\ KeepsTheNewest
  BY <1>3 DEF Knows, Sees, KeepsTheNewest, OnePackage, FoundAsItIs, InHand, OneFile, Repo!At
<1>5. InWriting /\ ListsAreThere /\ IndexIsLater /\ LibraryIsThere
  BY <1>1, <1>3 DEF InWriting, ListsAreThere, IndexIsLater, LibraryIsThere, Writing, Repo!At, Repo!Blank
<1>6. Repo!Published = Nobody
  BY <1>1, <1>2, PublishedIs DEF Repo!Blank
<1>7. Agrees /\ Serves
  BY <1>3, <1>6 DEF Agrees, Serves
<1> QED BY <1>2, <1>4, <1>5, <1>7 DEF RepositoryInv, MetadataOK

LEMMA RepositoryStands ==
  ASSUME RepositoryInv, UNCHANGED Repo!repositoryVars
  PROVE  RepositoryInv'
<1>1. UNCHANGED <<kind, config, packages, metadata, cache, runner, look, recent, cut, left>>
  BY DEF Repo!repositoryVars
<1>2. RepositoryTypes'
  BY <1>1 DEF RepositoryInv, RepositoryTypes
<1>3. Knows'
  BY <1>1 DEF RepositoryInv, Knows, OnePackage, FoundAsItIs, InHand, Repo!At, Repo!This
<1>4. Sees'
  BY <1>1 DEF RepositoryInv, Sees, Seen, SeenIn, SortedOut, StandsIn, Unreadable, Repo!At
<1>5. KeepsTheNewest'
  BY <1>1 DEF RepositoryInv, KeepsTheNewest, Newer, Repo!Candidates, Repo!Before, Repo!Version, Repo!At
<1>6. MetadataOK'
  BY <1>1, MetadataStays
<1> QED BY <1>2, <1>3, <1>4, <1>5, <1>6 DEF RepositoryInv

LEMMA RepositoryKeeps ==
  ASSUME RepositoryInv, CacheInv, [Repo!RepositoryNext]_(Repo!repositoryVars)
  PROVE  RepositoryInv'
<1>1. ASSUME NEW n \in PackageNames, NEW file \in {f \in PackageFiles : kind = "rpm" \/ f.key = Nobody} \cup {Nobody},
             Repo!Changes(n, file)
      PROVE  RepositoryInv'
  BY <1>1, ChangesKeeps
<1>2. CASE Repo!Wipes
  BY <1>2, WipesKeeps
<1>3. CASE Repo!Restores \/ Repo!Drops \/ Repo!CannotRestore
  BY <1>3, StartKeeps DEF CacheInv
<1>4. CASE Repo!Stops \/ Repo!Crashes
  BY <1>4, StopsKeeps
<1>5. ASSUME NEW to \in Configs, Repo!Reloads(to) PROVE RepositoryInv'
  BY <1>5, ReloadsKeeps
<1>6. ASSUME NEW at \in 0 .. MaxClock, Repo!Begins(at) PROVE RepositoryInv'
  BY <1>6, BeginsKeeps
<1>7. CASE \/ Repo!Looks \/ Repo!CannotLook \/ Repo!Reads \/ Repo!CannotRead \/ Repo!ReadAll
           \/ Repo!RemovesOld \/ Repo!CannotRemove \/ Repo!Pruned
  BY <1>7, LooksKeeps, CannotLookKeeps, ReadsKeeps, CannotReadKeeps, ReadAllKeeps, RemovesOldKeeps, CannotRemoveKeeps, PrunedKeeps
<1>8. CASE Repo!AdmitsKnown \/ Repo!Copies \/ Repo!Signs \/ Repo!ReadsAgain \/ Repo!Admits \/ Repo!CannotAdmit
  BY <1>8, AdmitsKnownKeeps, CopiesKeeps, SignsKeeps, ReadsAgainKeeps, AdmitsKeeps, CannotAdmitKeeps
<1>9. CASE Repo!Keeps \/ Repo!CannotKeep \/ Repo!UpToDate
  BY <1>9, LearnsKeeps, UpToDateKeeps
<1>10. CASE Repo!WritesLists \/ Repo!WritesRepomd \/ Repo!WritesSignature \/ Repo!CleansUp
  BY <1>10, WritesListsKeeps, WritesRepomdKeeps, WritesSignatureKeeps, CleansUpKeeps
<1>11. CASE Repo!WritesIndex \/ Repo!WritesEntry \/ Repo!WritesJar \/ Repo!Publishes \/ Repo!CannotWrite
  BY <1>11, WritesIndexKeeps, WritesEntryKeeps, WritesJarKeeps, PublishesKeeps, CannotWriteKeeps
<1>12. CASE Repo!Records \/ Repo!CannotRecord
  BY <1>12, RecordsKeeps
<1>13. CASE UNCHANGED Repo!repositoryVars
  BY <1>13, RepositoryStands
<1> QED BY <1>1, <1>2, <1>3, <1>4, <1>5, <1>6, <1>7, <1>8, <1>9, <1>10, <1>11, <1>12, <1>13 DEF Repo!RepositoryNext

(* The cache is of the metadata, from one look to the next.                 *)
LEMMA CacheStarts ==
  ASSUME Repo!RepositoryInit
  PROVE  CacheInv
<1>1. cache.listed = Repo!Unread /\ runner.pc = "off"
  BY UnreadIs, StoppedIs DEF Repo!RepositoryInit
<1> QED BY <1>1 DEF CacheInv, CacheAgrees, Repo!At

LEMMA CacheStands ==
  ASSUME RepositoryInv, CacheInv, kind' = kind, metadata' = metadata, cache' = cache, cut => cut',
         left'.faults = left.faults \/ left'.faults # MaxFaults,
         Repo!At("off")' \/ (runner'.listed = runner.listed /\ ~Repo!At("off")) \/ runner'.listed \in Repo!Listings
  PROVE  CacheInv'
<1>1. Repo!Published' = Repo!Published
  BY DEF Repo!Published
<1>2. IsOf(cache.listed, cache.title, cache.key) => IsOf(cache.listed, cache.title, cache.key)'
  BY <1>1 DEF IsOf, Repo!ListingOf
<1>3. CacheAgrees'
  BY <1>2 DEF CacheInv, CacheAgrees, Repo!Unread
<1> QED BY <1>3 DEF CacheInv

LEMMA FaultsDo ==
  ASSUME RepositoryInv, CacheInv, Repo!Faulty,
         Repo!At("off")' \/ (runner'.listed = runner.listed /\ ~Repo!At("off")) \/ runner'.listed \in Repo!Listings
  PROVE  CacheInv'
<1>1. left'.faults # MaxFaults
  BY LeftIs DEF RepositoryInv
<1> QED BY <1>1 DEF CacheInv, CacheAgrees

LEMMA GoesIs ==
  ASSUME RepositoryInv, NEW pc \in Steps \ {"off"}, Repo!Goes(pc)
  PROVE  runner'.listed = runner.listed
BY RunnerGoes DEF RepositoryInv, RunnerIs

LEMMA CacheStays ==
  ASSUME RepositoryInv, CacheInv, [Repo!RepositoryNext]_(Repo!repositoryVars)
  PROVE  CacheInv'
<1>1. RepositoryTypes
  BY DEF RepositoryInv
<1>2. ASSUME NEW n \in PackageNames, NEW file \in {f \in PackageFiles : kind = "rpm" \/ f.key = Nobody} \cup {Nobody},
             Repo!Changes(n, file)
      PROVE  CacheInv'
  BY <1>1, <1>2, CacheStands DEF Repo!Changes, RepositoryTypes, Repo!At
<1>3. CASE Repo!Wipes
  <2>1. /\ metadata' = Repo!Blank /\ kind' = kind /\ kind \in {"rpm", "fdroid"} /\ UNCHANGED runner
    BY <1>1, <1>3, RepositoryAssumption DEF Repo!Wipes, RepositoryTypes
  <2>2. Repo!Published' = Nobody
    BY <2>1 DEF Repo!Published, Repo!Blank
  <2> QED BY <2>1, <2>2 DEF CacheInv, CacheAgrees, IsOf, Repo!At
<1>4. CASE Repo!Restores \/ Repo!Drops \/ Repo!CannotRestore
  <2>1. ASSUME NEW known, NEW listed \in Repo!Listings, Repo!Starts(known, listed)
        PROVE  runner'.listed \in Repo!Listings /\ UNCHANGED <<kind, metadata>> /\ (cut => cut')
    BY <1>1, <2>1 DEF Repo!Starts, RepositoryTypes, RunnerTypes
  <2>2. CASE Repo!Restores
    <3>1. cache.listed \in Repo!Listings
      BY <1>1 DEF RepositoryTypes, CacheTypes
    <3>2. /\ runner'.listed \in Repo!Listings /\ UNCHANGED <<kind, metadata, cache, left>> /\ (cut => cut')
      BY <2>1, <2>2, <3>1, UnreadIs DEF Repo!Restores
    <3> QED BY <3>2, CacheStands
  <2>3. CASE Repo!Drops
    <3>1. runner'.listed \in Repo!Listings /\ cache'.listed = Repo!Unread
      BY <2>1, <2>3, UnreadIs DEF Repo!Drops
    <3> QED BY <3>1 DEF CacheInv, CacheAgrees, Repo!Unread
  <2>4. CASE Repo!CannotRestore
    BY <2>1, <2>4, UnreadIs, FaultsDo DEF Repo!CannotRestore
  <2> QED BY <1>4, <2>2, <2>3, <2>4
<1>5. CASE Repo!Stops
  <2>1. /\ UNCHANGED <<kind, cache, cut, left>> /\ runner'.pc = "off" /\ metadata'.library = Nobody
        /\ metadata'.repomd = metadata.repomd /\ metadata'.index = metadata.index
    BY <1>1, <1>5, StoppedIs DEF Repo!Stops, Repo!Gone, RepositoryTypes, MetadataTypes
  <2>2. Repo!Published' = Repo!Published \/ Repo!Published' = Nobody
    BY <1>1, <2>1, PublishedIs DEF Repo!Published
  <2>3. IsOf(cache.listed, cache.title, cache.key) => IsOf(cache.listed, cache.title, cache.key)'
    BY <2>1, <2>2 DEF IsOf, Repo!ListingOf
  <2> QED BY <2>1, <2>3 DEF CacheInv, CacheAgrees, Repo!At, Repo!Unread
<1>6. CASE Repo!Crashes
  BY <1>6, FaultsDo, StoppedIs DEF Repo!Crashes, Repo!Gone, Repo!At
<1>7. ASSUME NEW to \in Configs, Repo!Reloads(to) PROVE CacheInv'
  BY <1>1, <1>7, CacheStands DEF Repo!Reloads, RepositoryTypes, RunnerTypes, Repo!At
<1>8. CASE Repo!Looks
  BY <1>8, CacheStands, GoesIs DEF Repo!Looks, Repo!MayLook, Repo!At, Steps
<1>9. CASE Repo!CannotLook
  BY <1>9, FaultsDo, GoesIs DEF Repo!CannotLook, Repo!MayLook, Repo!Answers, Repo!At, Steps
<1>10. CASE Repo!Reads \/ Repo!CannotRead \/ Repo!RemovesOld \/ Repo!CannotRemove \/ Repo!AdmitsKnown
  BY <1>10, CacheStands, FaultsDo
  DEF Repo!Reads, Repo!CannotRead, Repo!RemovesOld, Repo!CannotRemove, Repo!AdmitsKnown, Repo!Working, Repo!At
<1>11. CASE Repo!ReadAll \/ Repo!Pruned \/ Repo!Signs
  BY <1>11, CacheStands, GoesIs DEF Repo!ReadAll, Repo!Pruned, Repo!Signs, Repo!At, Steps
<1>12. CASE Repo!Copies
  BY <1>12, CacheStands, GoesIs DEF Repo!Copies, Repo!Working, Repo!At, Steps
<1>13. CASE Repo!ReadsAgain
  BY <1>13, CacheStands, GoesIs DEF Repo!ReadsAgain, Repo!Working, Repo!At, Steps
<1>14. CASE Repo!Admits
  BY <1>14, CacheStands, GoesIs DEF Repo!Admits, Repo!At, Steps
<1>15. CASE Repo!CannotAdmit
  BY <1>15, FaultsDo, GoesIs DEF Repo!CannotAdmit, Repo!At, Steps
<1>16. CASE Repo!Keeps
  <2>1. /\ runner.pc = "admits" /\ runner.listed \in Repo!Listings /\ UNCHANGED <<kind, config, metadata, cut, left>>
        /\ cache' = Repo!Kept /\ runner'.listed = runner.listed
    BY <1>1, <1>16 DEF Repo!Keeps, Repo!Learns, Repo!At, CacheInv, RepositoryTypes, RunnerTypes
  <2>2. CASE cache' = cache
    BY <2>1, <2>2, CacheStands DEF Repo!At
  <2>3. CASE cache'.listed = runner.listed /\ cache'.title = config.title /\ cache'.key = config.key
    <3>1. Repo!Published' = Repo!Published
      BY <2>1 DEF Repo!Published
    <3>2. ~cut => IsOf(runner.listed, config.title, config.key)
      BY <2>1, RepositoryAssumption DEF RepositoryInv, MetadataOK, Agrees, OfOneWriting, IsOf
    <3>3. ~cut' => IsOf(cache.listed, cache.title, cache.key)'
      BY <2>1, <2>3, <3>1, <3>2 DEF IsOf, Repo!ListingOf
    <3> QED BY <2>1, <3>3 DEF CacheInv, CacheAgrees
  <2> QED BY <2>1, <2>2, <2>3, KeptIs
<1>17. CASE Repo!CannotKeep
  BY <1>1, <1>17, FaultsDo DEF Repo!CannotKeep, Repo!Learns, Repo!At, RepositoryTypes, RunnerTypes
<1>18. CASE Repo!UpToDate
  BY <1>18, CacheStands, GoesIs DEF Repo!UpToDate, Repo!Answers, Repo!At, Steps
<1>19. ASSUME NEW at \in 0 .. MaxClock, Repo!Begins(at) PROVE CacheInv'
  BY <1>19, CacheStands, GoesIs DEF Repo!Begins, Repo!At, Steps
<1>20. CASE \/ Repo!WritesLists \/ Repo!WritesRepomd \/ Repo!WritesSignature \/ Repo!CleansUp
            \/ Repo!WritesIndex \/ Repo!WritesEntry \/ Repo!WritesJar \/ Repo!Publishes
  <2>1. /\ runner.pc \in Writing /\ UNCHANGED <<kind, cache, left>>
        /\ \E pc \in Writing : Repo!Goes(pc)
    BY <1>20 DEF Repo!WritesLists, Repo!WritesRepomd, Repo!WritesSignature, Repo!CleansUp, Repo!WritesIndex,
      Repo!WritesEntry, Repo!WritesJar, Repo!Publishes, Repo!Replaces, Repo!Aside, Repo!At, Writing
  <2>2. runner'.listed = runner.listed /\ ~Repo!At("off")
    BY <2>1, GoesIs DEF Writing, Steps, Repo!At
  <2>3. InWriting
    BY DEF RepositoryInv, MetadataOK
  <2>4. CASE Repo!WritesLists
    <3>1. metadata'.repomd = metadata.repomd /\ cut' = cut /\ kind = "rpm" /\ UNCHANGED <<cache, left, kind>>
      BY <1>1, <2>1, <2>4 DEF Repo!WritesLists, Repo!Replaces, RepositoryTypes, MetadataTypes
    <3>2. Repo!Published' = Repo!Published
      BY <3>1 DEF Repo!Published
    <3>3. IsOf(cache.listed, cache.title, cache.key) => IsOf(cache.listed, cache.title, cache.key)'
      BY <3>1, <3>2 DEF IsOf, Repo!ListingOf
    <3> QED BY <2>2, <3>1, <3>3 DEF CacheInv, CacheAgrees, Repo!Unread
  <2>5. CASE ~Repo!WritesLists
    <3>1. cut'
      BY <1>20, <2>3, <2>5 DEF Repo!WritesRepomd, Repo!WritesSignature, Repo!CleansUp, Repo!WritesIndex,
        Repo!WritesEntry, Repo!WritesJar, Repo!Publishes, Repo!Replaces, Repo!At, InWriting
    <3> QED BY <2>2, <3>1 DEF CacheInv, CacheAgrees
  <2> QED BY <2>4, <2>5
<1>21. CASE Repo!CannotWrite
  BY <1>21, FaultsDo, GoesIs DEF Repo!CannotWrite, Repo!Answers, Repo!At, Steps
<1>22. CASE Repo!Records \/ Repo!CannotRecord
  <2>1. /\ runner.pc = "records" /\ MetadataOK /\ UNCHANGED <<kind, config, metadata>>
        /\ runner' = [runner EXCEPT !.pc = "idle", !.listed = Repo!Listing]
    BY <1>22 DEF RepositoryInv, Repo!Records, Repo!CannotRecord, Repo!Lists, Repo!At
  <2>2. Repo!Listing \in Repo!Listings /\ Repo!Listing = Repo!ListingOf(Repo!Entries(runner.known))
    BY <1>1, WhatIsKnown
  <2>3. runner'.listed \in Repo!Listings
    <3> HIDE DEF Repo!Listing
    <3> QED BY <1>1, <2>1, <2>2 DEF RepositoryTypes, RunnerTypes
  <2>4. CASE Repo!Records
    <3> DEFINE known == [n \in PackageNames |-> Repo!Others(n)]
    <3>1. known \in [PackageNames -> Or(Repo!Knowledge)] /\ cache' = Repo!Meta(Repo!Listing, known)
      BY <2>4, OthersAre DEF Repo!Records
    <3> HIDE DEF known, Repo!Listing
    <3>2. cache'.listed = Repo!Listing /\ cache'.title = config.title /\ cache'.key = config.key
      BY <1>1, <2>2, <3>1, MetaIs
    <3>3. Repo!Published = look.doc /\ TheDoc(look.doc)
      BY <1>1, <2>1, PublishedIs
      DEF MetadataOK, InWriting, ListsAreThere, IndexIsLater, LibraryIsThere, Repo!At, Writing
    <3>4. Repo!Published' = look.doc
      BY <2>1, <3>3 DEF Repo!Published
    <3>5. PICK doc : doc = look.doc
      OBVIOUS
    <3>6. Repo!ListingOf(doc.entries) = Repo!Listing /\ doc.title = config.title /\ doc.key = config.key
      BY <2>2, <3>3, <3>5 DEF TheDoc
    <3>7. Repo!Published' = doc
      BY <3>4, <3>5
    <3>8. Repo!ListingOf(doc.entries)' = Repo!ListingOf(doc.entries)
      BY <2>1 DEF Repo!ListingOf
    <3>9. IsOf(cache.listed, cache.title, cache.key)'
      BY <3>2, <3>6, <3>7, <3>8 DEF IsOf
    <3> QED BY <2>3, <3>9 DEF CacheInv, CacheAgrees
  <2>5. CASE Repo!CannotRecord
    BY <2>3, <2>5, FaultsDo DEF Repo!CannotRecord
  <2> QED BY <1>22, <2>4, <2>5
<1>23. CASE UNCHANGED Repo!repositoryVars
  BY <1>23, CacheStands DEF Repo!repositoryVars, Repo!At
<1> QED BY <1>2, <1>3, <1>4, <1>5, <1>6, <1>7, <1>8, <1>9, <1>10, <1>11, <1>12, <1>13, <1>14, <1>15, <1>16, <1>17,
           <1>18, <1>19, <1>20, <1>21, <1>22, <1>23 DEF Repo!RepositoryNext

(* What is said of it.                                                      *)
LEMMA ItsFolderIsServed ==
  ASSUME RepositoryInv
  PROVE  Repo!ServesItsFolder
<1>1. \A n \in PackageNames : Repo!KnownAsItIs(n)
  BY DEF RepositoryInv, Knows, Repo!KnownAsItIs, OnePackage
<1>2. ASSUME look.answer = "ok", look.still, NEW n \in PackageNames PROVE Repo!OfTheFolder(n)
  <2>1. SeenIn(runner.known, n)
    BY <1>2 DEF RepositoryInv, Sees, Seen
  <2> QED BY <2>1 DEF SeenIn, Unreadable, StandsIn, Repo!OfTheFolder
<1>3. ASSUME look.answer = "ok", look.still, ~cut, \A n \in PackageNames : ~Repo!Doubtful(n) PROVE Repo!Whole(Repo!Published)
  BY <1>3 DEF RepositoryInv, MetadataOK, Serves, Repo!Doubtful
<1>4. recent \subseteq metadata.lists
  BY DEF RepositoryInv, MetadataOK, ListsAreThere
<1> QED BY <1>1, <1>2, <1>3, <1>4 DEF Repo!ServesItsFolder

LEMMA VersionIs ==
  ASSUME RepositoryInv, Repo!At("prunes"), NEW n \in Repo!Candidates, ~Repo!Doubtful(n)
  PROVE  Repo!Version(n) = packages[n].version /\ packages[n] # Nobody /\ packages[n].whole /\ packages[n].version \in Nat
<1>1. /\ RepositoryTypes /\ n \in PackageNames /\ look.found[n] # Nobody /\ FoundAsItIs(n)
      /\ OnePackage(runner.known[n], config.key) /\ packages \in [PackageNames -> Or(Repo!Packages)]
      /\ look.found \in [PackageNames -> Or(Repo!Finds)] /\ n \notin look.touched
  BY FieldsOf DEF RepositoryInv, Knows, Repo!Candidates, Repo!Doubtful
<1>2. packages[n] = look.found[n].file /\ (~look.found[n].before => look.found[n].file.whole)
      /\ (look.found[n].before => runner.known[n] # Nobody /\ runner.known[n].stamp = look.found[n].file)
  BY <1>1 DEF FoundAsItIs, Repo!At, InALook
<1>3. look.found[n].file \in Repo!Packages
  BY <1>1 DEF Or, Repo!Finds
<1>4. look.found[n].before => runner.known[n].read = packages[n] /\ packages[n].whole
  BY <1>1, <1>2 DEF OnePackage, Repo!Doubtful
<1> QED BY <1>2, <1>3, <1>4, RepositoryAssumption DEF Repo!Version, Repo!Packages

LEMMA OnlyTheOldGo ==
  ASSUME RepositoryInv, Repo!RemovesOld, NEW n \in PackageNames, packages'[n] # packages[n], ~Repo!Doubtful(n)
  PROVE  /\ packages'[n] = Nobody
         /\ Cardinality({m \in PackageNames \ {n} : Repo!Doubtful(m) \/
              (packages[m] # Nobody /\ packages[m].whole /\ packages[m].version >= packages[n].version)}) >= KeepNewest
<1>1. /\ RepositoryTypes /\ Repo!At("prunes") /\ Repo!This \in look.todo /\ Repo!This \in PackageNames
      /\ packages \in [PackageNames -> Or(Repo!Packages)] /\ packages' = [packages EXCEPT ![Repo!This] = Nobody]
  BY ThisIs, FieldsOf DEF RepositoryInv, Repo!RemovesOld
<1>2. n = Repo!This /\ packages'[n] = Nobody
  BY <1>1
<1>3. n \in Repo!Candidates /\ Cardinality(Newer(n)) >= KeepNewest
  BY <1>1, <1>2 DEF RepositoryInv, KeepsTheNewest, Repo!Candidates
<1> DEFINE others == {m \in PackageNames \ {n} : Repo!Doubtful(m) \/
              (packages[m] # Nobody /\ packages[m].whole /\ packages[m].version >= packages[n].version)}
<1>4. ASSUME NEW m \in Newer(n) PROVE m \in others
  <2>1. m \in Repo!Candidates /\ m \notin look.todo /\ Repo!Before(m, n) /\ m \in PackageNames
    BY <1>4 DEF Newer, Repo!Candidates
  <2>2. CASE Repo!Doubtful(m)
    BY <1>1, <1>2, <2>1, <2>2
  <2>3. CASE ~Repo!Doubtful(m)
    <3>1. /\ Repo!Version(m) = packages[m].version /\ packages[m] # Nobody /\ packages[m].whole /\ packages[m].version \in Nat
          /\ Repo!Version(n) = packages[n].version /\ packages[n].version \in Nat
      BY <1>1, <1>3, <2>1, <2>3, VersionIs
    <3>2. packages[m].version >= packages[n].version
      BY <2>1, <3>1 DEF Repo!Before
    <3> QED BY <1>1, <1>2, <2>1, <3>1, <3>2
  <2> QED BY <2>2, <2>3
<1>5. Newer(n) \subseteq others /\ IsFiniteSet(others) /\ others \subseteq PackageNames
  BY <1>4, FS_Subset, RepositoryAssumption
<1>6. /\ Cardinality(Newer(n)) <= Cardinality(others) /\ Cardinality(Newer(n)) \in Nat
      /\ Cardinality(others) \in Nat
  BY <1>5, FS_Subset, FS_CardinalityType
<1> HIDE DEF others
<1>7. Cardinality(others) >= KeepNewest
  BY <1>3, <1>6, RepositoryAssumption
<1> QED BY <1>2, <1>7 DEF others

LEMMA OnlyWhatWasReadIsSigned ==
  ASSUME RepositoryInv, Repo!Signs, NEW n \in PackageNames, packages'[n] # packages[n], ~Repo!Doubtful(n)
  PROVE  kind = "rpm" /\ packages'[n] = [packages[n] EXCEPT !.key = config.key]
<1>1. /\ RepositoryTypes /\ runner.pc = "signs" /\ InHand
      /\ packages \in [PackageNames -> Or(Repo!Packages)] /\ packages' = [packages EXCEPT ![Repo!This] = look.copy]
  BY FieldsOf DEF RepositoryInv, Repo!Signs, Repo!At, Knows
<1>2. /\ Admitting /\ ~look.found[Repo!This].before /\ look.found[Repo!This] # Nobody /\ kind = "rpm"
      /\ Repo!This \notin look.touched => look.copy = [look.found[Repo!This].file EXCEPT !.key = config.key]
  BY <1>1 DEF InHand, OneFile, Repo!At, Admitting
<1>3. Repo!This \in PackageNames /\ FoundAsItIs(Repo!This)
  BY <1>2, AdmittingIs
<1>4. n = Repo!This /\ packages'[n] = look.copy /\ n \notin look.touched
  BY <1>1, <1>3 DEF Repo!Doubtful
<1> QED BY <1>1, <1>2, <1>3, <1>4 DEF FoundAsItIs, InALook

(* Of all the steps, these change the folder, and this one the index.       *)
LEMMA WhoChangesIt ==
  ASSUME RepositoryInv, [Repo!RepositoryNext]_(Repo!repositoryVars)
  PROVE  /\ packages' = packages \/ left'.changes # left.changes \/ Repo!RemovesOld \/ Repo!Signs
         /\ metadata'.jar = metadata.jar \/ metadata'.jar = Nobody \/ Repo!WritesJar
<1>1. RepositoryTypes
  BY DEF RepositoryInv
<1>2. ASSUME NEW n \in PackageNames, NEW file \in {f \in PackageFiles : kind = "rpm" \/ f.key = Nobody} \cup {Nobody},
             Repo!Changes(n, file)
      PROVE  left'.changes # left.changes /\ metadata' = metadata
  BY <1>1, <1>2 DEF Repo!Changes, RepositoryTypes
<1>3. CASE Repo!Wipes
  BY <1>3 DEF Repo!Wipes, Repo!Blank
<1>4. CASE Repo!Restores \/ Repo!Drops \/ Repo!CannotRestore
  BY <1>4 DEF Repo!Restores, Repo!Drops, Repo!CannotRestore, Repo!Starts
<1>5. CASE Repo!Stops \/ Repo!Crashes
  BY <1>1, <1>5 DEF Repo!Stops, Repo!Crashes, Repo!Gone, RepositoryTypes, MetadataTypes
<1>6. ASSUME NEW to \in Configs, Repo!Reloads(to) PROVE packages' = packages /\ metadata' = metadata
  BY <1>6 DEF Repo!Reloads
<1>7. ASSUME NEW at \in 0 .. MaxClock, Repo!Begins(at) PROVE packages' = packages /\ metadata' = metadata
  BY <1>7 DEF Repo!Begins
<1>8. CASE \/ Repo!Looks \/ Repo!CannotLook \/ Repo!Reads \/ Repo!CannotRead \/ Repo!ReadAll
           \/ Repo!RemovesOld \/ Repo!CannotRemove \/ Repo!Pruned
  BY <1>8 DEF Repo!Looks, Repo!CannotLook, Repo!Reads, Repo!CannotRead, Repo!ReadAll, Repo!RemovesOld, Repo!CannotRemove, Repo!Pruned
<1>9. CASE Repo!AdmitsKnown \/ Repo!Copies \/ Repo!Signs \/ Repo!ReadsAgain \/ Repo!Admits \/ Repo!CannotAdmit
  BY <1>9 DEF Repo!AdmitsKnown, Repo!Copies, Repo!Signs, Repo!ReadsAgain, Repo!Admits, Repo!CannotAdmit
<1>10. CASE Repo!Keeps \/ Repo!CannotKeep \/ Repo!UpToDate
  BY <1>10 DEF Repo!Keeps, Repo!CannotKeep, Repo!Learns, Repo!UpToDate
<1>11. CASE Repo!WritesLists \/ Repo!WritesRepomd \/ Repo!WritesSignature \/ Repo!CleansUp
  BY <1>1, <1>11 DEF Repo!WritesLists, Repo!WritesRepomd, Repo!WritesSignature, Repo!CleansUp, Repo!Replaces,
    Repo!Aside, RepositoryTypes, MetadataTypes
<1>12. CASE Repo!WritesIndex \/ Repo!WritesEntry \/ Repo!WritesJar \/ Repo!Publishes \/ Repo!CannotWrite
  BY <1>1, <1>12 DEF Repo!WritesIndex, Repo!WritesEntry, Repo!WritesJar, Repo!Publishes, Repo!CannotWrite,
    Repo!Replaces, Repo!Aside, RepositoryTypes, MetadataTypes
<1>13. CASE Repo!Records \/ Repo!CannotRecord
  BY <1>13 DEF Repo!Records, Repo!CannotRecord, Repo!Lists
<1>14. CASE UNCHANGED Repo!repositoryVars
  BY <1>14 DEF Repo!repositoryVars
<1> QED BY <1>2, <1>3, <1>4, <1>5, <1>6, <1>7, <1>8, <1>9, <1>10, <1>11, <1>12, <1>13, <1>14 DEF Repo!RepositoryNext

LEMMA IndexesComeLater ==
  ASSUME RepositoryInv, Repo!WritesJar, metadata.jar # Nobody
  PROVE  metadata'.jar.at > metadata.jar.at
<1>1. /\ RepositoryTypes /\ kind = "fdroid" /\ Repo!At("seals") /\ IndexIsLater
      /\ metadata' = [metadata EXCEPT !.jar = look.doc]
  BY DEF RepositoryInv, MetadataOK, Repo!WritesJar, Repo!Replaces
<1>2. metadata'.jar = look.doc
  BY <1>1 DEF RepositoryTypes, MetadataTypes
<1> QED BY <1>1, <1>2 DEF IndexIsLater

LEMMA WhatWasReadChanges ==
  ASSUME RepositoryInv, [Repo!RepositoryNext]_(Repo!repositoryVars)
  PROVE  Repo!ChangesOnlyIt
<1>1. ASSUME left'.changes = left.changes, NEW n \in PackageNames, packages'[n] # packages[n], ~Repo!Doubtful(n)
      PROVE  \/ kind = "rpm" /\ packages'[n] = [packages[n] EXCEPT !.key = config.key]
             \/ /\ packages'[n] = Nobody
                /\ Cardinality({m \in PackageNames \ {n} : Repo!Doubtful(m) \/
                     (packages[m] # Nobody /\ packages[m].whole /\ packages[m].version >= packages[n].version)})
                     >= KeepNewest
  <2>1. Repo!RemovesOld \/ Repo!Signs
    BY <1>1, WhoChangesIt
  <2>2. CASE Repo!RemovesOld
    BY <1>1, <2>2, OnlyTheOldGo
  <2>3. CASE Repo!Signs
    BY <1>1, <2>3, OnlyWhatWasReadIsSigned
  <2> QED BY <2>1, <2>2, <2>3
<1>2. ASSUME Nobody \notin {metadata.jar, metadata'.jar}, metadata'.jar # metadata.jar
      PROVE  metadata'.jar.at > metadata.jar.at
  BY <1>2, WhoChangesIt, IndexesComeLater
<1> QED BY <1>1, <1>2, SameNumber DEF Repo!ChangesOnlyIt

(* Once a look at a folder has gone well, clients of its repository find    *)
(* what is there, signed with the key of now, and the lists they have read  *)
(* of; the runner removes a package only while enough newer ones stay, and  *)
(* signs only what it read; and an index comes later than the one before:   *)
(* whatever people change meanwhile, whatever fails, and whenever the       *)
(* process ends, but for what ServesItsFolder and ChangesWhatItRead except  *)
(* (internal/repository).                                                   *)
THEOREM ServesWhatIsThere ==
  Repo!RepositorySpec => KeepsItsRepository
<1> DEFINE Inv == RepositoryInv /\ CacheInv
<1>1. Repo!RepositoryInit => Inv
  BY RepositoryStarts, CacheStarts
<1>2. Inv /\ [Repo!RepositoryNext]_(Repo!repositoryVars) => Inv'
  BY RepositoryKeeps, CacheStays
<1>3. Inv => Repo!ServesItsFolder
  BY ItsFolderIsServed
<1>4. Inv /\ [Repo!RepositoryNext]_(Repo!repositoryVars) => [Repo!ChangesOnlyIt]_(Repo!repositoryVars)
  BY WhatWasReadChanges
<1> HIDE DEF Inv
<1>5. Repo!RepositorySpec => []Repo!ServesItsFolder
  BY <1>1, <1>2, <1>3, PTL DEF Repo!RepositorySpec
<1>6. Repo!RepositorySpec => [][Repo!ChangesOnlyIt]_(Repo!repositoryVars)
  BY <1>1, <1>2, <1>4, PTL DEF Repo!RepositorySpec
<1> QED BY <1>5, <1>6 DEF KeepsItsRepository, Repo!KeepsItsRepository, Repo!ChangesWhatItRead
=============================================================================
