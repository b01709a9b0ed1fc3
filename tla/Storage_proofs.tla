---------------------------- MODULE Storage_proofs ----------------------------
(***************************************************************************)
(* Proofs about what keeps files: every request for a name of the served   *)
(* folder, however many there are, whatever they ask for and however many  *)
(* pieces an upload has; and a multipart upload, for any requests and any  *)
(* parts.                                                                  *)
(***************************************************************************)
EXTENDS Storage, FiniteSetTheorems, TLAPS

-----------------------------------------------------------------------------
(***************************************************************************)
(* The served folder.                                                      *)
(***************************************************************************)
Pcs == {"idle", "looks", "opens", "writes", "receives", "staged", "checks", "places", "waits",
        "chunk", "applied", "renames", "removes", "done", "failed", "refused"}
Final == {"done", "failed", "refused"}
Ops == Uploads \cup Moving \cup Deleting \cup {"finder", "none"}
Request == [op : Ops, name : Names \cup {None}, to : Names \cup {None}, right : BOOLEAN, pc : Pcs,
            saw : BOOLEAN, file : Inodes \cup {None}, sent : Nat, temp : Seq(Requests \X Nat)]

Types ==
  /\ names \in [Names -> Inodes \cup {None}]
  /\ data = [i \in Inodes |-> data[i]]
  /\ staged \in [Names -> Seq(Requests \X Nat) \cup {None}]
  /\ locks \in [Names -> Requests \cup {None}] /\ claims \in [Names -> Requests \cup {None}]
  /\ req \in [Requests -> Request]
  /\ webdav \in BOOLEAN

(* Where a request is says what it is. *)
Written == {"writes", "done", "failed"}
InOrderly(r) ==
  /\ At(r, "idle") <=> req[r].op = "none"
  /\ At(r, "opens") => req[r].op \in InPlace
  /\ At(r, "writes") => req[r].op \in InPlace /\ req[r].file # None
  /\ req[r].pc \in {"receives", "staged", "checks"} => req[r].op \in Staging
  /\ req[r].pc \in {"waits", "chunk", "applied"} => req[r].op = "chunks"
  /\ At(r, "places") => req[r].op \in Staging \cup {"chunks"}
  /\ At(r, "renames") => req[r].op \in Moving
  /\ At(r, "removes") => req[r].op \in Deleting
  /\ req[r].op # "none" => Name(r) \in Names
  /\ req[r].op \in Moving => req[r].to \in Names
  /\ req[r].pc \notin Written => req[r].file = None
  /\ req[r].op \in InPlace /\ req[r].pc \in {"looks", "opens"} => req[r].sent = 0
  /\ ~req[r].right => ~req[r].saw

(* What is placed is all of what was sent, and in its order: by the request *)
(* itself, or by any that upload the file in chunks.                        *)
Own(r, k) == [j \in 1 .. k |-> <<r, j>>]
AllOf(s, n) == Len(s) = Pieces /\ \A k \in 1 .. Pieces : s[k][2] = k /\ s[k][1] \in Chunked(n)
HasItAll(r) ==
  /\ req[r].op \in Staging /\ req[r].pc \in {"staged", "checks", "places", "done"} =>
       req[r].temp = Own(r, Pieces)
  /\ req[r].op = "chunks" /\ req[r].pc \in {"places", "done"} => AllOf(req[r].temp, Name(r))

(* A lock of the name, and the claims of the page and of WebDAV, are held   *)
(* for as long as the request is at what they are for.                      *)
HoldsItsLock(r) == req[r].pc \in {"checks", "chunk", "applied", "places"} => locks[Name(r)] = r
HoldsItsClaims(r) ==
  webdav =>
    /\ req[r].op \in Claiming /\ req[r].pc \notin Final =>
         claims[Name(r)] = r /\ (req[r].op = "move" => claims[req[r].to] = r)
    /\ req[r].pc \in {"waits", "chunk", "applied"} \/ (At(r, "places") /\ req[r].op = "chunks")
         => claims[Name(r)] = r

(* What an upload without the right may find at its name when it is placed. *)
Free(n) ==
  ~Exists(n) \/ names[n] \in Names \/ req[names[n]].op \in InPlace \/ MovedTo(names[n], n)
FindsItFree(r) == At(r, "places") /\ ~req[r].right => Free(Name(r))

Correct(r) ==
  InOrderly(r) /\ HasItAll(r) /\ HoldsItsLock(r) /\ HoldsItsClaims(r) /\ FindsItFree(r)

(* A name is of a file that was there before, or of an upload that has      *)
(* written it.                                                              *)
Made(i) ==
  /\ req[i].op \in Uploads /\ req[i].file = i /\ req[i].pc \in Written
  /\ req[i].op \notin InPlace => At(i, "done")
NamedAreMade == \A n \in Names : names[n] \in Requests => Made(names[n])
(* What such a file holds: what was staged, or, when nobody else opened it, *)
(* as much as the upload has sent.                                          *)
Holds(i) ==
  /\ req[i].op \notin InPlace /\ Opened(i) = {} => data[i] = req[i].temp
  /\ req[i].op \in InPlace \ {"appe"} /\ Opened(i) = {i} =>
       data[i] = Own(i, req[i].sent) /\ (At(i, "done") => req[i].sent = Pieces)
Contents == \A i \in Requests : Made(i) => Holds(i)
(* The chunks are staged in their order.                                    *)
InStep(s, n) == \A k \in 1 .. Len(s) : s[k][2] = k /\ s[k][1] \in Chunked(n)
StagedInOrder == \A n \in Names : staged[n] # None => InStep(staged[n], n)

(* Together they are inductive.                                             *)
FolderInv ==
  Types /\ (\A r \in Requests : Correct(r)) /\ NamedAreMade /\ Contents /\ StagedInOrder

-----------------------------------------------------------------------------
(* One request goes on, with the work it has, and the others stay.          *)
Others(r) == \A q \in Requests : q # r => req'[q] = req[q]
SameWork(r) ==
  req'[r].op = req[r].op /\ req'[r].name = req[r].name /\ req'[r].to = req[r].to
    /\ req'[r].right = req[r].right
Becomes(r, pc, saw, file, sent, temp) ==
  /\ req' \in [Requests -> Request] /\ Others(r) /\ SameWork(r)
  /\ req'[r].pc = pc /\ req'[r].saw = saw /\ req'[r].file = file
  /\ req'[r].sent = sent /\ req'[r].temp = temp

LEMMA BecomesThat ==
  ASSUME req \in [Requests -> Request], NEW r \in Requests, NEW pc \in Pcs, NEW saw \in BOOLEAN,
         NEW file \in Inodes \cup {None}, NEW sent \in Nat, NEW temp \in Seq(Requests \X Nat),
         req' = [req EXCEPT ![r] = [req[r] EXCEPT !.pc = pc, !.saw = saw, !.file = file,
                                                  !.sent = sent, !.temp = temp]]
  PROVE  Becomes(r, pc, saw, file, sent, temp)
<1> DEFINE x == [req[r] EXCEPT !.pc = pc, !.saw = saw, !.file = file, !.sent = sent, !.temp = temp]
<1>1. req[r] \in Request
  OBVIOUS
<1>2. x \in Request /\ x.op = req[r].op /\ x.name = req[r].name /\ x.to = req[r].to /\ x.right = req[r].right
      /\ x.pc = pc /\ x.saw = saw /\ x.file = file /\ x.sent = sent /\ x.temp = temp
  BY <1>1 DEF Request
<1>3. req'[r] = x /\ (\A q \in Requests : q # r => req'[q] = req[q]) /\ req' \in [Requests -> Request]
  BY <1>2
<1> QED BY <1>2, <1>3 DEF Becomes, Others, SameWork

(* How the actions write that is that.                                      *)
LEMMA Turns ==
  ASSUME req \in [Requests -> Request], NEW r \in Requests, NEW pc \in Pcs
  PROVE  /\ Goes(r, pc) => Becomes(r, pc, req[r].saw, req[r].file, req[r].sent, req[r].temp)
         /\ \A saw \in BOOLEAN : req' = [req EXCEPT ![r].pc = pc, ![r].saw = saw] =>
              Becomes(r, pc, saw, req[r].file, req[r].sent, req[r].temp)
         /\ \A file \in Inodes \cup {None} : req' = [req EXCEPT ![r].pc = pc, ![r].file = file] =>
              Becomes(r, pc, req[r].saw, file, req[r].sent, req[r].temp)
         /\ \A sent \in Nat : req' = [req EXCEPT ![r].pc = pc, ![r].sent = sent] =>
              Becomes(r, pc, req[r].saw, req[r].file, sent, req[r].temp)
         /\ \A temp \in Seq(Requests \X Nat) : req' = [req EXCEPT ![r].pc = pc, ![r].temp = temp] =>
              Becomes(r, pc, req[r].saw, req[r].file, req[r].sent, temp)
<1>1. req[r] \in Request
  OBVIOUS
<1>2. req[r].pc \in Pcs /\ req[r].saw \in BOOLEAN /\ req[r].file \in Inodes \cup {None}
      /\ req[r].sent \in Nat /\ req[r].temp \in Seq(Requests \X Nat)
  BY <1>1 DEF Request
<1>3. ASSUME Goes(r, pc) PROVE Becomes(r, pc, req[r].saw, req[r].file, req[r].sent, req[r].temp)
  <2>1. req' = [req EXCEPT ![r] = [req[r] EXCEPT !.pc = pc, !.saw = req[r].saw, !.file = req[r].file,
                                     !.sent = req[r].sent, !.temp = req[r].temp]]
    BY <1>1, <1>3 DEF Goes, Request
  <2> QED BY <1>2, <2>1, BecomesThat
<1>4. ASSUME NEW saw \in BOOLEAN, req' = [req EXCEPT ![r].pc = pc, ![r].saw = saw]
      PROVE  Becomes(r, pc, saw, req[r].file, req[r].sent, req[r].temp)
  <2>1. req' = [req EXCEPT ![r] = [req[r] EXCEPT !.pc = pc, !.saw = saw, !.file = req[r].file,
                                     !.sent = req[r].sent, !.temp = req[r].temp]]
    BY <1>1, <1>4 DEF Request
  <2> QED BY <1>2, <2>1, BecomesThat
<1>5. ASSUME NEW file \in Inodes \cup {None}, req' = [req EXCEPT ![r].pc = pc, ![r].file = file]
      PROVE  Becomes(r, pc, req[r].saw, file, req[r].sent, req[r].temp)
  <2>1. req' = [req EXCEPT ![r] = [req[r] EXCEPT !.pc = pc, !.saw = req[r].saw, !.file = file,
                                     !.sent = req[r].sent, !.temp = req[r].temp]]
    BY <1>1, <1>5 DEF Request
  <2> QED BY <1>2, <2>1, BecomesThat
<1>6. ASSUME NEW sent \in Nat, req' = [req EXCEPT ![r].pc = pc, ![r].sent = sent]
      PROVE  Becomes(r, pc, req[r].saw, req[r].file, sent, req[r].temp)
  <2>1. req' = [req EXCEPT ![r] = [req[r] EXCEPT !.pc = pc, !.saw = req[r].saw, !.file = req[r].file,
                                     !.sent = sent, !.temp = req[r].temp]]
    BY <1>1, <1>6 DEF Request
  <2> QED BY <1>2, <2>1, BecomesThat
<1>7. ASSUME NEW temp \in Seq(Requests \X Nat), req' = [req EXCEPT ![r].pc = pc, ![r].temp = temp]
      PROVE  Becomes(r, pc, req[r].saw, req[r].file, req[r].sent, temp)
  <2>1. req' = [req EXCEPT ![r] = [req[r] EXCEPT !.pc = pc, !.saw = req[r].saw, !.file = req[r].file,
                                     !.sent = req[r].sent, !.temp = temp]]
    BY <1>1, <1>7 DEF Request
  <2> QED BY <1>2, <2>1, BecomesThat
<1> QED BY <1>3, <1>4, <1>5, <1>6, <1>7

(* What is given back was not somebody else's.                              *)
Keeping(r) ==
  /\ locks' \in [Names -> Requests \cup {None}] /\ claims' \in [Names -> Requests \cup {None}]
  /\ \A n \in Names, q \in Requests :
       q # r => (locks[n] = q => locks'[n] = q) /\ (claims[n] = q => claims'[n] = q)

LEMMA GivesBack ==
  ASSUME Types, NEW r \in Requests, LetsGo(r)
  PROVE  Keeping(r)
<1>1. r # None
  BY WorkAssumption
<1> QED BY <1>1 DEF Types, LetsGo, Freed, Keeping

(* What is staged stays in its order: no step takes a chunk from an upload. *)
LEMMA ChunkedGrows ==
  ASSUME NEW r \in Requests, Others(r), req[r].op = "none" \/ SameWork(r), NEW n \in Names
  PROVE  Chunked(n) \subseteq Chunked(n)'
<1> SUFFICES ASSUME NEW q \in Chunked(n) PROVE q \in Chunked(n)'
  OBVIOUS
<1>1. q \in Requests /\ req[q].op = "chunks" /\ req[q].name = n
  BY DEF Chunked
<1>2. req'[q].op = "chunks" /\ req'[q].name = n
  BY <1>1 DEF Others, SameWork
<1> QED BY <1>1, <1>2 DEF Chunked

LEMMA StagedStays ==
  ASSUME FolderInv, NEW r \in Requests, Others(r), req[r].op = "none" \/ SameWork(r), staged' = staged
  PROVE  staged' \in [Names -> Seq(Requests \X Nat) \cup {None}] /\ StagedInOrder'
<1>1. staged' \in [Names -> Seq(Requests \X Nat) \cup {None}]
  BY DEF FolderInv, Types
<1>2. StagedInOrder'
  BY ChunkedGrows DEF FolderInv, StagedInOrder, InStep
<1> QED BY <1>1, <1>2

(* What a step of one request leaves of the others.                         *)
LEMMA OthersStay ==
  ASSUME FolderInv, NEW r \in Requests, Others(r), Keeping(r), webdav' = webdav,
         req[r].op = "none" \/ SameWork(r),
         \A n \in Names : Free(n) /\ locks[n] # r => Free(n)',
         NEW q \in Requests, q # r
  PROVE  Correct(q)'
<1>1. Correct(q) /\ req'[q] = req[q]
  BY DEF FolderInv, Others
<1>2. req[q].op # "none" => Name(q) \in Names
  BY <1>1 DEF Correct, InOrderly
<1>3. InOrderly(q)'
  BY <1>1 DEF Correct, InOrderly, At, Name
<1>4. HasItAll(q)'
  <2>1. CASE req[q].op = "chunks" /\ req[q].pc \in {"places", "done"}
    <3>1. AllOf(req[q].temp, Name(q)) /\ Name(q) \in Names
      BY <1>1, <1>2, <2>1 DEF Correct, HasItAll
    <3>2. Chunked(Name(q)) \subseteq Chunked(Name(q))'
      BY <3>1, ChunkedGrows, <1>1 DEF Name, Chunked
    <3> QED BY <1>1, <2>1, <3>1, <3>2 DEF HasItAll, AllOf, Name, Staging
  <2>2. CASE ~(req[q].op = "chunks" /\ req[q].pc \in {"places", "done"})
    BY <1>1, <2>2 DEF Correct, HasItAll
  <2> QED BY <2>1, <2>2
<1>5. HoldsItsLock(q)'
  BY <1>1, <1>2 DEF Correct, HoldsItsLock, InOrderly, Keeping, Name, At
<1>6. HoldsItsClaims(q)'
  BY <1>1, <1>2 DEF Correct, HoldsItsClaims, InOrderly, Keeping, Name, At, Claiming, Moving
<1>7. FindsItFree(q)'
  <2> SUFFICES ASSUME At(q, "places"), ~req[q].right PROVE Free(Name(q))'
    BY <1>1 DEF FindsItFree, At, Name
  <2>1. Free(Name(q)) /\ locks[Name(q)] = q /\ Name(q) \in Names
    BY <1>1, <1>2 DEF Correct, FindsItFree, HoldsItsLock, InOrderly, At, Staging
  <2>2. Name(q)' = Name(q)
    BY <1>1 DEF Name
  <2>3. PICK n \in Names : n = Name(q)
    BY <2>1
  <2>4. Free(n)'
    BY <2>1, <2>3
  <2> QED BY <2>2, <2>3, <2>4 DEF Free, Exists
<1> QED BY <1>3, <1>4, <1>5, <1>6, <1>7 DEF Correct

(* A step that only looks, waits, or locks leaves all files as they are.    *)
LEMMA LookingKeeps ==
  ASSUME FolderInv, NEW r \in Requests, req' \in [Requests -> Request], Others(r), Keeping(r),
         UNCHANGED <<names, data, webdav>>, req[r].op = "none" \/ SameWork(r),
         req[r].file = None, req'[r].file = None, Correct(r)',
         staged' \in [Names -> Seq(Requests \X Nat) \cup {None}], StagedInOrder'
  PROVE  FolderInv'
<1>1. Types'
  BY DEF FolderInv, Types, Keeping
<1>2. None \notin Inodes
  BY WorkAssumption DEF Inodes
<1>3. \A i \in Requests : Made(i) => i # r /\ Made(i)'
  BY <1>2, WorkAssumption DEF Made, Others, At
<1>4. \A i \in Requests : Made(i)' => i # r /\ Made(i)
  BY <1>2, WorkAssumption DEF Made, Others, At
<1>5. \A i \in Inodes : Opened(i)' = Opened(i)
  BY <1>2 DEF Opened, Others
<1>6. \A i \in Inodes, n \in Names : MovedTo(i, n) => MovedTo(i, n)'
  BY <1>2 DEF MovedTo, Others
<1>7. NamedAreMade'
  BY <1>3 DEF FolderInv, NamedAreMade
<1>8. \A n \in Names : Free(n) => Free(n)'
  <2> SUFFICES ASSUME NEW n \in Names, Free(n), Exists(n), names[n] \notin Names PROVE Free(n)'
    BY DEF Free, Exists
  <2>1. names[n] \in Requests
    BY DEF FolderInv, Types, Exists, Inodes
  <2>2. names[n] # r
    BY <1>3, <2>1 DEF FolderInv, NamedAreMade
  <2>3. req'[names[n]] = req[names[n]]
    BY <2>1, <2>2 DEF Others
  <2> QED BY <1>6, <2>1, <2>3 DEF Free, Exists, Inodes
<1>9. Contents'
  <2> SUFFICES ASSUME NEW i \in Requests, Made(i)' PROVE Holds(i)'
    BY DEF Contents
  <2>1. Made(i) /\ i # r /\ req'[i] = req[i] /\ Opened(i)' = Opened(i)
    BY <1>4, <1>5 DEF Others, Inodes
  <2>2. Holds(i)
    BY <2>1 DEF FolderInv, Contents
  <2> QED BY <2>1, <2>2 DEF Holds, At
<1>10. \A q \in Requests : Correct(q)'
  BY <1>8, OthersStay
<1> QED BY <1>1, <1>7, <1>9, <1>10 DEF FolderInv

LEMMA TypesOf ==
  ASSUME Types, NEW r \in Requests
  PROVE  /\ req[r].pc \in Pcs /\ req[r].saw \in BOOLEAN /\ req[r].file \in Inodes \cup {None}
         /\ req[r].sent \in Nat /\ req[r].temp \in Seq(Requests \X Nat) /\ req[r].right \in BOOLEAN
         /\ req[r].op \in Ops
<1>1. req[r] \in Request
  BY DEF Types
<1> QED BY <1>1 DEF Request

(* The files are left alone, and r goes on, or ends.                        *)
LEMMA TurnKeeps ==
  ASSUME FolderInv, NEW r \in Requests, NEW pc, NEW saw, NEW sent, NEW temp,
         Becomes(r, pc, saw, req[r].file, sent, temp), req[r].file = None,
         Keeping(r), UNCHANGED <<names, data, staged, webdav>>, Correct(r)'
  PROVE  FolderInv'
<1>1. staged' \in [Names -> Seq(Requests \X Nat) \cup {None}] /\ StagedInOrder'
  BY StagedStays DEF Becomes
<1> QED BY <1>1, LookingKeeps DEF Becomes

LEMMA AnswerKeeps ==
  ASSUME FolderInv, NEW r \in Requests, NEW pc \in {"refused", "failed", "done"},
         Answers(r, pc), UNCHANGED <<folder, staged>>, req[r].file = None, req[r].op # "none",
         pc = "done" => req[r].op \notin Staging \cup {"chunks"}
  PROVE  FolderInv'
<1>1. Becomes(r, pc, req[r].saw, req[r].file, req[r].sent, req[r].temp)
  BY Turns DEF FolderInv, Types, Answers, Pcs
<1>2. Keeping(r)
  BY GivesBack DEF FolderInv, Answers
<1>3. Correct(r)
  BY DEF FolderInv
<1>4. InOrderly(r)'
  BY <1>1, <1>3 DEF Correct, InOrderly, Becomes, SameWork, At, Name, Written
<1>5. HasItAll(r)'
  BY <1>1 DEF HasItAll, Becomes, SameWork
<1>6. HoldsItsLock(r)' /\ HoldsItsClaims(r)' /\ FindsItFree(r)'
  BY <1>1 DEF HoldsItsLock, HoldsItsClaims, FindsItFree, Becomes, SameWork, At, Final
<1>7. Correct(r)'
  BY <1>4, <1>5, <1>6 DEF Correct
<1> QED BY <1>1, <1>2, <1>7, TurnKeeps DEF Answers, folder

LEMMA RefusalKeeps ==
  ASSUME FolderInv, NEW r \in Requests, Refuses(r), req[r].file = None, req[r].op # "none"
  PROVE  FolderInv'
BY AnswerKeeps DEF Refuses

(* Only the place of a request changes, and perhaps what it saw.            *)
LEMMA StayKeeps ==
  ASSUME FolderInv, NEW r \in Requests, Stays, NEW pc, NEW saw, NEW sent, NEW temp,
         Becomes(r, pc, saw, req[r].file, sent, temp), req[r].file = None, Correct(r)'
  PROVE  FolderInv'
<1>1. Keeping(r)
  BY DEF FolderInv, Types, Stays, Keeping
<1> QED BY <1>1, TurnKeeps DEF Stays, folder

LEMMA ComesKeeps ==
  ASSUME FolderInv, NEW r \in Requests, NEW j \in Work[r], Comes(r, j)
  PROVE  FolderInv'
<1> DEFINE locked == \E n \in Claims(j) : claims[n] # None
           x == [op |-> j.op, name |-> j.name, to |-> j.to, right |-> j.right,
                 pc |-> IF locked THEN "refused" ELSE "looks",
                 saw |-> FALSE, file |-> None, sent |-> 0, temp |-> <<>>]
<1>1. j.op \in Ops \ {"none"} /\ j.name \in Names /\ j.right \in BOOLEAN /\ j.to \in Names \cup {None}
      /\ (j.op \in Moving => j.to \in Names)
  BY WorkAssumption DEF Ops, Uploads, Moving, Deleting, Staging, InPlace
<1>2. x \in Request
  BY <1>1 DEF Request, Pcs
<1>3. req \in [Requests -> Request] /\ claims \in [Names -> Requests \cup {None}]
  BY DEF FolderInv, Types
<1>4. req' = [req EXCEPT ![r] = x]
  BY DEF Comes
<1>5. req'[r] = x /\ Others(r) /\ req' \in [Requests -> Request]
  BY <1>2, <1>3, <1>4 DEF Others
<1>6. claims' = [n \in Names |-> IF ~locked /\ n \in Claims(j) THEN r ELSE claims[n]]
  BY DEF Comes
<1>7. /\ claims' \in [Names -> Requests \cup {None}]
      /\ \A n \in Names, q \in Requests : q # r => (claims[n] = q => claims'[n] = q)
  BY <1>3, <1>6, WorkAssumption
<1>8. Keeping(r)
  BY <1>7 DEF Keeping, Comes, FolderInv, Types
<1>9. req[r].op = "none" /\ req[r].file = None
  BY DEF FolderInv, Correct, InOrderly, Comes, At, Written
<1>10. x.op = j.op /\ x.name = j.name /\ x.to = j.to /\ x.right = j.right /\ x.saw = FALSE /\ x.file = None
       /\ x.sent = 0 /\ x.pc = IF locked THEN "refused" ELSE "looks"
  OBVIOUS
<1> HIDE DEF x
<1>11. InOrderly(r)'
  BY <1>1, <1>5, <1>10 DEF InOrderly, At, Name, Written
<1>12. HasItAll(r)' /\ HoldsItsLock(r)' /\ FindsItFree(r)'
  BY <1>5, <1>10 DEF HasItAll, HoldsItsLock, FindsItFree, At
<1>13. HoldsItsClaims(r)'
  <2> SUFFICES ASSUME webdav, j.op \in Claiming, ~locked
               PROVE  claims'[j.name] = r /\ (j.op = "move" => claims'[j.to] = r)
    BY <1>5, <1>10 DEF HoldsItsClaims, At, Name, Final, Comes
  <2> QED BY <1>1, <1>6 DEF Claims, Moving
<1>14. Correct(r)'
  BY <1>11, <1>12, <1>13 DEF Correct
<1>15. staged' \in [Names -> Seq(Requests \X Nat) \cup {None}] /\ StagedInOrder'
  BY <1>5, <1>9, StagedStays DEF Comes
<1> QED BY <1>5, <1>8, <1>9, <1>10, <1>14, <1>15, LookingKeeps DEF Comes, folder

LEMMA LooksKeeps ==
  ASSUME FolderInv, NEW r \in Requests, Looks(r)
  PROVE  FolderInv'
<1>1. Types /\ Correct(r)
  BY DEF FolderInv
<1>2. At(r, "looks") /\ req[r].op \in InPlace \cup Staging /\ req[r].op # "none" /\ req[r].file = None
  BY <1>1 DEF Looks, At, InPlace, Staging, Correct, InOrderly, Written
<1>3. CASE Taken(r)
  BY <1>2, <1>3, RefusalKeeps DEF Looks
<1>4. CASE ~Taken(r)
  <2> DEFINE pc == IF req[r].op \in Staging THEN "receives" ELSE "opens"
             saw == Exists(Name(r))
  <2>1. req' = [req EXCEPT ![r].pc = pc, ![r].saw = saw] /\ Stays
    BY <1>4 DEF Looks
  <2>2. pc \in {"receives", "opens"} /\ pc \in Pcs /\ saw \in BOOLEAN /\ (pc = "receives" <=> req[r].op \in Staging)
    BY DEF Pcs, Exists
  <2>3. saw => req[r].right
    BY <1>4 DEF Taken
  <2> HIDE DEF pc, saw
  <2>4. Becomes(r, pc, saw, req[r].file, req[r].sent, req[r].temp)
    BY <1>1, <2>1, <2>2, Turns DEF Types
  <2>5. InOrderly(r)'
    BY <1>1, <1>2, <2>2, <2>3, <2>4 DEF Correct, InOrderly, Becomes, SameWork, At, Name, Written
  <2>6. HasItAll(r)' /\ HoldsItsLock(r)' /\ FindsItFree(r)'
    BY <2>2, <2>4 DEF HasItAll, HoldsItsLock, FindsItFree, At, Becomes
  <2>7. HoldsItsClaims(r)'
    BY <1>1, <1>2, <2>1, <2>2, <2>4 DEF Correct, HoldsItsClaims, Becomes, SameWork, Name, At, Final, Stays
  <2> QED BY <1>2, <2>1, <2>4, <2>5, <2>6, <2>7, StayKeeps DEF Correct
<1> QED BY <1>3, <1>4

(* What a request received by itself.                                       *)
LEMMA OwnIsASequence ==
  \A r \in Requests, k \in Nat :
    Own(r, k) \in Seq(Requests \X Nat) /\ Len(Own(r, k)) = k
BY DEF Own

LEMMA ReceivesKeeps ==
  ASSUME FolderInv, NEW r \in Requests, Receives(r)
  PROVE  FolderInv'
<1>1. Types /\ Correct(r)
  BY DEF FolderInv
<1>2. At(r, "receives") /\ req[r].op \in Staging /\ req[r].op # "none" /\ req[r].file = None
  BY <1>1 DEF Receives, At, Staging, Correct, InOrderly, Written
<1>3. CASE Answers(r, "failed") /\ UNCHANGED <<folder, staged>>
  BY <1>2, <1>3, AnswerKeeps
<1>4. CASE req' = [req EXCEPT ![r].pc = "staged", ![r].temp = Own(r, Pieces)] /\ Stays
  <2>1. Becomes(r, "staged", req[r].saw, req[r].file, req[r].sent, Own(r, Pieces))
    BY <1>1, <1>4, Turns, OwnIsASequence, WorkAssumption DEF Types, Pcs
  <2>2. InOrderly(r)'
    BY <1>1, <1>2, <2>1 DEF Correct, InOrderly, Becomes, SameWork, At, Name, Written
  <2>3. HasItAll(r)' /\ HoldsItsLock(r)' /\ FindsItFree(r)'
    BY <2>1 DEF HasItAll, HoldsItsLock, FindsItFree, At, Becomes, Own
  <2>4. HoldsItsClaims(r)'
    BY <1>1, <1>2, <1>4, <2>1 DEF Correct, HoldsItsClaims, Becomes, SameWork, Name, At, Final, Stays
  <2> QED BY <1>2, <1>4, <2>1, <2>2, <2>3, <2>4, StayKeeps DEF Correct
<1> QED BY <1>3, <1>4 DEF Receives, Own

(* An upload locks its name, and so holds the lock.                         *)
LEMMA LocksKeeps ==
  ASSUME FolderInv, NEW r \in Requests, StagedLocks(r) \/ ChunkLocks(r)
  PROVE  FolderInv'
<1> DEFINE pc == IF StagedLocks(r) THEN "checks" ELSE "chunk"
<1>1. Types /\ Correct(r)
  BY DEF FolderInv
<1>2. /\ Locks(r, pc) /\ pc \in {"checks", "chunk"} /\ pc \in Pcs
      /\ pc = "checks" => req[r].op \in Staging /\ At(r, "staged")
      /\ pc = "chunk" => req[r].op = "chunks" /\ At(r, "waits")
  BY DEF StagedLocks, ChunkLocks, Pcs
<1> HIDE DEF pc
<1>3. req[r].op # "none" /\ req[r].file = None /\ Name(r) \in Names
  BY <1>1, <1>2 DEF At, Staging, Correct, InOrderly, Written
<1>4. Becomes(r, pc, req[r].saw, req[r].file, req[r].sent, req[r].temp)
  BY <1>1, <1>2, Turns DEF Types, Locks
<1>5. locks' \in [Names -> Requests \cup {None}] /\ locks'[Name(r)] = r
      /\ \A n \in Names : locks[n] # None => locks'[n] = locks[n]
  BY <1>1, <1>2, <1>3 DEF Types, Locks, LockIsFree
<1>6. Keeping(r)
  BY <1>1, <1>2, <1>5, WorkAssumption DEF Keeping, Types, Locks
<1>7. InOrderly(r)'
  BY <1>1, <1>2, <1>3, <1>4 DEF Correct, InOrderly, Becomes, SameWork, At, Name, Written, Staging, InPlace
<1>8. HasItAll(r)'
  BY <1>1, <1>2, <1>4 DEF Correct, HasItAll, Becomes, SameWork, At, Staging
<1>9. HoldsItsLock(r)' /\ FindsItFree(r)'
  BY <1>2, <1>4, <1>5 DEF HoldsItsLock, FindsItFree, At, Becomes, SameWork, Name
<1>10. HoldsItsClaims(r)'
  BY <1>1, <1>2, <1>4 DEF Correct, HoldsItsClaims, Becomes, SameWork, Name, At, Final, Locks
<1> QED BY <1>2, <1>3, <1>4, <1>6, <1>7, <1>8, <1>9, <1>10, TurnKeeps DEF Correct, Locks, folder

LEMMA ChecksKeeps ==
  ASSUME FolderInv, NEW r \in Requests, Checks(r)
  PROVE  FolderInv'
<1>1. Types /\ Correct(r)
  BY DEF FolderInv
<1>2. At(r, "checks") /\ req[r].op \in Staging /\ req[r].op # "none" /\ req[r].file = None
  BY <1>1 DEF Checks, At, Staging, Correct, InOrderly, Written
<1>3. CASE Refused(r)
  BY <1>2, <1>3, RefusalKeeps DEF Checks
<1>4. CASE ~Refused(r)
  <2>1. Goes(r, "places") /\ Stays
    BY <1>4 DEF Checks
  <2>2. Becomes(r, "places", req[r].saw, req[r].file, req[r].sent, req[r].temp)
    BY <1>1, <2>1, Turns DEF Types, Pcs
  <2>3. InOrderly(r)'
    BY <1>1, <1>2, <2>2 DEF Correct, InOrderly, Becomes, SameWork, At, Name, Written
  <2>4. HasItAll(r)' /\ HoldsItsLock(r)'
    BY <1>1, <1>2, <2>1, <2>2 DEF Correct, HasItAll, HoldsItsLock, At, Becomes, SameWork, Name, Staging, Stays
  <2>5. FindsItFree(r)'
    <3> SUFFICES ASSUME ~req[r].right PROVE ~Exists(Name(r))'
      BY <2>2 DEF FindsItFree, Free, Becomes, SameWork, Name
    <3>1. ~Exists(Name(r))
      BY <1>1, <1>2, <1>4 DEF Refused, Correct, InOrderly
    <3> QED BY <2>1, <2>2, <3>1 DEF Exists, Name, Becomes, SameWork, Stays, folder
  <2>6. HoldsItsClaims(r)'
    BY <1>1, <1>2, <2>1, <2>2 DEF Correct, HoldsItsClaims, Becomes, SameWork, Name, At, Final, Stays, Staging
  <2> QED BY <1>2, <2>1, <2>2, <2>3, <2>4, <2>5, <2>6, StayKeeps DEF Correct
<1> QED BY <1>3, <1>4

LEMMA ChunkComesKeeps ==
  ASSUME FolderInv, NEW r \in Requests, ChunkComes(r)
  PROVE  FolderInv'
<1>1. Types /\ Correct(r)
  BY DEF FolderInv
<1>2. At(r, "looks") /\ req[r].op = "chunks" /\ req[r].op # "none" /\ req[r].file = None /\ Name(r) \in Names
  BY <1>1 DEF ChunkComes, At, Correct, InOrderly, Written
<1>3. CASE Taken(r)
  BY <1>2, <1>3, RefusalKeeps DEF ChunkComes
<1>4. CASE ~Taken(r)
  <2> DEFINE saw == Exists(Name(r))
  <2>1. /\ req' = [req EXCEPT ![r].pc = "waits", ![r].saw = saw] /\ claims[Name(r)] = None
        /\ claims' = (IF webdav THEN [claims EXCEPT ![Name(r)] = r] ELSE claims)
        /\ UNCHANGED <<folder, staged, locks, webdav>>
    BY <1>4 DEF ChunkComes
  <2>2. saw \in BOOLEAN /\ (saw => req[r].right)
    BY <1>4 DEF Taken, Exists
  <2> HIDE DEF saw
  <2>3. Becomes(r, "waits", saw, req[r].file, req[r].sent, req[r].temp)
    BY <1>1, <2>1, <2>2, Turns DEF Types, Pcs
  <2>4. claims' \in [Names -> Requests \cup {None}] /\ (webdav => claims'[Name(r)] = r)
        /\ \A n \in Names : claims[n] # None => claims'[n] = claims[n]
    BY <1>1, <1>2, <2>1 DEF Types
  <2>5. Keeping(r)
    BY <1>1, <2>1, <2>4, WorkAssumption DEF Keeping, Types
  <2>6. InOrderly(r)'
    BY <1>1, <1>2, <2>2, <2>3 DEF Correct, InOrderly, Becomes, SameWork, At, Name, Written, InPlace
  <2>7. HasItAll(r)' /\ HoldsItsLock(r)' /\ FindsItFree(r)'
    BY <2>3 DEF HasItAll, HoldsItsLock, FindsItFree, At, Becomes
  <2>8. HoldsItsClaims(r)'
    BY <1>2, <2>1, <2>3, <2>4 DEF HoldsItsClaims, Becomes, SameWork, Name, At, Claiming
  <2> QED BY <1>2, <2>1, <2>3, <2>5, <2>6, <2>7, <2>8, TurnKeeps DEF Correct, folder
<1> QED BY <1>3, <1>4

(* A chunk is answered, and the client comes again.                         *)
LEMMA ComesAgainKeeps ==
  ASSUME FolderInv, NEW r \in Requests, NEW sent \in Nat, req[r].op = "chunks", req[r].file = None,
         \/ req' = [req EXCEPT ![r].pc = "looks", ![r].sent = sent] \/ Goes(r, "looks"),
         LetsGo(r), UNCHANGED <<folder, staged, webdav>>
  PROVE  FolderInv'
<1>1. Types /\ Correct(r)
  BY DEF FolderInv
<1>2. PICK k : Becomes(r, "looks", req[r].saw, req[r].file, k, req[r].temp)
  BY <1>1, Turns DEF Types, Pcs
<1>3. InOrderly(r)'
  BY <1>1, <1>2 DEF Correct, InOrderly, Becomes, SameWork, At, Name, Written, InPlace, Moving
<1>4. HasItAll(r)' /\ HoldsItsLock(r)' /\ FindsItFree(r)' /\ HoldsItsClaims(r)'
  BY <1>2 DEF HasItAll, HoldsItsLock, FindsItFree, HoldsItsClaims, At, Becomes, SameWork, Claiming, Staging
<1> QED BY <1>1, <1>2, <1>3, <1>4, GivesBack, TurnKeeps DEF Correct, folder

LEMMA AppliedKeeps ==
  ASSUME FolderInv, NEW r \in Requests, Applied(r)
  PROVE  FolderInv'
<1> DEFINE n == Name(r)
<1>1. Types /\ Correct(r)
  BY DEF FolderInv
<1>2. At(r, "applied") /\ req[r].op = "chunks" /\ req[r].op # "none" /\ req[r].file = None /\ n \in Names
      /\ req[r].sent + 1 \in Nat
  BY <1>1, TypesOf DEF Applied, At, Correct, InOrderly, Written
<1>3. CASE Acknowledges(r, req[r].sent + 1) /\ UNCHANGED <<folder, staged, webdav>>
  BY <1>2, <1>3, ComesAgainKeeps DEF Acknowledges
<1>4. CASE Refuses(r)
  BY <1>2, <1>4, RefusalKeeps
<1>5. CASE req' = [req EXCEPT ![r].pc = "places", ![r].temp = staged[n]] /\ Stays
           /\ Have(n) = Pieces /\ ~TakenSince(r) /\ ~(req[r].sent + 1 < Pieces)
  <2>1. staged[n] # None /\ staged[n] \in Seq(Requests \X Nat) /\ Len(staged[n]) = Pieces
    BY <1>1, <1>2, <1>5, WorkAssumption DEF Have, Types
  <2>2. Becomes(r, "places", req[r].saw, req[r].file, req[r].sent, staged[n])
    BY <1>1, <1>5, <2>1, Turns DEF Types, Pcs
  <2>3. InOrderly(r)'
    BY <1>1, <1>2, <2>2 DEF Correct, InOrderly, Becomes, SameWork, At, Name, Written, InPlace, Moving
  <2>4. HasItAll(r)'
    <3>1. AllOf(staged[n], n)
      BY <1>2, <2>1 DEF FolderInv, StagedInOrder, InStep, AllOf
    <3>2. \A m \in Names : Chunked(m) \subseteq Chunked(m)'
      BY <2>2, ChunkedGrows DEF Becomes
    <3> QED BY <1>2, <2>2, <3>1, <3>2 DEF HasItAll, AllOf, Becomes, SameWork, Name, Staging, Chunked
  <2>5. HoldsItsLock(r)'
    BY <1>1, <1>2, <1>5, <2>2 DEF Correct, HoldsItsLock, At, Becomes, SameWork, Name, Stays
  <2>6. FindsItFree(r)'
    <3> SUFFICES ASSUME ~req[r].right PROVE ~Exists(Name(r))'
      BY <2>2 DEF FindsItFree, Free, Becomes, SameWork, Name
    <3>1. ~Exists(Name(r))
      BY <1>1, <1>5 DEF TakenSince, Correct, InOrderly
    <3> QED BY <1>5, <2>2, <3>1 DEF Exists, Name, Becomes, SameWork, Stays, folder
  <2>7. HoldsItsClaims(r)'
    BY <1>1, <1>2, <1>5, <2>2 DEF Correct, HoldsItsClaims, Becomes, SameWork, Name, At, Final, Stays, Claiming
  <2> QED BY <1>2, <1>5, <2>2, <2>3, <2>4, <2>5, <2>6, <2>7, StayKeeps DEF Correct
<1> QED BY <1>3, <1>4, <1>5 DEF Applied

LEMMA LooksAtNamesKeeps ==
  ASSUME FolderInv, NEW r \in Requests, MoveLooks(r) \/ DeleteLooks(r)
  PROVE  FolderInv'
<1> DEFINE pc == IF MoveLooks(r) THEN "renames" ELSE "removes"
<1>1. Types /\ Correct(r)
  BY DEF FolderInv
<1>2. At(r, "looks") /\ req[r].op \in Moving \cup Deleting /\ req[r].op # "none" /\ req[r].file = None
  BY <1>1 DEF MoveLooks, DeleteLooks, At, Moving, Deleting, Correct, InOrderly, Written
<1>3. CASE Refuses(r)
  BY <1>2, <1>3, RefusalKeeps
<1>4. CASE ~Refuses(r)
  <2>1. /\ Goes(r, pc) /\ Stays /\ pc \in Pcs
        /\ \/ pc = "renames" /\ req[r].op \in Moving
           \/ pc = "removes" /\ req[r].op \in Deleting
    BY <1>4 DEF MoveLooks, DeleteLooks, Pcs
  <2> HIDE DEF pc
  <2>2. Becomes(r, pc, req[r].saw, req[r].file, req[r].sent, req[r].temp)
    BY <1>1, <2>1, Turns DEF Types
  <2>3. InOrderly(r)'
    BY <1>1, <1>2, <2>1, <2>2 DEF Correct, InOrderly, Becomes, SameWork, At, Name, Written
  <2>4. HasItAll(r)' /\ HoldsItsLock(r)' /\ FindsItFree(r)'
    BY <2>1, <2>2 DEF HasItAll, HoldsItsLock, FindsItFree, At, Becomes
  <2>5. HoldsItsClaims(r)'
    BY <1>1, <1>2, <2>1, <2>2 DEF Correct, HoldsItsClaims, Becomes, SameWork, Name, At, Final, Stays
  <2> QED BY <1>2, <2>1, <2>2, <2>3, <2>4, <2>5, StayKeeps DEF Correct
<1> QED BY <1>3, <1>4

(* A chunk goes behind the ones before it, the first in their place.        *)
LEMMA AppliesKeeps ==
  ASSUME FolderInv, NEW r \in Requests, Applies(r)
  PROVE  FolderInv'
<1> DEFINE n == Name(r)
           k == req[r].sent + 1
           kept == KeptBefore(n, k)
<1>1. Types /\ Correct(r)
  BY DEF FolderInv
<1>2. At(r, "chunk") /\ req[r].op = "chunks" /\ req[r].op # "none" /\ req[r].file = None /\ n \in Names
      /\ req[r].sent \in Nat /\ k \in Nat
  BY <1>1, TypesOf DEF Applies, At, Correct, InOrderly, Written
<1>3. CASE Refuses(r)
  BY <1>2, <1>3, RefusalKeeps
<1>4. CASE OutOfSync(r)
  <2>1. Have(n) \in Nat
    BY <1>1, <1>2 DEF Have, Types
  <2> QED BY <1>2, <1>4, <2>1, ComesAgainKeeps DEF OutOfSync
<1>5. CASE Goes(r, "applied") /\ Stays
  <2>1. Becomes(r, "applied", req[r].saw, req[r].file, req[r].sent, req[r].temp)
    BY <1>1, <1>5, Turns DEF Types, Pcs
  <2>2. InOrderly(r)'
    BY <1>1, <1>2, <2>1 DEF Correct, InOrderly, Becomes, SameWork, At, Name, Written, InPlace, Moving
  <2>3. HasItAll(r)' /\ HoldsItsLock(r)' /\ FindsItFree(r)'
    BY <1>1, <1>2, <1>5, <2>1
    DEF HasItAll, Correct, HoldsItsLock, FindsItFree, At, Becomes, SameWork, Name, Stays
  <2>4. HoldsItsClaims(r)'
    BY <1>1, <1>2, <1>5, <2>1 DEF Correct, HoldsItsClaims, Becomes, SameWork, Name, At, Final, Stays, Claiming
  <2> QED BY <1>2, <1>5, <2>1, <2>2, <2>3, <2>4, StayKeeps DEF Correct
<1>6. ASSUME Fits(n, k)
      PROVE  kept \in Seq(Requests \X Nat) /\ InStep(kept, n) /\ Len(kept) = k - 1
  <2>1. CASE k = 1
    BY <2>1 DEF KeptBefore, InStep
  <2>2. CASE k # 1
    <3>1. staged[n] # None /\ Len(staged[n]) = k - 1 /\ staged[n] \in Seq(Requests \X Nat)
      BY <1>1, <1>2, <1>6, <2>2 DEF Fits, Have, Types
    <3> QED BY <1>2, <2>2, <3>1 DEF KeptBefore, FolderInv, StagedInOrder
  <2> QED BY <2>1, <2>2
<1>7. ASSUME Fits(n, k), NEW s \in {kept, kept \o <<<<r, k>>>>}, staged' = [staged EXCEPT ![n] = s],
             Others(r), SameWork(r)
      PROVE  staged' \in [Names -> Seq(Requests \X Nat) \cup {None}] /\ StagedInOrder'
  <2> HIDE DEF k, kept
  <2>1. kept \in Seq(Requests \X Nat) /\ InStep(kept, n) /\ Len(kept) = k - 1
    BY <1>6, <1>7
  <2>2. r \in Chunked(n)
    BY <1>2 DEF Chunked, Name
  <2>3. s \in Seq(Requests \X Nat)
    <3>1. <<<<r, k>>>> \in Seq(Requests \X Nat)
      BY <1>2
    <3>2. kept \o <<<<r, k>>>> \in Seq(Requests \X Nat)
      BY <2>1, <3>1
    <3> QED BY <1>7, <2>1, <3>2
  <2>4. InStep(s, n)
    <3>1. CASE s = kept
      BY <2>1, <3>1
    <3>2. CASE s = kept \o <<<<r, k>>>>
      <4>1. Len(s) = k
        BY <1>2, <2>1, <3>2
      <4>2. ASSUME NEW j \in 1 .. Len(s) PROVE s[j][2] = j /\ s[j][1] \in Chunked(n)
        <5>1. CASE j = k
          BY <1>2, <2>1, <2>2, <3>2, <5>1
        <5>2. CASE j # k
          <6>1. j \in 1 .. Len(kept) /\ s[j] = kept[j]
            BY <1>2, <2>1, <3>2, <4>1, <5>2
          <6> QED BY <2>1, <6>1 DEF InStep
        <5> QED BY <5>1, <5>2
      <4> QED BY <4>2 DEF InStep
    <3> QED BY <1>7, <3>1, <3>2
  <2>5. staged' \in [Names -> Seq(Requests \X Nat) \cup {None}]
    BY <1>1, <1>7, <2>3 DEF Types
  <2>6. ASSUME NEW m \in Names, staged'[m] # None PROVE InStep(staged'[m], m)
    <3>1. CASE m = n
      BY <1>1, <1>2, <1>7, <2>4, <3>1 DEF Types
    <3>2. CASE m # n
      BY <1>1, <1>7, <2>6, <3>2 DEF Types, FolderInv, StagedInOrder
    <3> QED BY <3>1, <3>2
  <2>7. \A m \in Names : Chunked(m) \subseteq Chunked(m)'
    BY <1>7, ChunkedGrows
  <2>8. StagedInOrder'
    BY <2>6, <2>7 DEF StagedInOrder, InStep
  <2> QED BY <2>5, <2>8
<1>8. CASE /\ Fits(n, k)
           /\ staged' = [staged EXCEPT ![n] = kept \o <<<<r, k>>>>]
           /\ Goes(r, "applied")
           /\ UNCHANGED <<folder, locks, claims, webdav, lost>>
  <2>1. Becomes(r, "applied", req[r].saw, req[r].file, req[r].sent, req[r].temp)
    BY <1>1, <1>8, Turns DEF Types, Pcs
  <2>2. InOrderly(r)'
    BY <1>1, <1>2, <2>1 DEF Correct, InOrderly, Becomes, SameWork, At, Name, Written, InPlace, Moving
  <2>3. HasItAll(r)' /\ HoldsItsLock(r)' /\ FindsItFree(r)'
    BY <1>1, <1>2, <1>8, <2>1
    DEF HasItAll, Correct, HoldsItsLock, FindsItFree, At, Becomes, SameWork, Name
  <2>4. HoldsItsClaims(r)'
    BY <1>1, <1>2, <1>8, <2>1 DEF Correct, HoldsItsClaims, Becomes, SameWork, Name, At, Final, Claiming
  <2>5. staged' \in [Names -> Seq(Requests \X Nat) \cup {None}] /\ StagedInOrder'
    BY <1>7, <1>8, <2>1 DEF Becomes
  <2>6. Keeping(r)
    BY <1>1, <1>8 DEF Keeping, Types
  <2> QED BY <1>2, <1>8, <2>1, <2>2, <2>3, <2>4, <2>5, <2>6, LookingKeeps DEF Correct, Becomes, folder
<1>9. CASE /\ Fits(n, k)
           /\ staged' = [staged EXCEPT ![n] = kept]
           /\ Goes(r, "looks") /\ LetsGo(r)
           /\ UNCHANGED <<folder, webdav, lost>>
  <2>1. Becomes(r, "looks", req[r].saw, req[r].file, req[r].sent, req[r].temp)
    BY <1>1, <1>9, Turns DEF Types, Pcs
  <2>2. InOrderly(r)'
    BY <1>1, <1>2, <2>1 DEF Correct, InOrderly, Becomes, SameWork, At, Name, Written, InPlace, Moving
  <2>3. HasItAll(r)' /\ HoldsItsLock(r)' /\ FindsItFree(r)' /\ HoldsItsClaims(r)'
    BY <1>2, <2>1 DEF HasItAll, HoldsItsLock, FindsItFree, HoldsItsClaims, At, Becomes, SameWork, Claiming
  <2>4. staged' \in [Names -> Seq(Requests \X Nat) \cup {None}] /\ StagedInOrder'
    BY <1>7, <1>9, <2>1 DEF Becomes
  <2> QED BY <1>1, <1>2, <1>9, <2>1, <2>2, <2>3, <2>4, GivesBack, LookingKeeps DEF Correct, Becomes, folder
<1> HIDE DEF n, k, kept
<1>10. \/ Refuses(r) \/ OutOfSync(r) \/ (Goes(r, "applied") /\ Stays)
       \/ /\ Fits(n, k)
          /\ \/ /\ staged' = [staged EXCEPT ![n] = kept \o <<<<r, k>>>>]
                /\ Goes(r, "applied")
                /\ UNCHANGED <<folder, locks, claims, webdav, lost>>
             \/ /\ staged' = [staged EXCEPT ![n] = kept]
                /\ Goes(r, "looks") /\ LetsGo(r)
                /\ UNCHANGED <<folder, webdav, lost>>
  BY DEF Applies, n, k, kept
<1> QED BY <1>3, <1>4, <1>5, <1>8, <1>9, <1>10

(* Files of other requests stay as they are said to be.                     *)
LEMMA OthersHold ==
  ASSUME FolderInv, NEW r \in Requests, Others(r), NEW i \in Requests, i # r,
         \/ data'[i] = data[i] /\ Opened(i)' = Opened(i)
         \/ r \in Opened(i)',
         Made(i)'
  PROVE  Holds(i)'
<1>1. req'[i] = req[i] /\ Made(i)
  BY DEF Others, Made, At
<1>2. Holds(i)
  BY <1>1 DEF FolderInv, Contents
<1>3. CASE data'[i] = data[i] /\ Opened(i)' = Opened(i)
  BY <1>1, <1>2, <1>3 DEF Holds, At
<1>4. CASE r \in Opened(i)'
  BY <1>4 DEF Holds
<1> QED BY <1>3, <1>4

(* No file is none, and none that was there before is that of a request.    *)
LEMMA InodesAreNotNone == None \notin Inodes /\ Names \cap Requests = {} /\ None \notin Requests
BY WorkAssumption DEF Inodes

LEMMA FreeStays ==
  ASSUME Types, NEW r \in Requests, Others(r), SameWork(r),
         req[r].op \notin Moving \/ req[r].file = None,
         NEW n \in Names, names'[n] = names[n], Free(n)
  PROVE  Free(n)'
<1>1. CASE ~Exists(n) \/ names[n] \in Names
  BY <1>1 DEF Free, Exists
<1>2. CASE Exists(n) /\ names[n] \in Requests /\ req[names[n]].op \in InPlace
  <2>1. req'[names[n]].op = req[names[n]].op
    BY <1>2 DEF Others, SameWork
  <2> QED BY <1>2, <2>1 DEF Free
<1>3. CASE Exists(n) /\ MovedTo(names[n], n)
  <2>1. PICK m \in Requests : req[m].op \in Moving /\ req[m].to = n /\ req[m].file = names[n]
    BY <1>3 DEF MovedTo
  <2>2. m # r
    BY <1>3, <2>1 DEF Exists
  <2>3. req'[m] = req[m]
    BY <2>2 DEF Others
  <2>4. MovedTo(names[n], n)'
    BY <2>1, <2>3 DEF MovedTo
  <2> QED BY <2>4 DEF Free
<1>4. Exists(n) => names[n] \in Inodes
  BY DEF Types, Exists
<1> QED BY <1>1, <1>2, <1>3, <1>4 DEF Free, Inodes

(* A file that is there is opened, and perhaps emptied.                     *)
LEMMA OpensKeeps ==
  ASSUME FolderInv, NEW r \in Requests, NEW truncates \in BOOLEAN, Opens(r, truncates),
         At(r, "opens"), Exists(Name(r)), UNCHANGED <<staged, locks, claims, webdav>>
  PROVE  FolderInv'
<1> DEFINE i == names[Name(r)]
<1>1. Types /\ Correct(r)
  BY DEF FolderInv
<1>2. req[r].op \in InPlace /\ req[r].op # "none" /\ req[r].file = None /\ Name(r) \in Names
  BY <1>1 DEF At, InPlace, Correct, InOrderly, Written
<1>3. i \in Inodes /\ i # None
  BY <1>1, <1>2 DEF Types, Exists
<1>4. i # r
  BY <1>2, InodesAreNotNone DEF FolderInv, NamedAreMade, Made
<1>5. names' = names /\ data' = [j \in Inodes |-> data'[j]] /\ \A j \in Inodes : j # i => data'[j] = data[j]
  BY <1>1, <1>3 DEF Opens, Types
<1>6. Becomes(r, "writes", req[r].saw, i, req[r].sent, req[r].temp)
  BY <1>1, <1>3, Turns DEF Opens, Types, Pcs
<1> HIDE DEF i
<1>7. Keeping(r)
  BY <1>1 DEF Keeping, Types
<1>8. Types'
  BY <1>1, <1>5, <1>6 DEF Types, Becomes
<1>9. InOrderly(r)'
  BY <1>1, <1>2, <1>3, <1>6 DEF Correct, InOrderly, Becomes, SameWork, At, Name, Written
<1>10. HasItAll(r)' /\ HoldsItsLock(r)' /\ FindsItFree(r)'
  BY <1>2, <1>6 DEF HasItAll, HoldsItsLock, FindsItFree, At, Becomes, SameWork, InPlace
<1>11. HoldsItsClaims(r)'
  BY <1>1, <1>2, <1>6 DEF Correct, HoldsItsClaims, Becomes, SameWork, Name, At, Final
<1>12. \A n \in Names : Free(n) => Free(n)'
  BY <1>1, <1>2, <1>5, <1>6, FreeStays DEF Becomes
<1>13. \A q \in Requests : Correct(q)'
  BY <1>6, <1>7, <1>9, <1>10, <1>11, <1>12, OthersStay DEF Becomes, Correct
<1>14. NamedAreMade'
  BY <1>2, <1>5, <1>6, InodesAreNotNone DEF FolderInv, NamedAreMade, Made, Becomes, Others, At
<1>15. Contents'
  <2> SUFFICES ASSUME NEW q \in Requests, Made(q)' PROVE Holds(q)'
    BY DEF Contents
  <2>1. q # r
    BY <1>4, <1>6 DEF Made, Becomes
  <2>2. CASE q = i
    BY <1>2, <1>6, <2>1, <2>2, OthersHold DEF Opened, Becomes, SameWork
  <2>3. CASE q # i
    <3>1. Opened(q)' = Opened(q)
      BY <1>2, <1>6, <2>3, InodesAreNotNone DEF Opened, Becomes, Others, SameWork
    <3> QED BY <1>5, <1>6, <2>1, <2>3, <3>1, OthersHold DEF Becomes, Inodes
  <2> QED BY <2>2, <2>3
<1>16. StagedInOrder'
  BY <1>6, StagedStays DEF Becomes
<1> QED BY <1>8, <1>13, <1>14, <1>15, <1>16 DEF FolderInv

LEMMA CreatesKeeps ==
  ASSUME FolderInv, NEW r \in Requests, Creates(r), At(r, "opens"), UNCHANGED <<staged, locks, claims, webdav>>
  PROVE  FolderInv'
<1>1. Types /\ Correct(r)
  BY DEF FolderInv
<1>2. req[r].op \in InPlace /\ req[r].op # "none" /\ req[r].file = None /\ Name(r) \in Names /\ req[r].sent = 0
      /\ req[r].op \in Uploads
  BY <1>1 DEF At, InPlace, Correct, InOrderly, Written, Uploads
<1>3. r \in Inodes
  BY DEF Inodes
<1>4. /\ names' = [names EXCEPT ![Name(r)] = r] /\ data' = [data EXCEPT ![r] = <<>>]
      /\ data' = [j \in Inodes |-> data'[j]] /\ data'[r] = <<>> /\ \A j \in Inodes : j # r => data'[j] = data[j]
  BY <1>1, <1>3 DEF Creates, Links, Types
<1>5. names' \in [Names -> Inodes \cup {None}] /\ names'[Name(r)] = r
      /\ \A n \in Names : n # Name(r) => names'[n] = names[n]
  BY <1>1, <1>2, <1>3, <1>4 DEF Types
<1>6. Becomes(r, "writes", req[r].saw, r, req[r].sent, req[r].temp)
  BY <1>1, <1>3, Turns DEF Creates, Types, Pcs
<1>7. Keeping(r)
  BY <1>1 DEF Keeping, Types
<1>8. Types'
  BY <1>1, <1>4, <1>5, <1>6 DEF Types, Becomes
<1>9. InOrderly(r)'
  BY <1>1, <1>2, <1>6, InodesAreNotNone DEF Correct, InOrderly, Becomes, SameWork, At, Name, Written
<1>10. HasItAll(r)' /\ HoldsItsLock(r)' /\ FindsItFree(r)'
  BY <1>2, <1>6 DEF HasItAll, HoldsItsLock, FindsItFree, At, Becomes, SameWork, InPlace
<1>11. HoldsItsClaims(r)'
  BY <1>1, <1>2, <1>6 DEF Correct, HoldsItsClaims, Becomes, SameWork, Name, At, Final
<1>12. ASSUME NEW n \in Names, Free(n) PROVE Free(n)'
  <2>1. CASE n = Name(r)
    BY <1>2, <1>5, <1>6, <2>1 DEF Free, Becomes, SameWork
  <2>2. CASE n # Name(r)
    BY <1>1, <1>2, <1>5, <1>6, <1>12, <2>2, FreeStays DEF Becomes
  <2> QED BY <2>1, <2>2
<1>13. \A q \in Requests : Correct(q)'
  BY <1>6, <1>7, <1>9, <1>10, <1>11, <1>12, OthersStay DEF Becomes, Correct
<1>14. Made(r)'
  BY <1>2, <1>6 DEF Made, Becomes, SameWork, Written
<1>15. NamedAreMade'
  BY <1>2, <1>5, <1>6, <1>14, InodesAreNotNone DEF FolderInv, NamedAreMade, Made, Becomes, Others, At
<1>16. Contents'
  <2> SUFFICES ASSUME NEW q \in Requests, Made(q)' PROVE Holds(q)'
    BY DEF Contents
  <2>1. CASE q = r
    <3>1. Own(r, 0) = <<>>
      BY DEF Own
    <3> QED BY <1>2, <1>4, <1>6, <2>1, <3>1 DEF Holds, Becomes, SameWork, At
  <2>2. CASE q # r
    <3>1. Opened(q)' = Opened(q)
      BY <1>2, <1>6, <2>2, InodesAreNotNone DEF Opened, Becomes, Others, SameWork
    <3> QED BY <1>4, <1>6, <2>2, <3>1, OthersHold DEF Becomes, Inodes
  <2> QED BY <2>1, <2>2
<1>17. StagedInOrder'
  BY <1>6, StagedStays DEF Becomes
<1> QED BY <1>8, <1>13, <1>15, <1>16, <1>17 DEF FolderInv

LEMMA OpeningKeeps ==
  ASSUME FolderInv, NEW r \in Requests, PutOpens(r) \/ StorOpens(r) \/ SftpOpens(r)
  PROVE  FolderInv'
<1>1. At(r, "opens") /\ req[r].op # "none" /\ req[r].file = None
  BY DEF PutOpens, StorOpens, SftpOpens, FolderInv, Correct, InOrderly, At, Written
<1>2. CASE Refuses(r)
  BY <1>1, <1>2, RefusalKeeps
<1>3. CASE ~Refuses(r)
  <2>1. /\ UNCHANGED <<staged, locks, claims, webdav>>
        /\ Creates(r) \/ (Exists(Name(r)) /\ \E truncates \in BOOLEAN : Opens(r, truncates))
    BY <1>3 DEF PutOpens, StorOpens, SftpOpens
  <2> QED BY <1>1, <2>1, OpensKeeps, CreatesKeeps
<1> QED BY <1>2, <1>3

LEMMA PutBehind ==
  ASSUME NEW r \in Requests, NEW k \in Nat \ {0}
  PROVE  Put(Own(r, k - 1), k, <<r, k>>) = Own(r, k)
<1>1. Len(Own(r, k - 1)) = k - 1
  BY OwnIsASequence
<1>2. Put(Own(r, k - 1), k, <<r, k>>)
        = [j \in 1 .. k |-> IF j = k THEN <<r, k>> ELSE IF j <= k - 1 THEN Own(r, k - 1)[j] ELSE Hole]
  BY <1>1 DEF Put
<1>3. \A j \in 1 .. k : j # k => j <= k - 1 /\ Own(r, k - 1)[j] = <<r, j>>
  BY DEF Own
<1>4. Put(Own(r, k - 1), k, <<r, k>>) = [j \in 1 .. k |-> <<r, j>>]
  BY <1>2, <1>3
<1> QED BY <1>4 DEF Own

(* A piece is written, into the own file or one that was there.             *)
LEMMA WritesKeeps ==
  ASSUME FolderInv, NEW r \in Requests, Writes(r)
  PROVE  FolderInv'
<1> DEFINE i == req[r].file
           k == req[r].sent + 1
           at == IF req[r].op = "appe" THEN Len(data[i]) + 1 ELSE k
<1>1. Types /\ Correct(r)
  BY DEF FolderInv
<1>2. At(r, "writes") /\ req[r].op \in InPlace /\ req[r].op # "none" /\ Name(r) \in Names
      /\ i \in Inodes /\ k \in Nat \ {0} /\ k - 1 = req[r].sent
  BY <1>1, TypesOf DEF Writes, At, InPlace, Correct, InOrderly, Written
<1>3. data' = [data EXCEPT ![i] = Put(data[i], at, <<r, k>>)] /\ req' = [req EXCEPT ![r].sent = k]
      /\ UNCHANGED <<names, staged, locks, claims, webdav>>
  BY DEF Writes
<1>4. data' = [j \in Inodes |-> data'[j]] /\ data'[i] = Put(data[i], at, <<r, k>>)
      /\ \A j \in Inodes : j # i => data'[j] = data[j]
  BY <1>1, <1>2, <1>3 DEF Types
<1>5. Becomes(r, "writes", req[r].saw, i, k, req[r].temp)
  <2>1. req[r] \in Request
    BY <1>1 DEF Types
  <2>2. req' = [req EXCEPT ![r] = [req[r] EXCEPT !.pc = "writes", !.saw = req[r].saw, !.file = i,
                                     !.sent = k, !.temp = req[r].temp]]
    BY <1>1, <1>2, <1>3, <2>1 DEF Types, Request, At
  <2> QED BY <1>1, <1>2, <2>2, TypesOf, BecomesThat DEF Types, Pcs
<1>6. at = k \/ req[r].op = "appe"
  OBVIOUS
<1> HIDE DEF i, k, at
<1>7. Keeping(r)
  BY <1>1, <1>3 DEF Keeping, Types
<1>8. Types'
  BY <1>1, <1>3, <1>4, <1>5 DEF Types, Becomes
<1>9. InOrderly(r)'
  BY <1>1, <1>2, <1>5 DEF Correct, InOrderly, Becomes, SameWork, At, Name, Written, i
<1>10. HasItAll(r)' /\ HoldsItsLock(r)' /\ FindsItFree(r)'
  BY <1>2, <1>5 DEF HasItAll, HoldsItsLock, FindsItFree, At, Becomes, SameWork, InPlace
<1>11. HoldsItsClaims(r)'
  BY <1>1, <1>2, <1>3, <1>5 DEF Correct, HoldsItsClaims, Becomes, SameWork, Name, At, Final
<1>12. \A n \in Names : Free(n) => Free(n)'
  BY <1>1, <1>2, <1>3, <1>5, FreeStays DEF Becomes, InPlace, Moving
<1>13. \A q \in Requests : Correct(q)'
  BY <1>3, <1>5, <1>7, <1>9, <1>10, <1>11, <1>12, OthersStay DEF Becomes, Correct
<1>14. \A q \in Requests : Made(q)' <=> Made(q)
  BY <1>2, <1>5 DEF Made, Becomes, Others, SameWork, At, i
<1>15. NamedAreMade'
  BY <1>3, <1>14 DEF FolderInv, NamedAreMade
<1>16. \A q \in Inodes : Opened(q)' = Opened(q)
  BY <1>5 DEF Opened, Becomes, Others, SameWork, i
<1>17. r \in Opened(i)
  BY <1>2 DEF Opened, i
<1>18. Contents'
  <2> SUFFICES ASSUME NEW q \in Requests, Made(q)' PROVE Holds(q)'
    BY DEF Contents
  <2>1. CASE q # r /\ q # i
    BY <1>4, <1>5, <1>16, <2>1, OthersHold DEF Becomes, Inodes
  <2>2. CASE q # r /\ q = i
    BY <1>5, <1>16, <1>17, <2>2, OthersHold DEF Becomes, Inodes
  <2>3. CASE q = r
    <3> SUFFICES ASSUME req[r].op \in InPlace \ {"appe"}, Opened(r) = {r} PROVE data'[r] = Own(r, k)
      BY <1>2, <1>5, <1>16, <2>3 DEF Holds, Becomes, SameWork, At, Inodes
    <3>1. Made(r) /\ i = r /\ Holds(r)
      BY <1>14, <2>3 DEF Made, FolderInv, Contents, i
    <3>2. data[r] = Own(r, k - 1)
      BY <1>2, <3>1 DEF Holds
    <3>3. at = k
      BY <1>6
    <3> QED BY <1>2, <1>4, <3>1, <3>2, <3>3, PutBehind
  <2> QED BY <2>1, <2>2, <2>3
<1>19. StagedInOrder'
  BY <1>3, <1>5, StagedStays DEF Becomes
<1> QED BY <1>8, <1>13, <1>15, <1>18, <1>19 DEF FolderInv

(* It ends, or breaks off, and the page removes what it had.                *)
LEMMA StopsWriting ==
  ASSUME FolderInv, NEW r \in Requests, Ends(r) \/ Breaks(r)
  PROVE  FolderInv'
<1> DEFINE pc == IF Ends(r) THEN "done" ELSE "failed"
<1>1. Types /\ Correct(r)
  BY DEF FolderInv
<1>2. At(r, "writes") /\ req[r].op \in InPlace /\ req[r].op # "none" /\ Name(r) \in Names
  BY <1>1 DEF Ends, Breaks, At, InPlace, Correct, InOrderly
<1>3. Answers(r, pc) /\ UNCHANGED <<data, staged>> /\ pc \in {"done", "failed"} /\ pc \in Pcs
      /\ (pc = "done" => req[r].sent = Pieces)
  BY DEF Ends, Breaks, folder, Pcs
<1>4. names' \in [Names -> Inodes \cup {None}] /\ \A n \in Names : names'[n] \in {names[n], None}
  BY <1>1 DEF Ends, Breaks, folder, Types
<1> HIDE DEF pc
<1>5. Becomes(r, pc, req[r].saw, req[r].file, req[r].sent, req[r].temp)
  BY <1>1, <1>3, Turns DEF Answers, Types
<1>6. Keeping(r) /\ webdav' = webdav
  BY <1>1, <1>3, GivesBack DEF Answers
<1>7. Types'
  BY <1>1, <1>3, <1>4, <1>5, <1>6 DEF Types, Becomes, Keeping
<1>8. InOrderly(r)'
  BY <1>1, <1>2, <1>3, <1>5 DEF Correct, InOrderly, Becomes, SameWork, At, Name, Written
<1>9. HasItAll(r)' /\ HoldsItsLock(r)' /\ FindsItFree(r)'
  BY <1>2, <1>3, <1>5 DEF HasItAll, HoldsItsLock, FindsItFree, At, Becomes, SameWork, InPlace, Staging
<1>10. HoldsItsClaims(r)'
  BY <1>3, <1>5 DEF HoldsItsClaims, Becomes, SameWork, At, Final
<1>11. ASSUME NEW n \in Names, Free(n) PROVE Free(n)'
  <2>1. CASE names'[n] = names[n]
    BY <1>1, <1>2, <1>5, <1>11, <2>1, FreeStays DEF Becomes, InPlace, Moving
  <2>2. CASE names'[n] = None
    BY <2>2 DEF Free, Exists
  <2> QED BY <1>4, <2>1, <2>2
<1>12. \A q \in Requests : Correct(q)'
  BY <1>5, <1>6, <1>8, <1>9, <1>10, <1>11, OthersStay DEF Becomes, Correct
<1>13. \A q \in Requests : Made(q)' <=> Made(q)
  BY <1>2, <1>3, <1>5 DEF Made, Becomes, Others, SameWork, At, Written
<1>14. NamedAreMade'
  BY <1>4, <1>13, InodesAreNotNone DEF FolderInv, NamedAreMade
<1>15. \A q \in Inodes : Opened(q)' = Opened(q)
  BY <1>5 DEF Opened, Becomes, Others, SameWork
<1>16. Contents'
  <2> SUFFICES ASSUME NEW q \in Requests, Made(q)' PROVE Holds(q)'
    BY DEF Contents
  <2>1. CASE q # r
    BY <1>3, <1>5, <1>15, <2>1, OthersHold DEF Becomes, Inodes
  <2>2. CASE q = r
    <3>1. Holds(r)
      BY <1>13, <2>2 DEF FolderInv, Contents
    <3> QED BY <1>2, <1>3, <1>5, <1>15, <2>2, <3>1 DEF Holds, Becomes, SameWork, At, Inodes
  <2> QED BY <2>1, <2>2
<1>17. StagedInOrder'
  BY <1>3, <1>5, StagedStays DEF Becomes
<1> QED BY <1>7, <1>12, <1>14, <1>16, <1>17 DEF FolderInv

(* What was staged takes its place.                                         *)
LEMMA PlacesKeeps ==
  ASSUME FolderInv, NEW r \in Requests, Places(r)
  PROVE  FolderInv'
<1> DEFINE n == Name(r)
<1>1. Types /\ Correct(r)
  BY DEF FolderInv
<1>2. At(r, "places") /\ req[r].op \in Staging \cup {"chunks"} /\ req[r].op # "none" /\ n \in Names
      /\ req[r].file = None /\ req[r].op \in Uploads /\ req[r].op \notin InPlace /\ req[r].op \notin Moving
  BY <1>1 DEF Places, At, Staging, Correct, InOrderly, Written, Uploads, InPlace, Moving
<1>3. r \in Inodes
  BY DEF Inodes
<1>4. /\ data' = [j \in Inodes |-> data'[j]] /\ data'[r] = req[r].temp
      /\ \A j \in Inodes : j # r => data'[j] = data[j]
  BY <1>1, <1>3 DEF Places, Types
<1>5. names' \in [Names -> Inodes \cup {None}] /\ names'[n] = r
      /\ \A m \in Names : m # n => names'[m] = names[m]
  BY <1>1, <1>2, <1>3 DEF Types, Places, Links
<1>6. staged' \in [Names -> Seq(Requests \X Nat) \cup {None}]
      /\ \A m \in Names : staged'[m] \in {staged[m], None}
  BY <1>1, <1>2 DEF Types, Places
<1>7. Becomes(r, "done", req[r].saw, r, req[r].sent, req[r].temp)
  BY <1>1, <1>3, Turns DEF Places, Types, Pcs
<1>8. Keeping(r) /\ webdav' = webdav
  BY <1>1, GivesBack DEF Places
<1>9. Types'
  BY <1>1, <1>4, <1>5, <1>6, <1>7, <1>8 DEF Types, Becomes, Keeping
<1>10. InOrderly(r)'
  BY <1>1, <1>2, <1>7 DEF Correct, InOrderly, Becomes, SameWork, At, Name, Written
<1>11. \A m \in Names : Chunked(m) \subseteq Chunked(m)'
  BY <1>7, ChunkedGrows DEF Becomes
<1>12. HasItAll(r)'
  <2>1. HasItAll(r)
    BY <1>1 DEF Correct
  <2>2. CASE req[r].op = "chunks"
    <3>1. AllOf(req[r].temp, n)
      BY <1>2, <2>1, <2>2 DEF HasItAll, At
    <3> QED BY <1>2, <1>7, <1>11, <2>2, <3>1 DEF HasItAll, AllOf, Becomes, SameWork, Name, Staging, Chunked
  <2>3. CASE req[r].op # "chunks"
    BY <1>2, <1>7, <2>1, <2>3 DEF HasItAll, Becomes, SameWork, At
  <2> QED BY <2>2, <2>3
<1>13. HoldsItsLock(r)' /\ FindsItFree(r)' /\ HoldsItsClaims(r)'
  BY <1>7 DEF HoldsItsLock, FindsItFree, HoldsItsClaims, At, Becomes, SameWork, Final
<1>14. ASSUME NEW m \in Names, Free(m), locks[m] # r PROVE Free(m)'
  <2>1. m # n
    BY <1>1, <1>2, <1>14 DEF Correct, HoldsItsLock, At
  <2> QED BY <1>1, <1>2, <1>5, <1>7, <1>14, <2>1, FreeStays DEF Becomes
<1>15. \A q \in Requests : Correct(q)'
  BY <1>7, <1>8, <1>10, <1>12, <1>13, <1>14, OthersStay DEF Becomes, Correct
<1>16. Made(r)'
  BY <1>2, <1>7 DEF Made, Becomes, SameWork, Written, At
<1>17. NamedAreMade'
  BY <1>2, <1>5, <1>7, <1>16, InodesAreNotNone DEF FolderInv, NamedAreMade, Made, Becomes, Others, At
<1>18. Contents'
  <2> SUFFICES ASSUME NEW q \in Requests, Made(q)' PROVE Holds(q)'
    BY DEF Contents
  <2>1. CASE q = r
    BY <1>2, <1>4, <1>7, <2>1 DEF Holds, Becomes, SameWork
  <2>2. CASE q # r
    <3>1. Opened(q)' = Opened(q)
      BY <1>2, <1>7, <2>2, InodesAreNotNone DEF Opened, Becomes, Others, SameWork
    <3> QED BY <1>4, <1>7, <2>2, <3>1, OthersHold DEF Becomes, Inodes
  <2> QED BY <2>1, <2>2
<1>19. StagedInOrder'
  BY <1>6, <1>11 DEF FolderInv, StagedInOrder, InStep
<1> QED BY <1>9, <1>15, <1>17, <1>18, <1>19 DEF FolderInv

(* A file gets another name, or goes.                                       *)
LEMMA RenamesKeeps ==
  ASSUME FolderInv, NEW r \in Requests, MoveRenames(r)
  PROVE  FolderInv'
<1> DEFINE i == names[Name(r)]
           to == req[r].to
<1>1. Types /\ Correct(r)
  BY DEF FolderInv
<1>2. At(r, "renames") /\ req[r].op \in Moving /\ req[r].op # "none" /\ Name(r) \in Names /\ to \in Names
      /\ req[r].file = None /\ req[r].op \notin Uploads
  BY <1>1 DEF MoveRenames, At, Moving, Correct, InOrderly, Written, Uploads, Staging, InPlace
<1>3. CASE ~Exists(Name(r))
  BY <1>2, <1>3, RefusalKeeps DEF MoveRenames
<1>4. CASE Exists(Name(r))
  <2>1. i \in Inodes /\ i # None
    BY <1>1, <1>2, <1>4 DEF Types, Exists
  <2>2. names' = [names EXCEPT ![to] = i, ![Name(r)] = None]
        /\ req' = [req EXCEPT ![r].pc = "done", ![r].file = i]
        /\ LetsGo(r) /\ UNCHANGED <<data, staged, webdav>>
    BY <1>4 DEF MoveRenames
  <2>3. /\ names' \in [Names -> Inodes \cup {None}] /\ names'[to] \in {i, None}
        /\ \A m \in Names : m # to => names'[m] \in {names[m], None}
    BY <1>1, <1>2, <2>1, <2>2 DEF Types
  <2>4. Becomes(r, "done", req[r].saw, i, req[r].sent, req[r].temp)
    BY <1>1, <2>1, <2>2, Turns DEF Types, Pcs
  <2> HIDE DEF i, to
  <2>5. Keeping(r)
    BY <1>1, <2>2, GivesBack
  <2>6. Types'
    BY <1>1, <2>2, <2>3, <2>4, <2>5 DEF Types, Becomes, Keeping
  <2>7. InOrderly(r)'
    BY <1>1, <1>2, <2>4 DEF Correct, InOrderly, Becomes, SameWork, At, Name, Written
  <2>8. HasItAll(r)' /\ HoldsItsLock(r)' /\ FindsItFree(r)' /\ HoldsItsClaims(r)'
    BY <1>2, <2>4 DEF HasItAll, HoldsItsLock, FindsItFree, HoldsItsClaims, At, Becomes, SameWork, Final,
                      Moving, Staging
  <2>9. ASSUME NEW m \in Names, Free(m) PROVE Free(m)'
    <3>1. CASE names'[m] = None
      BY <3>1 DEF Free, Exists
    <3>2. CASE m = to /\ names'[m] = i
      <4>1. req'[r].op \in Moving /\ req'[r].to = m /\ req'[r].file = i
        BY <1>2, <2>4, <3>2 DEF Becomes, SameWork, to
      <4> QED BY <3>2, <4>1 DEF Free, MovedTo
    <3>3. CASE m # to /\ names'[m] = names[m]
      BY <1>1, <1>2, <2>4, <2>9, <3>3, FreeStays DEF Becomes
    <3> QED BY <2>3, <3>1, <3>2, <3>3
  <2>10. \A q \in Requests : Correct(q)'
    BY <2>2, <2>4, <2>5, <2>7, <2>8, <2>9, OthersStay DEF Becomes, Correct
  <2>11. \A q \in Requests : Made(q)' <=> Made(q)
    BY <1>2, <2>4 DEF Made, Becomes, Others, SameWork, At
  <2>12. NamedAreMade'
    BY <1>2, <2>3, <2>11, InodesAreNotNone DEF FolderInv, NamedAreMade, i
  <2>13. \A q \in Inodes : Opened(q)' = Opened(q)
    BY <1>2, <2>4 DEF Opened, Becomes, Others, SameWork, Uploads
  <2>14. Contents'
    <3> SUFFICES ASSUME NEW q \in Requests, Made(q)' PROVE Holds(q)'
      BY DEF Contents
    <3>1. q # r
      BY <1>2, <2>11 DEF Made
    <3> QED BY <2>2, <2>4, <2>13, <3>1, OthersHold DEF Becomes, Inodes
  <2>15. StagedInOrder'
    BY <2>2, <2>4, StagedStays DEF Becomes
  <2> QED BY <2>6, <2>10, <2>12, <2>14, <2>15 DEF FolderInv
<1> QED BY <1>3, <1>4

LEMMA RemovesKeeps ==
  ASSUME FolderInv, NEW r \in Requests, DeleteRemoves(r)
  PROVE  FolderInv'
<1>1. Types /\ Correct(r)
  BY DEF FolderInv
<1>2. At(r, "removes") /\ req[r].op \in Deleting /\ req[r].op # "none" /\ Name(r) \in Names
      /\ req[r].file = None /\ req[r].op \notin Uploads \cup Moving
  BY <1>1 DEF DeleteRemoves, At, Moving, Correct, InOrderly, Written, Uploads, Staging, InPlace, Deleting
<1>3. CASE ~Exists(Name(r))
  BY <1>2, <1>3, RefusalKeeps DEF DeleteRemoves
<1>4. CASE Exists(Name(r))
  <2>1. names' = [names EXCEPT ![Name(r)] = None] /\ Answers(r, "done") /\ UNCHANGED <<data, staged>>
    BY <1>4 DEF DeleteRemoves, Links
  <2>2. names' \in [Names -> Inodes \cup {None}] /\ \A m \in Names : names'[m] \in {names[m], None}
    BY <1>1, <1>2, <2>1 DEF Types
  <2>3. Becomes(r, "done", req[r].saw, req[r].file, req[r].sent, req[r].temp)
    BY <1>1, <2>1, Turns DEF Answers, Types, Pcs
  <2>4. Keeping(r) /\ webdav' = webdav
    BY <1>1, <2>1, GivesBack DEF Answers
  <2>5. Types'
    BY <1>1, <2>1, <2>2, <2>3, <2>4 DEF Types, Becomes, Keeping
  <2>6. InOrderly(r)'
    BY <1>1, <1>2, <2>3 DEF Correct, InOrderly, Becomes, SameWork, At, Name, Written
  <2>7. HasItAll(r)' /\ HoldsItsLock(r)' /\ FindsItFree(r)' /\ HoldsItsClaims(r)'
    BY <1>2, <2>3 DEF HasItAll, HoldsItsLock, FindsItFree, HoldsItsClaims, At, Becomes, SameWork, Final,
                      Deleting, Staging
  <2>8. ASSUME NEW m \in Names, Free(m) PROVE Free(m)'
    <3>1. CASE names'[m] = None
      BY <3>1 DEF Free, Exists
    <3>2. CASE names'[m] = names[m]
      BY <1>1, <1>2, <2>3, <2>8, <3>2, FreeStays DEF Becomes
    <3> QED BY <2>2, <3>1, <3>2
  <2>9. \A q \in Requests : Correct(q)'
    BY <2>3, <2>4, <2>6, <2>7, <2>8, OthersStay DEF Becomes, Correct
  <2>10. \A q \in Requests : Made(q)' <=> Made(q)
    BY <1>2, <2>3 DEF Made, Becomes, Others, SameWork, At
  <2>11. NamedAreMade'
    BY <2>2, <2>10, InodesAreNotNone DEF FolderInv, NamedAreMade
  <2>12. \A q \in Inodes : Opened(q)' = Opened(q)
    BY <2>3 DEF Opened, Becomes, Others, SameWork
  <2>13. Contents'
    <3> SUFFICES ASSUME NEW q \in Requests, Made(q)' PROVE Holds(q)'
      BY DEF Contents
    <3>1. q # r
      BY <1>2, <2>10 DEF Made
    <3> QED BY <2>1, <2>3, <2>12, <3>1, OthersHold DEF Becomes, Inodes
  <2>14. StagedInOrder'
    BY <2>1, <2>3, StagedStays DEF Becomes
  <2> QED BY <2>5, <2>9, <2>11, <2>13, <2>14 DEF FolderInv
<1> QED BY <1>3, <1>4

LEMMA GoesAwayKeeps ==
  ASSUME FolderInv, NEW r \in Requests, Leaves(r) \/ FinderUnlocks(r)
  PROVE  FolderInv'
<1>1. At(r, "looks") /\ req[r].op \in {"chunks", "finder"} /\ req[r].file = None /\ UNCHANGED <<folder, staged>>
      /\ \/ Answers(r, "failed")
         \/ Answers(r, "done") /\ req[r].op = "finder"
  BY DEF Leaves, FinderUnlocks, FolderInv, Correct, InOrderly, At, Written
<1> QED BY <1>1, AnswerKeeps DEF Staging

LEMMA SweepsKeeps ==
  ASSUME FolderInv, NEW n \in Names, Sweeps(n)
  PROVE  FolderInv'
<1>1. UNCHANGED <<names, data, locks, claims, req, webdav>>
  BY DEF Sweeps, folder
<1>2. staged' \in [Names -> Seq(Requests \X Nat) \cup {None}]
      /\ \A m \in Names : staged'[m] \in {staged[m], None}
  BY DEF Sweeps, FolderInv, Types
<1>3. Types'
  BY <1>1, <1>2 DEF FolderInv, Types
<1>4. \A q \in Requests : Correct(q)'
  BY <1>1 DEF FolderInv, Correct, InOrderly, HasItAll, AllOf, Chunked, HoldsItsLock, HoldsItsClaims, FindsItFree,
              Free, Exists, MovedTo, At, Name
<1>5. NamedAreMade' /\ Contents'
  BY <1>1 DEF FolderInv, NamedAreMade, Contents, Made, Holds, Opened, At
<1>6. StagedInOrder'
  BY <1>1, <1>2 DEF FolderInv, StagedInOrder, InStep, Chunked
<1> QED BY <1>3, <1>4, <1>5, <1>6 DEF FolderInv

(* What a request may do next.                                              *)
Acts(r) ==
  \/ Looks(r) \/ PutOpens(r) \/ StorOpens(r) \/ SftpOpens(r)
  \/ Writes(r) \/ Ends(r) \/ Breaks(r)
  \/ Receives(r) \/ StagedLocks(r) \/ Checks(r) \/ Places(r)
  \/ ChunkComes(r) \/ ChunkLocks(r) \/ Applies(r) \/ Applied(r) \/ Leaves(r)
  \/ MoveLooks(r) \/ MoveRenames(r) \/ DeleteLooks(r) \/ DeleteRemoves(r)
  \/ FinderUnlocks(r)

LEMMA NextIs ==
  ASSUME Next
  PROVE  \/ \E r \in Requests : (\E j \in Work[r] : Comes(r, j)) \/ Acts(r)
         \/ \E n \in Names : Sweeps(n)
BY Zenon DEF Next, Acts

LEMMA FolderInvStep == FolderInv /\ [Next]_vars => FolderInv'
<1> SUFFICES ASSUME FolderInv, [Next]_vars PROVE FolderInv'
  OBVIOUS
<1>1. CASE UNCHANGED vars
  <2>1. UNCHANGED <<names, data, staged, locks, claims, req, webdav>>
    BY <1>1 DEF vars
  <2>2. Types'
    BY <2>1 DEF FolderInv, Types
  <2>3. \A q \in Requests : Correct(q)'
    BY <2>1 DEF FolderInv, Correct, InOrderly, HasItAll, AllOf, Chunked, HoldsItsLock, HoldsItsClaims, FindsItFree,
                Free, Exists, MovedTo, At, Name
  <2>4. NamedAreMade' /\ Contents'
    BY <2>1 DEF FolderInv, NamedAreMade, Contents, Made, Holds, Opened, At
  <2>5. StagedInOrder'
    BY <2>1 DEF FolderInv, StagedInOrder, InStep, Chunked
  <2> QED BY <2>2, <2>3, <2>4, <2>5 DEF FolderInv
<1>2. ASSUME NEW r \in Requests, NEW j \in Work[r], Comes(r, j) PROVE FolderInv'
  BY <1>2, ComesKeeps
<1>3. ASSUME NEW r \in Requests, Acts(r) PROVE FolderInv'
  BY <1>3, LooksKeeps, OpeningKeeps, WritesKeeps, StopsWriting, ReceivesKeeps, LocksKeeps, ChecksKeeps,
     PlacesKeeps, ChunkComesKeeps, AppliesKeeps, AppliedKeeps, GoesAwayKeeps, LooksAtNamesKeeps,
     RenamesKeeps, RemovesKeeps DEF Acts
<1>4. ASSUME NEW n \in Names, Sweeps(n) PROVE FolderInv'
  BY <1>4, SweepsKeeps
<1> QED BY <1>1, <1>2, <1>3, <1>4, NextIs

LEMMA FolderInvInit == Init => FolderInv
<1> SUFFICES ASSUME Init PROVE FolderInv
  OBVIOUS
<1>1. Nothing \in Request
  BY DEF Nothing, Request, Pcs, Ops
<1>2. \A r \in Requests : req[r] = Nothing /\ req[r].pc = "idle" /\ req[r].op = "none" /\ req[r].file = None
                          /\ req[r].right = FALSE /\ req[r].saw = FALSE
  BY DEF Init, Nothing
<1>3. \A n \in Names : names[n] \notin Requests /\ names[n] \in Names \cup {None}
  BY InodesAreNotNone DEF Init
<1>4. Types
  BY <1>1 DEF Init, Types, Inodes
<1>5. \A r \in Requests : Correct(r)
  BY <1>2 DEF Correct, InOrderly, HasItAll, HoldsItsLock, HoldsItsClaims, FindsItFree, At, InPlace, Moving,
              Claiming, Staging, Written
<1>6. NamedAreMade /\ Contents
  BY <1>2, <1>3 DEF NamedAreMade, Contents, Made, Written
<1>7. StagedInOrder
  BY DEF Init, StagedInOrder
<1> QED BY <1>4, <1>5, <1>6, <1>7 DEF FolderInv

LEMMA FolderInvariance == Spec => []FolderInv
  BY FolderInvInit, FolderInvStep, PTL DEF Spec

-----------------------------------------------------------------------------
(* Two who sent chunks are more than one.                                   *)
LEMMA TwoAreMore ==
  ASSUME NEW n, NEW x \in Chunked(n), NEW y \in Chunked(n), x # y
  PROVE  Cardinality(Chunked(n)) > 1
<1>1. IsFiniteSet(Chunked(n))
  BY WorkAssumption, FS_Subset DEF Chunked
<1>2. IsFiniteSet(Chunked(n) \ {x}) /\ Cardinality(Chunked(n) \ {x}) = Cardinality(Chunked(n)) - 1
  BY <1>1, FS_RemoveElement
<1>3. Cardinality(Chunked(n) \ {x}) # 0
  BY <1>2, FS_EmptySet
<1> QED BY <1>1, <1>2, <1>3, FS_CardinalityType

LEMMA OwnIsInOrder ==
  ASSUME NEW r \in Requests
  PROVE  InOrder(Own(r, Pieces)) /\ OfOne(Own(r, Pieces))
<1>1. Len(Own(r, Pieces)) = Pieces /\ DOMAIN Own(r, Pieces) = 1 .. Pieces
  BY OwnIsASequence, WorkAssumption DEF Own
<1>2. \A k \in 1 .. Pieces : Own(r, Pieces)[k] = <<r, k>> /\ <<r, k>> # Hole
  BY WorkAssumption DEF Own, Hole
<1> QED BY <1>1, <1>2 DEF InOrder, OfOne

LEMMA AllOfIsInOrder ==
  ASSUME NEW s \in Seq(Requests \X Nat), NEW n, AllOf(s, n)
  PROVE  InOrder(s) /\ (OfOne(s) \/ Cardinality(Chunked(n)) > 1)
<1>1. DOMAIN s = 1 .. Pieces
  BY WorkAssumption DEF AllOf
<1>2. \A k \in 1 .. Pieces : s[k] # Hole
  BY WorkAssumption DEF AllOf, Hole
<1>3. ASSUME ~OfOne(s) PROVE Cardinality(Chunked(n)) > 1
  <2>1. PICK j \in DOMAIN s, k \in DOMAIN s : s[j][1] # s[k][1]
    BY <1>3 DEF OfOne
  <2>2. s[j][1] \in Chunked(n) /\ s[k][1] \in Chunked(n)
    BY <1>1, <2>1 DEF AllOf
  <2> QED BY <2>1, <2>2, TwoAreMore
<1> QED BY <1>2, <1>3 DEF InOrder, AllOf

LEMMA InvGivesWhole == FolderInv => FilesAreWhole
<1> SUFFICES ASSUME FolderInv, NEW n \in Names, names[n] \in Requests
    PROVE  LET i == names[n] IN
             /\ req[i].op \notin InPlace /\ Opened(i) = {} =>
                  /\ InOrder(data[i])
                  /\ OfOne(data[i]) \/ Cardinality(Chunked(req[i].name)) > 1
             /\ req[i].op \in InPlace \ {"appe"} /\ Opened(i) = {i} /\ req[i].pc = "done" =>
                  InOrder(data[i]) /\ OfOne(data[i])
  BY DEF FilesAreWhole
<1> DEFINE i == names[n]
<1>1. Made(i) /\ Holds(i) /\ Correct(i) /\ req[i].temp \in Seq(Requests \X Nat)
  BY TypesOf DEF FolderInv, NamedAreMade, Contents
<1> HIDE DEF i
<1>2. i \in Requests
  BY DEF i
<1>3. ASSUME req[i].op \notin InPlace, Opened(i) = {}
      PROVE  InOrder(data[i]) /\ (OfOne(data[i]) \/ Cardinality(Chunked(req[i].name)) > 1)
  <2>1. data[i] = req[i].temp /\ req[i].pc = "done" /\ req[i].op \in Staging \cup {"chunks"}
    BY <1>1, <1>3 DEF Holds, Made, Uploads, At
  <2>2. CASE req[i].op \in Staging
    <3>1. req[i].temp = Own(i, Pieces)
      BY <1>1, <2>1, <2>2 DEF Correct, HasItAll
    <3> QED BY <1>2, <2>1, <3>1, OwnIsInOrder
  <2>3. CASE req[i].op = "chunks"
    <3>1. AllOf(req[i].temp, req[i].name)
      BY <1>1, <2>1, <2>3 DEF Correct, HasItAll, Name
    <3> QED BY <1>1, <2>1, <3>1, AllOfIsInOrder
  <2> QED BY <2>1, <2>2, <2>3
<1>4. ASSUME req[i].op \in InPlace \ {"appe"}, Opened(i) = {i}, req[i].pc = "done"
      PROVE  InOrder(data[i]) /\ OfOne(data[i])
  <2>1. data[i] = Own(i, Pieces)
    BY <1>1, <1>4 DEF Holds, At
  <2> QED BY <1>2, <2>1, OwnIsInOrder
<1> QED BY <1>3, <1>4 DEF i

(* Whatever requests meet at a name, and wherever they break off: what was  *)
(* staged is at its name in one piece or not at all, and what was answered  *)
(* is all there, if nobody else wrote to the same file (finalizeUpload and  *)
(* writeRangeChunk of upload.go, openForWrite of FTP and SFTP).             *)
THEOREM FilesStayWhole == Spec => []FilesAreWhole
  BY FolderInvariance, InvGivesWhole, PTL

-----------------------------------------------------------------------------
(* A step is of one request, which stays what it is.                        *)
LEMMA OneActs ==
  ASSUME FolderInv, NEW r \in Requests, Acts(r)
  PROVE  Others(r) /\ req'[r].op = req[r].op /\ webdav' = webdav
<1> USE DEF FolderInv, Types, Others
<1>0. req[r] \in Request
  OBVIOUS
<1>1. ASSUME NEW pc, Goes(r, pc) PROVE Others(r) /\ req'[r].op = req[r].op
  BY <1>0, <1>1 DEF Goes, Request
<1>2. CASE Looks(r)
  BY <1>0, <1>1, <1>2 DEF Looks, Refuses, Answers, Stays, Request
<1>3. CASE PutOpens(r) \/ StorOpens(r) \/ SftpOpens(r)
  BY <1>0, <1>1, <1>3 DEF PutOpens, StorOpens, SftpOpens, Refuses, Answers, Opens, Creates, Request
<1>4. CASE Writes(r)
  BY <1>0, <1>4 DEF Writes, Request
<1>5. CASE Ends(r) \/ Breaks(r) \/ Leaves(r) \/ FinderUnlocks(r)
  BY <1>1, <1>5 DEF Ends, Breaks, Leaves, FinderUnlocks, Answers
<1>6. CASE Receives(r)
  BY <1>0, <1>1, <1>6 DEF Receives, Answers, Stays, Request
<1>7. CASE StagedLocks(r) \/ ChunkLocks(r)
  BY <1>1, <1>7 DEF StagedLocks, ChunkLocks, Locks
<1>8. CASE Checks(r)
  BY <1>1, <1>8 DEF Checks, Refuses, Answers, Stays
<1>9. CASE Places(r)
  BY <1>0, <1>9 DEF Places, Request
<1>10. CASE ChunkComes(r)
  BY <1>0, <1>1, <1>10 DEF ChunkComes, Refuses, Answers, Request
<1>11. CASE Applies(r)
  BY <1>0, <1>1, <1>11 DEF Applies, Refuses, Answers, Stays, OutOfSync, Request
<1>12. CASE Applied(r)
  BY <1>0, <1>1, <1>12 DEF Applied, Refuses, Answers, Stays, Acknowledges, Request
<1>13. CASE MoveLooks(r) \/ DeleteLooks(r) \/ DeleteRemoves(r)
  BY <1>1, <1>13 DEF MoveLooks, DeleteLooks, DeleteRemoves, Refuses, Answers, Stays
<1>14. CASE MoveRenames(r)
  BY <1>0, <1>1, <1>14 DEF MoveRenames, Refuses, Answers, Request
<1> QED BY <1>2, <1>3, <1>4, <1>5, <1>6, <1>7, <1>8, <1>9, <1>10, <1>11, <1>12, <1>13, <1>14 DEF Acts

(* Most steps leave the files alone.                                        *)
Aside(r) ==
  \/ Looks(r) \/ Ends(r) \/ Receives(r) \/ StagedLocks(r) \/ Checks(r)
  \/ ChunkComes(r) \/ ChunkLocks(r) \/ Applies(r) \/ Applied(r) \/ Leaves(r)
  \/ MoveLooks(r) \/ DeleteLooks(r) \/ FinderUnlocks(r)

LEMMA AsideLeaves ==
  ASSUME NEW r \in Requests, Aside(r) \/ Refuses(r)
  PROVE  names' = names /\ data' = data
BY DEF Aside, Looks, Ends, Receives, StagedLocks, Checks, ChunkComes, ChunkLocks, Applies, Applied, Leaves,
       MoveLooks, DeleteLooks, FinderUnlocks, Refuses, Answers, Stays, Locks, OutOfSync, folder

(* A step changes the names it is about ...                                 *)
LEMMA ItsNames ==
  ASSUME FolderInv, NEW r \in Requests, Acts(r), NEW n \in Names, names'[n] # names[n]
  PROVE  n = Name(r) \/ (MoveRenames(r) /\ n = req[r].to)
<1>1. names \in [Names -> Inodes \cup {None}]
  BY DEF FolderInv, Types
<1>2. CASE Aside(r) \/ Refuses(r)
  BY <1>2, AsideLeaves
<1>3. CASE (PutOpens(r) \/ StorOpens(r) \/ SftpOpens(r)) /\ ~Refuses(r)
  BY <1>1, <1>3 DEF PutOpens, StorOpens, SftpOpens, Opens, Creates, Links
<1>4. CASE Writes(r)
  BY <1>4 DEF Writes
<1>5. CASE Breaks(r) \/ Places(r)
  BY <1>1, <1>5 DEF Breaks, Places, Links
<1>6. CASE MoveRenames(r) /\ ~Refuses(r)
  BY <1>1, <1>6 DEF MoveRenames
<1>7. CASE DeleteRemoves(r) /\ ~Refuses(r)
  BY <1>1, <1>7 DEF DeleteRemoves, Links
<1> QED BY <1>2, <1>3, <1>4, <1>5, <1>6, <1>7 DEF Acts, Aside

(* ... and the file that has one of them, or is its own.                    *)
LEMMA ItsFile ==
  ASSUME FolderInv, NEW r \in Requests, Acts(r), NEW i \in Inodes, i # r, data'[i] # data[i]
  PROVE  \/ Writes(r)
         \/ /\ PutOpens(r) \/ StorOpens(r) \/ SftpOpens(r)
            /\ Exists(Name(r)) /\ i = names[Name(r)] /\ ~Refuses(r)
<1>1. data = [j \in Inodes |-> data[j]]
  BY DEF FolderInv, Types
<1>2. CASE Aside(r) \/ Refuses(r)
  BY <1>2, AsideLeaves
<1>3. CASE (PutOpens(r) \/ StorOpens(r) \/ SftpOpens(r)) /\ ~Refuses(r)
  BY <1>1, <1>3 DEF PutOpens, StorOpens, SftpOpens, Opens, Creates
<1>4. CASE Breaks(r) \/ Places(r)
  BY <1>1, <1>4 DEF Breaks, Places
<1>5. CASE (MoveRenames(r) \/ DeleteRemoves(r)) /\ ~Refuses(r)
  BY <1>5 DEF MoveRenames, DeleteRemoves
<1> QED BY <1>2, <1>3, <1>4, <1>5 DEF Acts, Aside

LEMMA OnlyInTheWindows ==
  ASSUME FolderInv, NEW r \in Requests, Acts(r), NEW n \in Names, Overwrites(r, n), ~req[r].right
  PROVE  \/ req[r].op \in {"stor", "appe"} /\ ~req[r].saw
         \/ req[r].op \in Moving /\ n = req[r].to
         \/ /\ req[r].op \in Staging \cup {"chunks"}
            /\ names[n] \in Names \/ req[names[n]].op \in InPlace \/ MovedTo(names[n], n)
<1>1. Correct(r) /\ ~req[r].saw
  BY DEF FolderInv, Correct, InOrderly
<1>2. Exists(n) /\ names[n] # r /\ names[n] \in Inodes
  BY DEF Overwrites, FolderInv, Types, Exists
<1>3. CASE names'[n] \notin {names[n], None}
  <2>1. n = Name(r) \/ (MoveRenames(r) /\ n = req[r].to)
    BY <1>3, ItsNames
  <2>2. CASE MoveRenames(r) /\ n = req[r].to
    BY <2>2 DEF MoveRenames
  <2>3. CASE n = Name(r) /\ Places(r)
    BY <1>1, <1>2, <2>3 DEF Places, Correct, FindsItFree, Free, InOrderly
  <2>4. CASE n = Name(r) /\ ~Places(r) /\ ~(MoveRenames(r) /\ n = req[r].to)
    <3>1. names \in [Names -> Inodes \cup {None}]
      BY DEF FolderInv, Types
    <3>2. ~Aside(r) /\ ~Refuses(r)
      BY <1>3, AsideLeaves
    <3>3. CASE PutOpens(r) \/ StorOpens(r) \/ SftpOpens(r)
      BY <1>2, <1>3, <2>4, <3>2, <3>3 DEF PutOpens, StorOpens, SftpOpens, Opens
    <3>4. CASE Writes(r)
      BY <1>3, <3>4 DEF Writes
    <3>5. CASE Breaks(r) \/ DeleteRemoves(r)
      BY <1>3, <2>4, <3>1, <3>2, <3>5 DEF Breaks, DeleteRemoves, Links
    <3>6. CASE MoveRenames(r)
      BY <1>3, <2>4, <3>1, <3>2, <3>6 DEF MoveRenames
    <3> QED BY <2>4, <3>2, <3>3, <3>4, <3>5, <3>6 DEF Acts, Aside
  <2> QED BY <2>1, <2>2, <2>3, <2>4
<1>4. CASE names'[n] = names[n] /\ data'[names[n]] # data[names[n]] /\ ~At(r, "writes")
  <2>1. /\ PutOpens(r) \/ StorOpens(r) \/ SftpOpens(r)
        /\ Exists(Name(r)) /\ ~Refuses(r)
    BY <1>2, <1>4, ItsFile DEF Writes
  <2>2. StorOpens(r)
    BY <1>1, <2>1 DEF PutOpens, SftpOpens
  <2> QED BY <1>1, <2>2 DEF StorOpens
<1> QED BY <1>3, <1>4 DEF Overwrites

(* What a request of the page is at, it has claimed.                        *)
LockingIsOn == \A f \in Requests : req[f].op = "finder" => webdav

LEMMA ClaimedIsAlone ==
  ASSUME FolderInv, LockingIsOn, NEW r \in Requests, NEW f \in Requests, Acts(r),
         req[f].op = "finder", At(f, "looks"), req[r].op \in (Claiming \ {"finder"}) \cup {"chunks"}
  PROVE  names'[Name(f)] = names[Name(f)]
           /\ (Exists(Name(f)) /\ Name(r) = Name(f) => data'[names[Name(f)]] = data[names[Name(f)]])
<1>1. Correct(r) /\ Correct(f) /\ webdav /\ Name(f) \in Names
  BY DEF FolderInv, LockingIsOn, Correct, InOrderly
<1>2. CASE Aside(r) \/ Refuses(r)
  BY <1>2, AsideLeaves
<1>3. CASE ~Aside(r) /\ ~Refuses(r)
  <2>1. req[r].pc \notin Final
    BY <1>3 DEF Acts, Aside, PutOpens, StorOpens, SftpOpens, Writes, Breaks, Places, MoveRenames, DeleteRemoves,
                At, Final
  <2>2. claims[Name(f)] = f
    BY <1>1 DEF Correct, HoldsItsClaims, At, Final, Claiming
  <2>3. f # r
    BY DEF Claiming
  <2>4. claims[Name(r)] = r /\ (req[r].op = "move" => claims[req[r].to] = r)
    <3>1. CASE req[r].op \in Claiming
      BY <1>1, <2>1, <3>1 DEF Correct, HoldsItsClaims
    <3>2. CASE req[r].op = "chunks"
      <4>1. Places(r)
        BY <1>1, <1>3, <3>2
        DEF Acts, Aside, PutOpens, StorOpens, SftpOpens, Writes, Breaks, Places, MoveRenames, DeleteRemoves,
            Correct, InOrderly, InPlace, Moving, Deleting
      <4> QED BY <1>1, <3>2, <4>1 DEF Places, Correct, HoldsItsClaims
    <3> QED BY <3>1, <3>2
  <2>5. Name(r) # Name(f)
    BY <2>2, <2>3, <2>4
  <2>6. MoveRenames(r) => req[r].to # Name(f)
    BY <2>2, <2>3, <2>4 DEF MoveRenames, Moving, Claiming
  <2>7. names'[Name(f)] = names[Name(f)]
    BY <1>1, <2>5, <2>6, ItsNames
  <2> QED BY <2>5, <2>7
<1> QED BY <1>2, <1>3

LEMMA LockingStaysOn == FolderInv /\ LockingIsOn /\ [Next]_vars => LockingIsOn'
<1> SUFFICES ASSUME FolderInv, LockingIsOn, [Next]_vars PROVE LockingIsOn'
  OBVIOUS
<1>1. CASE UNCHANGED vars
  BY <1>1 DEF vars, LockingIsOn
<1>2. ASSUME NEW r \in Requests, NEW j \in Work[r], Comes(r, j) PROVE LockingIsOn'
  <2>1. webdav' = webdav /\ (j.op = "finder" => webdav)
    BY <1>2 DEF Comes
  <2>2. \A q \in Requests : req'[q].op = IF q = r THEN j.op ELSE req[q].op
    BY <1>2 DEF Comes, FolderInv, Types
  <2> QED BY <2>1, <2>2 DEF LockingIsOn
<1>3. ASSUME NEW r \in Requests, Acts(r) PROVE LockingIsOn'
  BY <1>3, OneActs DEF LockingIsOn, Others
<1>4. ASSUME NEW n \in Names, Sweeps(n) PROVE LockingIsOn'
  BY <1>4 DEF Sweeps, LockingIsOn
<1> QED BY <1>1, <1>2, <1>3, <1>4, NextIs

LEMMA EveryStepMinds ==
  ASSUME FolderInv, LockingIsOn, [Next]_vars
  PROVE  /\ \A r \in Requests, n \in Names :
              Overwrites(r, n) /\ ~req[r].right =>
                \/ req[r].op \in {"stor", "appe"} /\ ~req[r].saw
                \/ req[r].op \in Moving /\ n = req[r].to
                \/ /\ req[r].op \in Staging \cup {"chunks"}
                   /\ names[n] \in Names \/ req[names[n]].op \in InPlace \/ MovedTo(names[n], n)
         /\ \A f, r \in Requests :
              /\ req[f].op = "finder" /\ At(f, "looks")
              /\ req'[r] # req[r] /\ req[r].op \in (Claiming \ {"finder"}) \cup {"chunks"}
              => names'[Name(f)] = names[Name(f)]
                   /\ (Exists(Name(f)) /\ Name(r) = Name(f)
                         => data'[names[Name(f)]] = data[names[Name(f)]])
<1>1. CASE names' = names /\ data' = data
  BY <1>1 DEF Overwrites
<1>2. ASSUME NEW a \in Requests, Acts(a)
      PROVE  \A r \in Requests : req'[r] # req[r] => r = a
  BY <1>2, OneActs DEF Others
<1>3. CASE \E a \in Requests : Acts(a)
  <2>1. PICK a \in Requests : Acts(a)
    BY <1>3
  <2>2. \A r \in Requests, n \in Names : Overwrites(r, n) => r = a
    BY <1>2, <2>1 DEF Overwrites
  <2> QED BY <1>2, <2>1, <2>2, OnlyInTheWindows, ClaimedIsAlone
<1>4. CASE \E r \in Requests : \E j \in Work[r] : Comes(r, j)
  BY <1>1, <1>4 DEF Comes, folder
<1>5. CASE \E n \in Names : Sweeps(n)
  BY <1>1, <1>5 DEF Sweeps, folder
<1>6. CASE UNCHANGED vars
  BY <1>1, <1>6 DEF vars
<1> QED BY <1>3, <1>4, <1>5, <1>6, NextIs

(* Nobody changes what another has completed without the right to, but in   *)
(* the windows the code leaves (openForWrite, renameFile, finalizeUpload),  *)
(* and nobody of the page what is locked (davHold of server.go).            *)
THEOREM OthersFilesStayMinded == Spec => OthersFilesAreMinded
<1>1. Init => LockingIsOn
  BY DEF Init, Nothing, LockingIsOn
<1>2. Spec => [](FolderInv /\ LockingIsOn)
  BY <1>1, FolderInvInit, FolderInvStep, LockingStaysOn, PTL DEF Spec
<1>3. FolderInv /\ LockingIsOn /\ [Next]_vars =>
        [\A r \in Requests, n \in Names :
           Overwrites(r, n) /\ ~req[r].right =>
             \/ req[r].op \in {"stor", "appe"} /\ ~req[r].saw
             \/ req[r].op \in Moving /\ n = req[r].to
             \/ /\ req[r].op \in Staging \cup {"chunks"}
                /\ names[n] \in Names \/ req[names[n]].op \in InPlace \/ MovedTo(names[n], n)]_vars
  BY EveryStepMinds
<1>4. FolderInv /\ LockingIsOn /\ [Next]_vars =>
        [\A f, r \in Requests :
           /\ req[f].op = "finder" /\ At(f, "looks")
           /\ req'[r] # req[r] /\ req[r].op \in (Claiming \ {"finder"}) \cup {"chunks"}
           => names'[Name(f)] = names[Name(f)]
                /\ (Exists(Name(f)) /\ Name(r) = Name(f)
                      => data'[names[Name(f)]] = data[names[Name(f)]])]_vars
  BY EveryStepMinds
<1> QED BY <1>2, <1>3, <1>4, PTL DEF OthersFilesAreMinded, OverwritesOnlyInTheWindows, LockedIsLeftAlone, Spec

-----------------------------------------------------------------------------
(***************************************************************************)
(* The multipart upload.  The file of a part and the one beside it are of  *)
(* one request, or the MD5 is one that nobody was answered yet - unless    *)
(* two requests were at the part.                                          *)
(***************************************************************************)
PartPcs == {"idle", "stages", "renames", "lists", "joins", "removes", "end"}
PartRequest ==
  [op : {"none", "part", "complete", "abort"}, pc : PartPcs, part : Parts \cup {None},
   list : [Parts -> Senders \cup {None}], joined : [Parts -> Senders \cup {None}]]
PartTypes ==
  /\ body \in [Parts -> Senders \cup {None}] /\ etag \in [Parts -> Senders \cup {None}]
  /\ done \subseteq Senders /\ rq \in [Senders -> PartRequest]

Sent(r, p) == rq[r].op = "part" /\ rq[r].part = p

(* How far a request is says what it is; what is answered has ended.        *)
SendsInOrder ==
  /\ \A r \in Senders :
       /\ rq[r].pc \in {"stages", "renames"} => rq[r].op = "part" /\ rq[r].part \in Parts
       /\ rq[r].pc \in {"lists", "joins"} => rq[r].op = "complete" /\ \A p \in Parts : rq[r].list[p] \in done \cup {None}
       /\ rq[r].pc = "lists" => \A p \in Parts : rq[r].joined[p] = None
  /\ \A r \in done : rq[r].pc = "end"
  /\ \A p \in Parts : etag[p] # None => Sent(etag[p], p) /\ rq[etag[p]].pc \in {"renames", "end"}

(* An MD5 that was answered is of what is in the file of the part.          *)
OfOneSender(p) ==
  /\ etag[p] \in done /\ body[p] # None => body[p] = etag[p]
  /\ \A r \in Senders : Sent(r, p) /\ rq[r].pc = "renames" => etag[p] \in {r, None}

(* What is joined is what was listed.                                       *)
JoinsTheListed(r, p) ==
  rq[r].pc = "joins" =>
    /\ rq[r].list[p] = None => rq[r].joined[p] = None
    /\ rq[r].list[p] # None =>
         IF rq[r].joined[p] = None THEN body[p] \in {rq[r].list[p], None} ELSE rq[r].joined[p] = rq[r].list[p]

PartInv ==
  /\ PartTypes /\ SendsInOrder /\ ObjectIsAsNamed
  /\ \A p \in Parts \ busy : OfOneSender(p) /\ \A r \in Senders : JoinsTheListed(r, p)

(* A request turns to what it does next, and no other does.                 *)
RqTurns(r, x) ==
  x \in PartRequest /\ rq' \in [Senders -> PartRequest] /\ rq'[r] = x
    /\ \A q \in Senders : q # r => rq'[q] = rq[q]

LEMMA RqBecomes ==
  ASSUME PartTypes, NEW r \in Senders, NEW x \in PartRequest, rq' = [rq EXCEPT ![r] = x]
  PROVE  RqTurns(r, x)
BY DEF PartTypes, RqTurns

LEMMA RqGoes ==
  ASSUME PartTypes, NEW r \in Senders, NEW pc \in PartPcs, Multipart!Goes(r, pc)
  PROVE  /\ RqTurns(r, rq'[r]) /\ rq'[r].op = rq[r].op /\ rq'[r].pc = pc /\ rq'[r].part = rq[r].part
         /\ rq'[r].list = rq[r].list /\ rq'[r].joined = rq[r].joined
<1> DEFINE x == [rq[r] EXCEPT !.pc = pc]
<1>1. rq[r] \in PartRequest
  BY DEF PartTypes
<1>2. x \in PartRequest /\ x.op = rq[r].op /\ x.pc = pc /\ x.part = rq[r].part /\ x.list = rq[r].list
      /\ x.joined = rq[r].joined
  BY <1>1 DEF PartRequest
<1>3. rq' = [rq EXCEPT ![r] = x]
  BY DEF Multipart!Goes
<1> QED BY <1>2, <1>3, RqBecomes DEF RqTurns, PartTypes

(* A request ends, or begins what touches no part.                          *)
LEMMA EndKeeps ==
  ASSUME PartInv, NEW r \in Senders, RqTurns(r, rq'[r]), rq'[r].pc \in {"end", "removes"},
         rq[r].pc = "idle" \/ (rq'[r].pc = "end" /\ rq'[r].op = rq[r].op /\ rq'[r].part = rq[r].part),
         UNCHANGED <<body, etag, object, named, done, busy>>
  PROVE  PartInv'
<1>1. PartTypes'
  BY DEF PartInv, PartTypes, RqTurns
<1>2. SendsInOrder'
  BY DEF PartInv, PartTypes, SendsInOrder, RqTurns, Sent
<1>3. ObjectIsAsNamed'
  BY DEF PartInv, ObjectIsAsNamed, Multipart!ObjectIsAsNamed
<1>4. \A p \in Parts \ busy : OfOneSender(p)' /\ \A q \in Senders : JoinsTheListed(q, p)'
  BY DEF PartInv, OfOneSender, JoinsTheListed, RqTurns, Sent
<1> QED BY <1>1, <1>2, <1>3, <1>4 DEF PartInv

LEMMA SendsKeeps ==
  ASSUME PartInv, NEW r \in Senders, NEW p \in Parts, Multipart!Sends(r, p)
  PROVE  PartInv'
<1> DEFINE x == [Multipart!Free EXCEPT !.op = "part", !.pc = "stages", !.part = p]
<1>1. x \in PartRequest /\ x.op = "part" /\ x.pc = "stages" /\ x.part = p
  BY DEF Multipart!Free, Multipart!Empty, PartRequest, PartPcs
<1>2. RqTurns(r, x) /\ rq[r].pc = "idle" /\ UNCHANGED <<body, etag, object, named, done, busy>>
  BY <1>1, RqBecomes DEF Multipart!Sends, PartInv
<1> HIDE DEF x
<1>3. PartTypes'
  BY <1>2 DEF PartInv, PartTypes, RqTurns
<1>4. SendsInOrder'
  BY <1>1, <1>2 DEF PartInv, PartTypes, SendsInOrder, RqTurns, Sent
<1>5. ObjectIsAsNamed'
  BY <1>2 DEF PartInv, ObjectIsAsNamed, Multipart!ObjectIsAsNamed
<1>6. \A n \in Parts \ busy : OfOneSender(n)' /\ \A q \in Senders : JoinsTheListed(q, n)'
  BY <1>1, <1>2 DEF PartInv, OfOneSender, JoinsTheListed, RqTurns, Sent
<1> QED BY <1>2, <1>3, <1>4, <1>5, <1>6 DEF PartInv

(* Who else uses a part that is written makes it busy.                      *)
LEMMA BusyGrows ==
  ASSUME NEW r \in Senders, NEW p, Multipart!Uses(r, p)
  PROVE  busy \subseteq busy' /\ (p \notin busy' => Multipart!Using(p) \ {r} = {})
BY DEF Multipart!Uses

LEMMA ETagKeeps ==
  ASSUME PartInv, NEW r \in Senders, Multipart!WritesTheETag(r)
  PROVE  PartInv'
<1> DEFINE p == rq[r].part
<1>1. PartTypes /\ SendsInOrder
  BY DEF PartInv
<1>2. rq[r].op = "part" /\ rq[r].pc = "stages" /\ p \in Parts /\ r \notin done
  BY <1>1 DEF Multipart!WritesTheETag, SendsInOrder
<1>3. etag' = [etag EXCEPT ![p] = r] /\ Multipart!Goes(r, "renames") /\ Multipart!Uses(r, p)
      /\ UNCHANGED <<body, object, named, done>>
  BY DEF Multipart!WritesTheETag
<1>4. /\ RqTurns(r, rq'[r]) /\ rq'[r].op = "part" /\ rq'[r].pc = "renames" /\ rq'[r].part = p
  BY <1>1, <1>2, <1>3, RqGoes DEF PartPcs
<1>5. etag' \in [Parts -> Senders \cup {None}] /\ etag'[p] = r /\ \A n \in Parts : n # p => etag'[n] = etag[n]
  BY <1>1, <1>2, <1>3 DEF PartTypes
<1> HIDE DEF p
<1>6. busy \subseteq busy' /\ (p \notin busy' => Multipart!Using(p) \ {r} = {})
  BY <1>3, BusyGrows
<1>7. PartTypes'
  BY <1>1, <1>3, <1>4, <1>5 DEF PartTypes, RqTurns
<1>8. SendsInOrder'
  BY <1>1, <1>2, <1>3, <1>4, <1>5, SendersAssumption DEF PartTypes, SendsInOrder, RqTurns, Sent, p
<1>9. ObjectIsAsNamed'
  BY <1>3, <1>6 DEF PartInv, ObjectIsAsNamed, Multipart!ObjectIsAsNamed
<1>10. ASSUME NEW n \in Parts \ busy' PROVE OfOneSender(n)'
  <2>1. OfOneSender(n)
    BY <1>6, <1>10 DEF PartInv
  <2>2. CASE n # p
    BY <1>3, <1>4, <1>5, <2>1, <2>2 DEF OfOneSender, RqTurns, Sent
  <2>3. CASE n = p
    <3>1. \A q \in Senders : q # r => ~(Sent(q, p) /\ rq[q].pc = "renames")
      BY <1>6, <1>10, <2>3 DEF Multipart!Using, Sent
    <3> QED BY <1>2, <1>3, <1>4, <1>5, <2>3, <3>1 DEF OfOneSender, RqTurns, Sent
  <2> QED BY <2>2, <2>3
<1>11. \A n \in Parts \ busy', q \in Senders : JoinsTheListed(q, n)'
  BY <1>3, <1>4, <1>6 DEF PartInv, JoinsTheListed, RqTurns
<1> QED BY <1>7, <1>8, <1>9, <1>10, <1>11 DEF PartInv

LEMMA PartRenamesKeeps ==
  ASSUME PartInv, NEW r \in Senders, Multipart!Renames(r)
  PROVE  PartInv'
<1> DEFINE p == rq[r].part
<1>1. PartTypes /\ SendsInOrder
  BY DEF PartInv
<1>2. rq[r].op = "part" /\ rq[r].pc = "renames" /\ p \in Parts
  BY <1>1 DEF Multipart!Renames, SendsInOrder
<1>3. Multipart!Goes(r, "end") /\ Multipart!Uses(r, p) /\ UNCHANGED <<etag, object, named>>
      /\ \/ body' = [body EXCEPT ![p] = r] /\ done' = done \cup {r}
         \/ UNCHANGED <<body, done>>
  BY DEF Multipart!Renames, Multipart!Ends
<1>4. RqTurns(r, rq'[r]) /\ rq'[r].op = "part" /\ rq'[r].pc = "end" /\ rq'[r].part = p
  BY <1>1, <1>2, <1>3, RqGoes DEF PartPcs
<1>5. busy \subseteq busy' /\ (p \notin busy' => Multipart!Using(p) \ {r} = {})
  BY <1>3, BusyGrows
<1>6. CASE UNCHANGED <<body, done>>
  <2>1. PartTypes' /\ SendsInOrder'
    BY <1>1, <1>2, <1>3, <1>4, <1>6 DEF PartTypes, SendsInOrder, RqTurns, Sent
  <2>2. ObjectIsAsNamed'
    BY <1>3, <1>5 DEF PartInv, ObjectIsAsNamed, Multipart!ObjectIsAsNamed
  <2>3. \A n \in Parts \ busy' : OfOneSender(n)' /\ \A q \in Senders : JoinsTheListed(q, n)'
    BY <1>3, <1>4, <1>5, <1>6 DEF PartInv, OfOneSender, JoinsTheListed, RqTurns, Sent
  <2> QED BY <2>1, <2>2, <2>3 DEF PartInv
<1>7. CASE body' = [body EXCEPT ![p] = r] /\ done' = done \cup {r}
  <2>1. body' \in [Parts -> Senders \cup {None}] /\ body'[p] = r /\ \A n \in Parts : n # p => body'[n] = body[n]
    BY <1>1, <1>2, <1>7 DEF PartTypes
  <2> HIDE DEF p
  <2>2. PartTypes'
    BY <1>1, <1>3, <1>4, <1>7, <2>1 DEF PartTypes, RqTurns
  <2>3. SendsInOrder'
    BY <1>1, <1>2, <1>3, <1>4, <1>7 DEF PartTypes, SendsInOrder, RqTurns, Sent, p
  <2>4. ObjectIsAsNamed'
    BY <1>3, <1>5 DEF PartInv, ObjectIsAsNamed, Multipart!ObjectIsAsNamed
  <2>5. ASSUME NEW n \in Parts \ busy' PROVE OfOneSender(n)'
    <3>1. OfOneSender(n) /\ n \notin busy
      BY <1>5, <2>5 DEF PartInv
    <3>2. CASE n = p
      <4>1. etag[p] \in {r, None}
        BY <1>2, <3>1, <3>2 DEF OfOneSender, Sent, p
      <4>2. None \notin done'
        BY <2>2, SendersAssumption DEF PartTypes
      <4> QED BY <1>3, <1>4, <2>1, <3>1, <3>2, <4>1, <4>2 DEF OfOneSender, RqTurns, Sent
    <3>3. CASE n # p
      <4>1. etag[n] # r
        BY <1>1, <1>2, <3>3, SendersAssumption DEF SendsInOrder, Sent, p
      <4> QED BY <1>3, <1>4, <1>7, <2>1, <3>1, <3>3, <4>1 DEF OfOneSender, RqTurns, Sent
    <3> QED BY <3>2, <3>3
  <2>6. ASSUME NEW n \in Parts \ busy', NEW q \in Senders PROVE JoinsTheListed(q, n)'
    <3>1. JoinsTheListed(q, n)
      BY <1>5, <2>6 DEF PartInv
    <3>2. CASE q = r
      BY <1>4, <3>2 DEF JoinsTheListed
    <3>3. CASE q # r /\ n # p
      BY <1>4, <2>1, <3>1, <3>3 DEF JoinsTheListed, RqTurns
    <3>4. CASE q # r /\ n = p
      <4>1. ~(rq[q].pc = "joins" /\ rq[q].list[p] # None)
        BY <1>1, <1>2, <1>5, <2>6, <3>4 DEF Multipart!Using, Multipart!Chosen, SendsInOrder
      <4> QED BY <1>4, <3>1, <3>4, <4>1 DEF JoinsTheListed, RqTurns
    <3> QED BY <3>2, <3>3, <3>4
  <2> QED BY <2>2, <2>3, <2>4, <2>5, <2>6 DEF PartInv
<1> QED BY <1>3, <1>6, <1>7

LEMMA ListsKeeps ==
  ASSUME PartInv, NEW r \in Senders, NEW list \in [Parts -> done \cup {None}], Multipart!Lists(r, list)
  PROVE  PartInv'
<1> DEFINE x == [Multipart!Free EXCEPT !.op = "complete", !.pc = "lists", !.list = list]
<1>1. list \in [Parts -> Senders \cup {None}]
  BY DEF PartInv, PartTypes
<1>2. /\ x \in PartRequest /\ x.op = "complete" /\ x.pc = "lists" /\ x.list = list
      /\ \A p \in Parts : x.joined[p] = None
  BY <1>1 DEF Multipart!Free, Multipart!Empty, PartRequest, PartPcs
<1>3. RqTurns(r, x) /\ rq[r].pc = "idle" /\ UNCHANGED <<body, etag, object, named, done, busy>>
  BY <1>2, RqBecomes DEF Multipart!Lists, PartInv
<1>4. \A p \in Parts : list[p] \in done \cup {None}
  OBVIOUS
<1> HIDE DEF x
<1>5. PartTypes'
  BY <1>3 DEF PartInv, PartTypes, RqTurns
<1>6. SendsInOrder'
  BY <1>2, <1>3, <1>4 DEF PartInv, PartTypes, SendsInOrder, RqTurns, Sent
<1>7. ObjectIsAsNamed'
  BY <1>3 DEF PartInv, ObjectIsAsNamed, Multipart!ObjectIsAsNamed
<1>8. \A n \in Parts \ busy : OfOneSender(n)' /\ \A q \in Senders : JoinsTheListed(q, n)'
  BY <1>2, <1>3 DEF PartInv, OfOneSender, JoinsTheListed, RqTurns, Sent
<1> QED BY <1>3, <1>5, <1>6, <1>7, <1>8 DEF PartInv

LEMMA JudgesKeeps ==
  ASSUME PartInv, NEW r \in Senders, Multipart!Judges(r)
  PROVE  PartInv'
<1>1. PartTypes /\ SendsInOrder
  BY DEF PartInv
<1>2. rq[r].op = "complete" /\ rq[r].pc = "lists" /\ UNCHANGED <<body, etag, object, named, done, busy>>
  BY DEF Multipart!Judges
<1>3. CASE Multipart!Ends(r)
  <2>1. RqTurns(r, rq'[r]) /\ rq'[r].pc = "end" /\ rq'[r].op = rq[r].op /\ rq'[r].part = rq[r].part
    BY <1>1, <1>3, RqGoes DEF Multipart!Ends, PartPcs
  <2> QED BY <1>2, <2>1, EndKeeps
<1>4. CASE /\ Multipart!Goes(r, "joins")
           /\ \A p \in Multipart!Chosen(r) : Multipart!Matches(rq[r].list, p)
  <2>1. /\ RqTurns(r, rq'[r]) /\ rq'[r].op = "complete" /\ rq'[r].pc = "joins"
        /\ rq'[r].list = rq[r].list /\ rq'[r].joined = rq[r].joined
    BY <1>1, <1>2, <1>4, RqGoes DEF PartPcs
  <2>2. PartTypes'
    BY <1>1, <1>2, <2>1 DEF PartTypes, RqTurns
  <2>3. SendsInOrder'
    BY <1>1, <1>2, <2>1 DEF PartTypes, SendsInOrder, RqTurns, Sent
  <2>4. ObjectIsAsNamed'
    BY <1>2 DEF PartInv, ObjectIsAsNamed, Multipart!ObjectIsAsNamed
  <2>5. ASSUME NEW n \in Parts \ busy PROVE OfOneSender(n)' /\ JoinsTheListed(r, n)'
    <3>1. OfOneSender(n) /\ rq[r].joined[n] = None /\ rq[r].list[n] \in done \cup {None}
      BY <1>1, <1>2, <2>5 DEF PartInv, SendsInOrder
    <3>2. OfOneSender(n)'
      BY <1>2, <2>1, <3>1 DEF OfOneSender, RqTurns, Sent
    <3>3. rq[r].list[n] # None => body[n] = rq[r].list[n]
      BY <1>4, <3>1 DEF Multipart!Chosen, Multipart!Matches, OfOneSender
    <3> QED BY <1>2, <2>1, <3>1, <3>2, <3>3 DEF JoinsTheListed
  <2>6. \A n \in Parts \ busy, q \in Senders : q # r => JoinsTheListed(q, n)'
    BY <1>2, <2>1 DEF PartInv, JoinsTheListed, RqTurns
  <2> QED BY <1>2, <2>2, <2>3, <2>4, <2>5, <2>6 DEF PartInv
<1> QED BY <1>3, <1>4 DEF Multipart!Judges

LEMMA JoinsKeeps ==
  ASSUME PartInv, NEW r \in Senders, Multipart!Joins(r)
  PROVE  PartInv'
<1>1. PartTypes /\ SendsInOrder
  BY DEF PartInv
<1>2. rq[r].op = "complete" /\ rq[r].pc = "joins" /\ UNCHANGED <<body, etag, object, named, done, busy>>
  BY DEF Multipart!Joins
<1>3. CASE Multipart!Ends(r)
  <2>1. RqTurns(r, rq'[r]) /\ rq'[r].pc = "end" /\ rq'[r].op = rq[r].op /\ rq'[r].part = rq[r].part
    BY <1>1, <1>3, RqGoes DEF Multipart!Ends, PartPcs
  <2> QED BY <1>2, <2>1, EndKeeps
<1>4. ASSUME NEW p \in Multipart!Chosen(r), rq[r].joined[p] = None, body[p] # None,
             rq' = [rq EXCEPT ![r].joined[p] = body[p]]
      PROVE  PartInv'
  <2> DEFINE x == [rq[r] EXCEPT !.joined[p] = body[p]]
  <2>1. rq[r] \in PartRequest /\ p \in Parts /\ rq[r].list[p] # None /\ body[p] \in Senders \cup {None}
    BY <1>1, <1>4 DEF PartTypes, Multipart!Chosen
  <2>2. /\ x \in PartRequest /\ x.op = rq[r].op /\ x.pc = rq[r].pc /\ x.part = rq[r].part
        /\ x.list = rq[r].list /\ x.joined[p] = body[p] /\ \A n \in Parts : n # p => x.joined[n] = rq[r].joined[n]
    BY <2>1 DEF PartRequest
  <2>3. RqTurns(r, x)
    BY <1>1, <1>4, <2>2, RqBecomes
  <2> HIDE DEF x
  <2>4. PartTypes'
    BY <1>1, <1>2, <2>3 DEF PartTypes, RqTurns
  <2>5. SendsInOrder'
    BY <1>1, <1>2, <2>2, <2>3 DEF PartTypes, SendsInOrder, RqTurns, Sent
  <2>6. ObjectIsAsNamed'
    BY <1>2 DEF PartInv, ObjectIsAsNamed, Multipart!ObjectIsAsNamed
  <2>7. ASSUME NEW n \in Parts \ busy PROVE OfOneSender(n)' /\ JoinsTheListed(r, n)'
    <3>1. OfOneSender(n) /\ JoinsTheListed(r, n)
      BY <2>7 DEF PartInv
    <3>2. OfOneSender(n)'
      BY <1>2, <2>2, <2>3, <3>1 DEF OfOneSender, RqTurns, Sent
    <3>3. JoinsTheListed(r, n)'
      BY <1>2, <1>4, <2>1, <2>2, <2>3, <3>1 DEF JoinsTheListed, RqTurns
    <3> QED BY <3>2, <3>3
  <2>8. \A n \in Parts \ busy, q \in Senders : q # r => JoinsTheListed(q, n)'
    BY <1>2, <2>3 DEF PartInv, JoinsTheListed, RqTurns
  <2> QED BY <1>2, <2>4, <2>5, <2>6, <2>7, <2>8 DEF PartInv
<1> QED BY <1>3, <1>4 DEF Multipart!Joins

LEMMA CompletesKeeps ==
  ASSUME PartInv, NEW r \in Senders, Multipart!Completes(r)
  PROVE  PartInv'
<1>1. PartTypes /\ SendsInOrder
  BY DEF PartInv
<1>2. /\ rq[r].op = "complete" /\ rq[r].pc = "joins" /\ UNCHANGED <<body, etag, done, busy>>
      /\ \A p \in Multipart!Chosen(r) : rq[r].joined[p] # None
  BY DEF Multipart!Completes
<1>3. CASE Multipart!Ends(r) /\ UNCHANGED <<object, named>>
  <2>1. RqTurns(r, rq'[r]) /\ rq'[r].pc = "end" /\ rq'[r].op = rq[r].op /\ rq'[r].part = rq[r].part
    BY <1>1, <1>3, RqGoes DEF Multipart!Ends, PartPcs
  <2> QED BY <1>2, <1>3, <2>1, EndKeeps
<1>4. CASE object' = rq[r].joined /\ named' = rq[r].list /\ Multipart!Goes(r, "removes")
  <2>1. RqTurns(r, rq'[r]) /\ rq'[r].op = "complete" /\ rq'[r].pc = "removes"
    BY <1>1, <1>2, <1>4, RqGoes DEF PartPcs
  <2>2. PartTypes'
    BY <1>1, <1>2, <2>1 DEF PartTypes, RqTurns
  <2>3. SendsInOrder'
    BY <1>1, <1>2, <2>1 DEF PartTypes, SendsInOrder, RqTurns, Sent
  <2>4. \A p \in Parts \ busy : rq[r].joined[p] = rq[r].list[p]
    BY <1>2 DEF PartInv, JoinsTheListed, Multipart!Chosen
  <2>5. ObjectIsAsNamed'
    BY <1>2, <1>4, <2>4 DEF ObjectIsAsNamed, Multipart!ObjectIsAsNamed
  <2>6. \A n \in Parts \ busy : OfOneSender(n)' /\ \A q \in Senders : JoinsTheListed(q, n)'
    BY <1>2, <2>1 DEF PartInv, OfOneSender, JoinsTheListed, RqTurns, Sent
  <2> QED BY <1>2, <2>2, <2>3, <2>5, <2>6 DEF PartInv
<1> QED BY <1>3, <1>4 DEF Multipart!Completes

LEMMA AbortsKeeps ==
  ASSUME PartInv, NEW r \in Senders, Multipart!Aborts(r)
  PROVE  PartInv'
<1> DEFINE x == [Multipart!Free EXCEPT !.op = "abort", !.pc = "removes"]
<1>1. x \in PartRequest /\ x.pc = "removes"
  BY DEF Multipart!Free, Multipart!Empty, PartRequest, PartPcs
<1>2. rq[r].pc = "idle" /\ rq' = [rq EXCEPT ![r] = x] /\ UNCHANGED <<body, etag, object, named, done, busy>>
  BY DEF Multipart!Aborts
<1>3. RqTurns(r, x)
  BY <1>1, <1>2, RqBecomes DEF PartInv
<1> QED BY <1>1, <1>2, <1>3, EndKeeps DEF RqTurns

LEMMA PartRemovesKeeps ==
  ASSUME PartInv, NEW r \in Senders, Multipart!Removes(r)
  PROVE  PartInv'
<1>1. PartTypes /\ SendsInOrder
  BY DEF PartInv
<1>2. rq[r].pc = "removes" /\ UNCHANGED <<object, named, done, busy>>
  BY DEF Multipart!Removes
<1>3. ObjectIsAsNamed'
  BY <1>2 DEF PartInv, ObjectIsAsNamed, Multipart!ObjectIsAsNamed
<1>4. ASSUME NEW p \in Parts, body' = [body EXCEPT ![p] = None], UNCHANGED <<etag, rq>>
      PROVE  PartInv'
  <2>1. body' \in [Parts -> Senders \cup {None}] /\ body'[p] = None /\ \A n \in Parts : n # p => body'[n] = body[n]
    BY <1>1, <1>4 DEF PartTypes
  <2>2. PartTypes' /\ SendsInOrder'
    BY <1>1, <1>2, <1>4, <2>1 DEF PartTypes, SendsInOrder, Sent
  <2>3. \A n \in Parts \ busy : OfOneSender(n)' /\ \A q \in Senders : JoinsTheListed(q, n)'
    BY <1>2, <1>4, <2>1 DEF PartInv, OfOneSender, JoinsTheListed, Sent
  <2> QED BY <1>2, <1>3, <2>2, <2>3 DEF PartInv
<1>5. ASSUME NEW p \in Parts, etag' = [etag EXCEPT ![p] = None], UNCHANGED <<body, rq>>
      PROVE  PartInv'
  <2>1. etag' \in [Parts -> Senders \cup {None}] /\ etag'[p] = None /\ \A n \in Parts : n # p => etag'[n] = etag[n]
    BY <1>1, <1>5 DEF PartTypes
  <2>2. PartTypes' /\ SendsInOrder'
    BY <1>1, <1>2, <1>5, <2>1 DEF PartTypes, SendsInOrder, Sent
  <2>3. None \notin done
    BY <1>1, SendersAssumption DEF PartTypes
  <2>4. \A n \in Parts \ busy : OfOneSender(n)' /\ \A q \in Senders : JoinsTheListed(q, n)'
    BY <1>2, <1>5, <2>1, <2>3 DEF PartInv, OfOneSender, JoinsTheListed, Sent
  <2> QED BY <1>2, <1>3, <2>2, <2>4 DEF PartInv
<1>6. CASE Multipart!Ends(r) /\ UNCHANGED <<body, etag>>
  <2>1. RqTurns(r, rq'[r]) /\ rq'[r].pc = "end" /\ rq'[r].op = rq[r].op /\ rq'[r].part = rq[r].part
    BY <1>1, <1>6, RqGoes DEF Multipart!Ends, PartPcs
  <2> QED BY <1>2, <1>6, <2>1, EndKeeps
<1> QED BY <1>4, <1>5, <1>6 DEF Multipart!Removes

LEMMA DiesKeeps ==
  ASSUME PartInv, NEW r \in Senders, Multipart!Dies(r)
  PROVE  PartInv'
<1>1. PartTypes /\ Multipart!Ends(r) /\ UNCHANGED <<body, etag, object, named, done, busy>>
  BY DEF PartInv, Multipart!Dies
<1>2. RqTurns(r, rq'[r]) /\ rq'[r].pc = "end" /\ rq'[r].op = rq[r].op /\ rq'[r].part = rq[r].part
  BY <1>1, RqGoes DEF Multipart!Ends, PartPcs
<1> QED BY <1>1, <1>2, EndKeeps

LEMMA PartInvBegins ==
  ASSUME Multipart!MultipartInit
  PROVE  PartInv
<1>1. Multipart!Free \in PartRequest /\ Multipart!Free.op = "none" /\ Multipart!Free.pc = "idle"
  BY DEF Multipart!Free, Multipart!Empty, PartRequest, PartPcs
<1>2. /\ body = [p \in Parts |-> None] /\ etag = [p \in Parts |-> None] /\ object = named
      /\ done = {} /\ rq = [r \in Senders |-> Multipart!Free]
  BY DEF Multipart!MultipartInit, Multipart!Empty
<1>3. PartTypes
  BY <1>1, <1>2 DEF PartTypes
<1>4. SendsInOrder
  BY <1>1, <1>2 DEF SendsInOrder
<1>5. ObjectIsAsNamed
  BY <1>2 DEF ObjectIsAsNamed, Multipart!ObjectIsAsNamed
<1>6. \A n \in Parts \ busy : OfOneSender(n) /\ \A q \in Senders : JoinsTheListed(q, n)
  BY <1>1, <1>2 DEF OfOneSender, JoinsTheListed, Sent
<1> QED BY <1>3, <1>4, <1>5, <1>6 DEF PartInv

LEMMA PartInvStays ==
  ASSUME PartInv, [Multipart!MultipartNext]_(Multipart!multipartVars)
  PROVE  PartInv'
<1>1. ASSUME NEW r \in Senders,
             \/ \E p \in Parts : Multipart!Sends(r, p)
             \/ Multipart!WritesTheETag(r) \/ Multipart!Renames(r)
             \/ \E list \in [Parts -> done \cup {None}] : Multipart!Lists(r, list)
             \/ Multipart!Judges(r) \/ Multipart!Joins(r) \/ Multipart!Completes(r)
             \/ Multipart!Aborts(r) \/ Multipart!Removes(r) \/ Multipart!Dies(r)
      PROVE  PartInv'
  BY <1>1, SendsKeeps, ETagKeeps, PartRenamesKeeps, ListsKeeps, JudgesKeeps, JoinsKeeps, CompletesKeeps,
     AbortsKeeps, PartRemovesKeeps, DiesKeeps
<1>2. CASE UNCHANGED Multipart!multipartVars
  BY <1>2 DEF Multipart!multipartVars, PartInv, PartTypes, SendsInOrder, ObjectIsAsNamed,
     Multipart!ObjectIsAsNamed, OfOneSender, JoinsTheListed, Sent
<1> QED BY <1>1, <1>2 DEF Multipart!MultipartNext

(* Whatever parts are sent, sent again, listed, joined and thrown away, and *)
(* wherever a request breaks off: an object that was completed has in every *)
(* part the content whose MD5 the client named, but for the parts that two  *)
(* requests were at (s3multipart.go: UploadPart, CompleteMultipartUpload).  *)
THEOREM ObjectsStayAsNamed == Multipart!MultipartSpec => []ObjectIsAsNamed
<1>1. Multipart!MultipartInit => PartInv
  BY PartInvBegins
<1>2. PartInv /\ [Multipart!MultipartNext]_(Multipart!multipartVars) => PartInv'
  BY PartInvStays
<1>3. PartInv => ObjectIsAsNamed
  BY DEF PartInv
<1> QED BY <1>1, <1>2, <1>3, PTL DEF Multipart!MultipartSpec
====
