--------------------------- MODULE MultipartUpload ---------------------------
(***************************************************************************)
(* One multipart upload of the S3 server (src/internal/httpd/              *)
(* s3multipart.go): a folder with a record of it, and for every part a     *)
(* file and, beside it, the MD5 the client was answered.  There is no lock *)
(* but that of the object's name: parts that are sent, sent again, joined  *)
(* and thrown away meet in the folder only, one file operation at a time.  *)
(*                                                                         *)
(* The content of a part is the request that sent it, and so is its MD5.   *)
(***************************************************************************)
EXTENDS Naturals, FiniteSets

CONSTANTS Requests, Parts, None

VARIABLES
  record,    \* whether the folder holds the record of the upload
  body, etag,  \* part -> content of its file, and of the one beside it
  object,    \* what is at the key: part -> content, or None
  named,     \* what the client named when it completed the object
  done,      \* part requests that were answered
  busy,      \* parts that were written while something else used them
  rq         \* what each request is and how far it has come

multipartVars == <<record, body, etag, object, named, done, busy, rq>>

Empty == [p \in Parts |-> None]
Free == [op |-> "none", pc |-> "idle", part |-> None, list |-> Empty, joined |-> Empty]
Goes(r, pc) == rq' = [rq EXCEPT ![r].pc = pc]
Ends(r) == Goes(r, "end")

Chosen(r) == {p \in Parts : rq[r].list[p] # None}
Using(p) ==
  {r \in Requests : \/ rq[r].op = "part" /\ rq[r].part = p /\ rq[r].pc = "renames"
                    \/ rq[r].op = "complete" /\ rq[r].pc \in {"lists", "joins"}
                         /\ p \in Chosen(r)}
Uses(r, p) == busy' = IF Using(p) \ {r} = {} THEN busy ELSE busy \cup {p}

(***************************************************************************)
(* UploadPart: the body is staged in the folder, then its MD5 is written,  *)
(* then it takes the place of the part.                                    *)
(***************************************************************************)
Sends(r, p) ==
  /\ rq[r].pc = "idle" /\ record
  /\ rq' = [rq EXCEPT ![r] = [Free EXCEPT !.op = "part", !.pc = "stages", !.part = p]]
  /\ UNCHANGED <<record, body, etag, object, named, done, busy>>

WritesTheETag(r) ==
  LET p == rq[r].part
  IN /\ rq[r].op = "part" /\ rq[r].pc = "stages"
     /\ etag' = [etag EXCEPT ![p] = r] /\ Goes(r, "renames") /\ Uses(r, p)
     /\ UNCHANGED <<record, body, object, named, done>>

(* The staged file is gone when the upload was thrown away since. *)
Renames(r) ==
  LET p == rq[r].part
  IN /\ rq[r].op = "part" /\ rq[r].pc = "renames"
     /\ IF record
        THEN body' = [body EXCEPT ![p] = r] /\ done' = done \cup {r}
        ELSE UNCHANGED <<body, done>>
     /\ Ends(r) /\ Uses(r, p)
     /\ UNCHANGED <<record, etag, object, named>>

(***************************************************************************)
(* CompleteMultipartUpload: the parts the client names, by number and MD5. *)
(***************************************************************************)
Lists(r, list) ==
  /\ rq[r].pc = "idle" /\ record
  /\ \A p \in Parts : list[p] # None => list[p] \in done /\ rq[list[p]].part = p
  /\ rq' = [rq EXCEPT ![r] = [Free EXCEPT !.op = "complete", !.pc = "lists", !.list = list]]
  /\ UNCHANGED <<record, body, etag, object, named, done, busy>>

(* Mutated: that the part is there is enough.                               *)
MatchesTheNumber(list, p) == body[p] # None
(* A part is there when both of its files are. *)
Matches(list, p) == body[p] # None /\ etag[p] = list[p]

Judges(r) ==
  /\ rq[r].op = "complete" /\ rq[r].pc = "lists"
  /\ IF record /\ \A p \in Chosen(r) : Matches(rq[r].list, p)
     THEN Goes(r, "joins") ELSE Ends(r)
  /\ UNCHANGED <<record, body, etag, object, named, done, busy>>

Joins(r) ==
  LET next == {p \in Chosen(r) : rq[r].joined[p] = None}
  IN /\ rq[r].op = "complete" /\ rq[r].pc = "joins"
     /\ \E p \in next :
          /\ \A q \in next : p <= q
          /\ IF body[p] = None THEN Ends(r)
             ELSE rq' = [rq EXCEPT ![r].joined[p] = body[p]]
     /\ UNCHANGED <<record, body, etag, object, named, done, busy>>

(* placeS3File, under the lock of the key. *)
Completes(r) ==
  /\ rq[r].op = "complete" /\ rq[r].pc = "joins"
  /\ \A p \in Chosen(r) : rq[r].joined[p] # None
  /\ IF record THEN object' = rq[r].joined /\ named' = rq[r].list /\ Goes(r, "removes")
     ELSE Ends(r) /\ UNCHANGED <<object, named>>
  /\ UNCHANGED <<record, body, etag, done, busy>>

(* AbortMultipartUpload, and the sweep of what nothing was added to.       *)
Aborts(r) ==
  /\ rq[r].pc = "idle" /\ record
  /\ rq' = [rq EXCEPT ![r] = [Free EXCEPT !.op = "abort", !.pc = "removes"]]
  /\ UNCHANGED <<record, body, etag, object, named, done, busy>>

(* RemoveAll takes one file after another; with the last the folder goes,  *)
(* which here is when the record does.                                     *)
Removes(r) ==
  /\ rq[r].pc = "removes"
  /\ \/ \E p \in Parts : body[p] # None /\ body' = [body EXCEPT ![p] = None]
                          /\ UNCHANGED <<record, etag, rq>>
     \/ \E p \in Parts : etag[p] # None /\ etag' = [etag EXCEPT ![p] = None]
                          /\ UNCHANGED <<record, body, rq>>
     \/ /\ body = Empty /\ etag = Empty
        /\ record' = FALSE /\ Ends(r) /\ UNCHANGED <<body, etag>>
  /\ UNCHANGED <<object, named, done, busy>>

(* A client goes away, or the server is started anew: nothing goes on. *)
Dies(r) == rq[r].pc \notin {"idle", "end"} /\ Ends(r)
             /\ UNCHANGED <<record, body, etag, object, named, done, busy>>

MultipartInit ==
  /\ record = TRUE /\ body = Empty /\ etag = Empty /\ object = Empty /\ named = Empty
  /\ done = {} /\ busy = {} /\ rq = [r \in Requests |-> Free]

MultipartNext ==
  \E r \in Requests :
    \/ \E p \in Parts : Sends(r, p)
    \/ WritesTheETag(r) \/ Renames(r)
    \/ \E list \in [Parts -> done \cup {None}] : list # Empty /\ Lists(r, list)
    \/ Judges(r) \/ Joins(r) \/ Completes(r)
    \/ Aborts(r) \/ Removes(r) \/ Dies(r)

MultipartSpec == MultipartInit /\ [][MultipartNext]_multipartVars

(* An object that was completed is the parts the client named, each with   *)
(* the content its MD5 was given for, however often parts were sent again, *)
(* broken off between the two files, or removed meanwhile: but for a part  *)
(* that was written by two requests at once, or by one while it was        *)
(* joined, which the code does not keep apart.                             *)
ObjectIsAsNamed ==
  \A p \in Parts \ busy : object[p] = named[p]
=============================================================================
