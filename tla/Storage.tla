------------------------------- MODULE Storage -------------------------------
(***************************************************************************)
(* The served folder and a multipart upload, which share no variable.      *)
(***************************************************************************)
EXTENDS SharedFolder

CONSTANTS Senders, Parts

(* No content is that of a request. *)
ASSUME SendersAssumption == None \notin Senders

VARIABLES record, body, etag, object, named, done, busy, rq

Multipart == INSTANCE MultipartUpload WITH Requests <- Senders

(* An object is the parts its client named (MultipartUpload). *)
ObjectIsAsNamed == Multipart!ObjectIsAsNamed
=============================================================================
