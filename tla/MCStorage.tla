----------------------------- MODULE MCStorage -----------------------------
(***************************************************************************)
(* What keeps files, one part at a time: everything that is done to one    *)
(* name of the served folder and renames from another to it, a multipart   *)
(* upload, the trash, the objects of a bucket.  The parts share no         *)
(* variable; the ones that are not looked at stay as they are.             *)
(***************************************************************************)
EXTENDS Storage, TLC

CONSTANTS a, b, r1, r2, r3, s1, s2, s3, s4, Retention, MaxTime, MaxFaults,
  Writers, PageSize, MaxRequests

VARIABLES
  part,                                                  \* what is looked at
  live, kept, index, clock, faults,                      \* TheTrash
  tree, trashes, work, sent, wanted, list                \* Objects

Paths == {<<"d">>, <<"d", "x">>, <<"d", "e">>, <<"d", "e", "x">>}
TheTrash == INSTANCE Trash
Objects == INSTANCE S3Objects

Of(ops, rights) == [op : ops, name : {a}, to : {None}, right : rights]
All == Of(Uploads \ {"fetch"}, BOOLEAN) \cup Of(Deleting \cup {"finder"}, {TRUE})
         \cup [op : Moving, name : {b}, to : {a}, right : {FALSE}]
Some == Of({"remove"}, {TRUE}) \cup [op : {"fetch"}, name : {b}, to : {None}, right : {FALSE}]
MCWork == [r \in Requests |-> IF r = r3 THEN Some ELSE All]
Symmetry == Permutations(Requests \ {r3})

ofMultipart == <<record, body, etag, object, named, done, busy, rq>>
ofTrash == <<live, kept, index, clock, faults>>
ofObjects == <<tree, trashes, work, sent, wanted, list>>
storageVars == <<part, vars, ofMultipart, ofTrash, ofObjects>>

StorageInit ==
  /\ part \in {"folder", "multipart", "trash", "objects"}
  /\ Init /\ (part # "folder" => ~webdav /\ \A n \in Names : ~Exists(n))
  /\ Multipart!MultipartInit /\ TheTrash!TrashInit
  /\ Objects!S3Init /\ (part # "objects" => ~trashes /\ wanted = {0} /\ list.at = "off")

StorageNext ==
  \/ part = "folder" /\ Next
       /\ UNCHANGED <<part, ofMultipart, ofTrash, ofObjects>>
  \/ part = "multipart" /\ Multipart!MultipartNext
       /\ UNCHANGED <<part, vars, ofTrash, ofObjects>>
  \/ part = "trash" /\ TheTrash!TrashNext
       /\ UNCHANGED <<part, vars, ofMultipart, ofObjects>>
  \/ part = "objects" /\ Objects!S3Next
       /\ UNCHANGED <<part, vars, ofMultipart, ofTrash>>

StorageSpec == StorageInit /\ [][StorageNext]_storageVars

(* Files in the trash keep their dates, and the purge goes by them (Trash). *)
DatesAreKept == TheTrash!DatesAreKept

(* Objects, folders and listings, while keys come and go (S3Objects). *)
ObjectsAreTrue == Objects!ObjectsAreTrue
=============================================================================
