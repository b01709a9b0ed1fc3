--------------------------- MODULE OciStore_proofs ---------------------------
(***************************************************************************)
(* Why a tag of the registry always names an image that can be pulled, as  *)
(* long as no cleanup falls into a pull.                                   *)
(***************************************************************************)
EXTENDS OciStore, FiniteSetTheorems, SequenceTheorems, TLAPS

Ages == {"gone", "new", "old"}
Ops ==
  [do : {"commit"}, digest : Digests]
    \cup [do : {"link"}, repo : Repos, digest : Blobs]
    \cup [do : {"store"}, repo : Repos, digest : Manifests, as : {"pushed", "merged"}]
    \cup [do : {"revision"}, repo : Repos, digest : Manifests, as : {"none", "pushed", "merged"}]
    \cup [do : {"tags"}, repo : Repos, tags : [Tags -> Manifests \cup {None}]]

StoreTypes ==
  /\ blob \in [Digests -> Ages]
  /\ link \in [Repos -> [Blobs -> Ages]]
  /\ rev \in [Repos -> [Manifests -> {"none", "pushed", "merged"}]]
  /\ tags \in [Repos -> [Tags -> Manifests \cup {None}]]
  /\ deleted \subseteq Repos \X Digests

Process ==
  [op : {"idle", "blob", "mount", "put", "delete", "pull", "import", "clean"},
   repo : Repos \cup {None}, man : Manifests \cup {None}, tag : Tags \cup {None},
   left : SUBSET Blobs, locks : SUBSET {"registry", "repository"}, todo : Seq(Ops),
   marked : SUBSET Digests]
ProcTypes == proc \in [Processes -> Process]

(***************************************************************************)
(* What holds once the operations of D are done, D being what a process is *)
(* still to do before.                                                     *)
(***************************************************************************)
Adds(w) == w.do \in {"store", "revision"} /\ w.as # "none"
Drops(w) == w.do = "revision" /\ w.as = "none"

Committed(d, D) == InStore(d) \/ \E o \in D : o.do \in {"commit", "store"} /\ o.digest = d
LinkKept(r, b) == link[r][b] # "gone" \/ <<r, b>> \in deleted
Linked(r, b, D) == LinkKept(r, b) \/ \E o \in D : o.do = "link" /\ o.repo = r /\ o.digest = b
Revised(r, m, D) ==
  \/ <<r, m>> \in deleted
  \/ /\ HasRevision(r, m) \/ \E o \in D : Adds(o) /\ o.digest = m
     /\ \A o \in D : Drops(o) => o.digest # m

(* When a process may do w, the operations of D being done. *)
AddOK(q, w, D) ==
  /\ "registry" \in q.locks
  /\ w.do = "revision" => Committed(w.digest, D)
  /\ w.as = "merged" => w.digest \notin Images
  /\ w.digest \in Images =>
       \A b \in Needs(w.digest) : Committed(b, D) /\ Linked(q.repo, b, D)
  /\ \A i \in Entries(w.digest) : i = w.digest \/ Revised(q.repo, i, D)
DropOK(q, w, D) ==
  /\ \A o \in D : Adds(o) => o.digest # w.digest
  /\ \/ <<q.repo, w.digest>> \in deleted
     \/ /\ w.digest \notin Images
        /\ \A t \in Tags : tags[q.repo][t] # w.digest \/ \E o \in D : o.do = "tags"
        /\ \A o \in D : o.do = "tags" => \A t \in Tags : o.tags[t] # w.digest
TagsOK(q, w, D) == \A t \in Tags : w.tags[t] # None => Revised(q.repo, w.tags[t], D)
OpOK(q, w, D) ==
  /\ w.do \in {"store", "revision", "tags"} => "repository" \in q.locks /\ w.repo = q.repo
  /\ Adds(w) => AddOK(q, w, D)
  /\ Drops(w) => DropOK(q, w, D)
  /\ w.do = "tags" => TagsOK(q, w, D)

All(s) == {s[j] : j \in 1 .. Len(s)}
Before(s, k) == {s[j] : j \in 1 .. k - 1}
SeqOK(q, s, D) == \A k \in 1 .. Len(s) : OpOK(q, s[k], D \cup Before(s, k))

(***************************************************************************)
(* The inductive invariant.                                                *)
(***************************************************************************)
RevisionsAreWhole ==
  \A r \in Repos, m \in Manifests : HasRevision(r, m) =>
    /\ InStore(m)
    /\ m \in Images => \A b \in Needs(m) : InStore(b) /\ LinkKept(r, b)
    /\ \A i \in Entries(m) : Revised(r, i, {})
    /\ m \in Images => rev[r][m] # "merged"
TagsAreRevisions ==
  \A r \in Repos, t \in Tags : tags[r][t] # None => Revised(r, tags[r][t], {})
LocksExclude ==
  /\ \A p, q \in Processes :
       p # q /\ "repository" \in proc[p].locks /\ "repository" \in proc[q].locks
         => proc[p].repo # proc[q].repo
  /\ \A p, q \in Processes :
       p # q /\ proc[p].op = "clean" => "registry" \notin proc[q].locks
  /\ \A p, q \in Processes : proc[p].op = "clean" => proc[q].op # "pull"

(* Of the blobs of a pull or an import, those it has fetched stay. *)
Fetched(q) ==
  /\ q.op \in {"pull", "import"} => q.repo \in Repos /\ q.man \in Pushable /\ q.tag \in Tags
  /\ q.op = "pull" /\ "repository" \notin q.locks =>
       \A b \in BlobsOf(q.man) \ q.left :
         Committed(b, All(q.todo)) /\ Linked(q.repo, b, All(q.todo))
  /\ q.op = "import" /\ "repository" \notin q.locks =>
       /\ "registry" \in q.locks
       /\ \A b \in BlobsOf(q.man) : Committed(b, All(q.todo))
(* A cleanup has marked all that a revision needs. *)
Marked(q) ==
  q.op = "clean" =>
    /\ q.locks = {"registry"} /\ q.todo = <<>>
    /\ \A r \in Repos, m \in Manifests :
         HasRevision(r, m) => m \in q.marked /\ (m \in Images => Needs(m) \subseteq q.marked)
ProcOK(q) ==
  /\ "repository" \in q.locks \/ q.op = "mount" => q.repo \in Repos
  /\ SeqOK(q, q.todo, {})
  /\ Fetched(q) /\ Marked(q)

ProcsOK == \A p \in Processes, q \in Process : proc[p] = q => ProcOK(q)

IInv ==
  /\ StoreTypes /\ ProcTypes
  /\ RevisionsAreWhole /\ TagsAreRevisions /\ LocksExclude /\ ProcsOK

(***************************************************************************)
(* Content.                                                                *)
(***************************************************************************)
(* An index names images; an image has its own name only. *)
LEMMA ImageFacts ==
  ASSUME NEW i \in Images
  PROVE  /\ i \in Manifests /\ i \in Pushable /\ Entries(i) = {i} /\ IsImage(i)
         /\ Needs(i) \subseteq Blobs /\ BlobsOf(i) = Needs(i) /\ ConfigOf[i] \in Needs(i)
BY StoreAssumption DEF Manifests, Pushable, Entries, IsImage, Needs, BlobsOf

LEMMA IndexFacts ==
  ASSUME NEW S \in SUBSET Images, NEW by \in {"client", "registry"}
  PROVE  /\ Index(S, by) \notin Images /\ ~IsImage(Index(S, by))
         /\ Entries(Index(S, by)) = S /\ Index(S, by).of = S
         /\ by = "registry" /\ S # {} => Index(S, by) \in Manifests
<1>1. Index(S, by) \notin Images /\ ~IsImage(Index(S, by))
  BY StoreAssumption DEF IsImage
<1>2. Index(S, by).of = S
  BY DEF Index
<1>3. Entries(Index(S, by)) = S
  BY <1>1, <1>2 DEF Entries
<1>4. ASSUME by = "registry", S # {} PROVE Index(S, by) \in Manifests
  BY <1>4 DEF Manifests, Mergeable
<1> QED BY <1>1, <1>2, <1>3, <1>4

LEMMA ManifestFacts ==
  ASSUME NEW m \in Manifests
  PROVE  /\ Entries(m) \subseteq Images /\ m \in Digests /\ m \notin Blobs /\ m # None
         /\ BlobsOf(m) \subseteq Blobs
         /\ m \notin Images => Entries(m) = m.of
         /\ m \in Images => Entries(m) = {m}
<1>1. m \in Digests /\ m \notin Blobs /\ m # None
  BY StoreAssumption DEF Digests
<1>2. m \in Images => Entries(m) = {m}
  BY DEF Entries, IsImage
<1>3. m \notin Images => Entries(m) = m.of /\ Entries(m) \subseteq Images
  <2> SUFFICES ASSUME m \notin Images PROVE Entries(m) = m.of /\ Entries(m) \subseteq Images
    OBVIOUS
  <2>1. PICK S \in SUBSET Images, by \in {"client", "registry"} : m = Index(S, by)
    BY StoreAssumption DEF Manifests, Pushable, Mergeable
  <2> QED BY <2>1, IndexFacts
<1>4. Entries(m) \subseteq Images
  BY <1>2, <1>3
<1>5. BlobsOf(m) \subseteq Blobs
  BY <1>4, ImageFacts DEF BlobsOf
<1> QED BY <1>1, <1>2, <1>3, <1>4, <1>5

LEMMA PushableFacts ==
  /\ Pushable \subseteq Manifests
  /\ \A m \in Pushable : m \notin Images => m.of \in SUBSET Images
BY ManifestFacts, StoreAssumption, IndexFacts DEF Pushable, Manifests

LEMMA DigestFacts == Blobs \subseteq Digests /\ Manifests \subseteq Digests
BY DEF Digests

LEMMA OpFacts ==
  ASSUME NEW o \in Ops
  PROVE  /\ o.do \in {"commit", "link", "store", "revision", "tags"}
         /\ o.do = "commit" => o.digest \in Digests
         /\ o.do = "link" => o.repo \in Repos /\ o.digest \in Blobs
         /\ o.do = "store" => o.repo \in Repos /\ o.digest \in Manifests
                                /\ o.as \in {"pushed", "merged"}
         /\ o.do = "revision" => o.repo \in Repos /\ o.digest \in Manifests
                                   /\ o.as \in {"none", "pushed", "merged"}
         /\ o.do = "tags" => o.repo \in Repos /\ o.tags \in [Tags -> Manifests \cup {None}]
BY DEF Ops

LEMMA OpsAre ==
  /\ \A d \in Digests : CommitBlob(d) \in Ops
  /\ \A r \in Repos, b \in Blobs : LinkBlob(r, b) \in Ops
  /\ \A r \in Repos, m \in Manifests, as \in {"pushed", "merged"} : StoreManifest(r, m, as) \in Ops
  /\ \A r \in Repos, m \in Manifests, as \in {"none", "pushed", "merged"} :
       WriteRevision(r, m, as) \in Ops
  /\ \A r \in Repos, to \in [Tags -> Manifests \cup {None}] : WriteTags(r, to) \in Ops
BY DEF Ops, CommitBlob, LinkBlob, StoreManifest, WriteRevision, WriteTags
(***************************************************************************)
(* What an operation does to what the others count on.                     *)
(***************************************************************************)
Rest(h) == IF h.do = "store" THEN {WriteRevision(h.repo, h.digest, h.as)} ELSE {}

LEMMA RestFacts ==
  ASSUME NEW h \in Ops
  PROVE  /\ Rest(h) \subseteq Ops
         /\ \A o \in Rest(h) : /\ h.do = "store" /\ Adds(h) /\ Adds(o) /\ ~Drops(o)
                               /\ o.do = "revision" /\ o.digest = h.digest
         /\ h.do = "store" => \E o \in Rest(h) : Adds(o) /\ o.digest = h.digest
         /\ h.do = "store" => Rest(h) = {WriteRevision(h.repo, h.digest, h.as)}
         /\ h.do # "store" => Rest(h) = {}
<1>1. CASE h.do # "store"
  BY <1>1 DEF Rest
<1>2. CASE h.do = "store"
  <2> DEFINE o == WriteRevision(h.repo, h.digest, h.as)
  <2>1. h.repo \in Repos /\ h.digest \in Manifests /\ h.as \in {"pushed", "merged"}
    BY <1>2, OpFacts
  <2>2. o \in Ops
    BY <2>1, OpsAre
  <2>3. o.do = "revision" /\ o.digest = h.digest /\ o.as = h.as
    BY DEF WriteRevision
  <2>4. Adds(h) /\ Adds(o) /\ ~Drops(o)
    BY <1>2, <2>1, <2>3 DEF Adds, Drops
  <2>5. Rest(h) = {o}
    BY <1>2 DEF Rest
  <2> QED BY <1>2, <2>2, <2>3, <2>4, <2>5
<1> QED BY <1>1, <1>2

(* The effects of one operation. *)
LEMMA Effects ==
  ASSUME StoreTypes, NEW h \in Ops, Applies(h)
  PROVE  /\ StoreTypes'
         /\ \A d \in Digests : InStore(d) => InStore(d)'
         /\ h.do \in {"commit", "store"} => InStore(h.digest)'
         /\ \A r \in Repos, b \in Blobs : LinkKept(r, b) => LinkKept(r, b)'
         /\ h.do = "link" => LinkKept(h.repo, h.digest)'
         /\ \A r \in Repos, m \in Manifests :
              (h.do = "revision" /\ r = h.repo /\ m = h.digest) \/ rev'[r][m] = rev[r][m]
         /\ h.do = "revision" => rev'[h.repo][h.digest] = h.as
         /\ \A r \in Repos : (h.do = "tags" /\ r = h.repo) \/ tags'[r] = tags[r]
         /\ h.do = "tags" => tags'[h.repo] = h.tags
         /\ \A r \in Repos, m \in Manifests :
              (h.do = "revision" /\ Adds(h) /\ r = h.repo /\ m = h.digest)
                \/ (<<r, m>> \in deleted => <<r, m>> \in deleted')
         /\ deleted' \subseteq deleted
<1>1. CASE h.do = "commit"
  <2>1. /\ blob' = [blob EXCEPT ![h.digest] = "new"] /\ UNCHANGED <<link, rev, tags, deleted>>
        /\ h.digest \in Digests
    BY <1>1, OpFacts DEF Applies
  <2> QED BY <1>1, <2>1 DEF StoreTypes, Ages, InStore, LinkKept
<1>2. CASE h.do = "store"
  <2>1. /\ blob' = [blob EXCEPT ![h.digest] = "new"] /\ UNCHANGED <<link, rev, tags, deleted>>
        /\ h.digest \in Digests
    BY <1>2, OpFacts, ManifestFacts DEF Applies
  <2> QED BY <1>2, <2>1 DEF StoreTypes, Ages, InStore, LinkKept
<1>3. CASE h.do = "link"
  <2>1. /\ link' = [link EXCEPT ![h.repo][h.digest] = "new"] /\ UNCHANGED <<blob, rev, tags>>
        /\ deleted' = deleted \ {<<h.repo, h.digest>>}
        /\ h.repo \in Repos /\ h.digest \in Blobs
    BY <1>3, OpFacts DEF Applies
  <2>2. \A m \in Manifests : m # h.digest
    BY <2>1, ManifestFacts
  <2>3. link' \in [Repos -> [Blobs -> Ages]]
    BY <2>1 DEF StoreTypes, Ages
  <2>4. \A r \in Repos, b \in Blobs :
          link'[r][b] = IF r = h.repo /\ b = h.digest THEN "new" ELSE link[r][b]
    BY <2>1 DEF StoreTypes
  <2> QED BY <1>3, <2>1, <2>2, <2>3, <2>4 DEF StoreTypes, InStore, LinkKept
<1>4. CASE h.do = "revision"
  <2>1. /\ rev' = [rev EXCEPT ![h.repo][h.digest] = h.as] /\ UNCHANGED <<blob, link, tags>>
        /\ deleted' = IF Adds(h) THEN deleted \ {<<h.repo, h.digest>>} ELSE deleted
        /\ h.repo \in Repos /\ h.digest \in Manifests /\ h.as \in {"none", "pushed", "merged"}
    BY <1>4, OpFacts DEF Applies, Adds
  <2>2. \A b \in Blobs : b # h.digest
    BY <2>1, ManifestFacts
  <2>3. rev' \in [Repos -> [Manifests -> {"none", "pushed", "merged"}]]
    BY <2>1 DEF StoreTypes
  <2>4. \A r \in Repos, m \in Manifests :
          rev'[r][m] = IF r = h.repo /\ m = h.digest THEN h.as ELSE rev[r][m]
    BY <2>1 DEF StoreTypes
  <2> QED BY <1>4, <2>1, <2>2, <2>3, <2>4 DEF StoreTypes, InStore, LinkKept
<1>5. CASE h.do = "tags"
  <2>1. /\ tags' = [tags EXCEPT ![h.repo] = h.tags] /\ UNCHANGED <<blob, link, rev, deleted>>
        /\ h.repo \in Repos /\ h.tags \in [Tags -> Manifests \cup {None}]
    BY <1>5, OpFacts DEF Applies
  <2> QED BY <1>5, <2>1 DEF StoreTypes, InStore, LinkKept
<1> QED BY <1>1, <1>2, <1>3, <1>4, <1>5, OpFacts

(* What was to hold after an operation and others holds after the others. *)
LEMMA CommittedStays ==
  ASSUME StoreTypes, NEW h \in Ops, Applies(h), NEW C, NEW d \in Digests,
         Committed(d, {h} \cup C)
  PROVE  Committed(d, Rest(h) \cup C)'
BY Effects DEF Committed

LEMMA LinkedStays ==
  ASSUME StoreTypes, NEW h \in Ops, Applies(h), NEW C, NEW r \in Repos, NEW b \in Blobs,
         Linked(r, b, {h} \cup C)
  PROVE  Linked(r, b, Rest(h) \cup C)'
BY Effects DEF Linked

LEMMA RevisedStays ==
  ASSUME StoreTypes, NEW h \in Ops, Applies(h), NEW C, NEW r \in Repos, NEW m \in Manifests,
         Revised(r, m, {h} \cup C),
         h.do \in {"store", "revision", "tags"} => h.repo = r,
         \A o \in C : Drops(o) /\ Adds(h) => o.digest # h.digest
  PROVE  Revised(r, m, Rest(h) \cup C)'
<1>1. \A o \in Rest(h) : ~Drops(o)
  BY RestFacts
<1>2. CASE h.do = "revision" /\ Adds(h) /\ m = h.digest
  <2>1. HasRevision(r, m)'
    BY <1>2, Effects DEF HasRevision, Adds
  <2> QED BY <1>1, <1>2, <2>1 DEF Revised
<1>3. CASE ~(h.do = "revision" /\ Adds(h) /\ m = h.digest)
  <2>1. <<r, m>> \in deleted => <<r, m>> \in deleted'
    BY <1>3, Effects
  <2>2. CASE <<r, m>> \notin deleted
    <3>1. \A o \in C : Drops(o) => o.digest # m
      BY <2>2 DEF Revised
    <3>2. HasRevision(r, m) => HasRevision(r, m)'
      <4>1. CASE h.do = "revision" /\ m = h.digest
        BY <4>1, <1>3, <2>2 DEF Revised, Drops, Adds
      <4> QED BY <4>1, Effects DEF HasRevision
    <3>3. ASSUME Adds(h), h.digest = m PROVE \E o \in Rest(h) : Adds(o) /\ o.digest = m
      BY <1>3, <3>3, RestFacts DEF Adds
    <3>4. HasRevision(r, m) \/ \E o \in {h} \cup C : Adds(o) /\ o.digest = m
      BY <2>2 DEF Revised
    <3>5. HasRevision(r, m)' \/ \E o \in Rest(h) \cup C : Adds(o) /\ o.digest = m
      BY <3>2, <3>3, <3>4
    <3> QED BY <1>1, <3>1, <3>5 DEF Revised
  <2> QED BY <2>1, <2>2 DEF Revised
<1> QED BY <1>2, <1>3
LEMMA OpStays ==
  ASSUME StoreTypes, NEW q \in Process, NEW h \in Ops, Applies(h), NEW C, NEW w \in Ops,
         OpOK(q, w, {h} \cup C),
         "repository" \in q.locks => q.repo \in Repos,
         h.do \in {"store", "revision", "tags"} => h.repo = q.repo,
         \A o \in C : Drops(o) /\ Adds(h) => o.digest # h.digest
  PROVE  OpOK(q, w, Rest(h) \cup C)'
<1>1. w.do \in {"store", "revision", "tags"} =>
        "repository" \in q.locks /\ w.repo = q.repo /\ q.repo \in Repos
  BY DEF OpOK
<1>2. ASSUME Adds(w) PROVE AddOK(q, w, Rest(h) \cup C)'
  <2>1. AddOK(q, w, {h} \cup C) /\ w.digest \in Manifests /\ w.digest \in Digests /\ q.repo \in Repos
    BY <1>1, <1>2, OpFacts, ManifestFacts DEF OpOK, Adds
  <2>2. w.do = "revision" => Committed(w.digest, Rest(h) \cup C)'
    BY <2>1, CommittedStays DEF AddOK
  <2>3. ASSUME w.digest \in Images, NEW b \in Needs(w.digest)
        PROVE  Committed(b, Rest(h) \cup C)' /\ Linked(q.repo, b, Rest(h) \cup C)'
    <3>1. b \in Blobs /\ b \in Digests
      BY <2>3, ImageFacts, DigestFacts
    <3>2. Committed(b, {h} \cup C) /\ Linked(q.repo, b, {h} \cup C)
      BY <2>1, <2>3 DEF AddOK
    <3> QED BY <2>1, <3>1, <3>2, CommittedStays, LinkedStays
  <2>4. ASSUME NEW i \in Entries(w.digest), i # w.digest
        PROVE  Revised(q.repo, i, Rest(h) \cup C)'
    <3>1. i \in Manifests /\ Revised(q.repo, i, {h} \cup C)
      BY <2>1, <2>4, ManifestFacts, ImageFacts DEF AddOK
    <3> QED BY <2>1, <3>1, RevisedStays
  <2> QED BY <2>1, <2>2, <2>3, <2>4 DEF AddOK
<1>3. ASSUME Drops(w) PROVE DropOK(q, w, Rest(h) \cup C)'
  <2>1. /\ DropOK(q, w, {h} \cup C) /\ w.digest \in Manifests /\ q.repo \in Repos
    BY <1>1, <1>3, OpFacts DEF OpOK, Drops
  <2>2. \A o \in Rest(h) \cup C : Adds(o) => o.digest # w.digest
    BY <2>1, RestFacts DEF DropOK
  <2>3. <<q.repo, w.digest>> \in deleted => <<q.repo, w.digest>> \in deleted'
    BY <2>1, Effects DEF DropOK
  <2>4. CASE <<q.repo, w.digest>> \notin deleted
    <3>1. /\ w.digest \notin Images
          /\ \A t \in Tags : tags[q.repo][t] # w.digest \/ \E o \in {h} \cup C : o.do = "tags"
          /\ \A o \in {h} \cup C : o.do = "tags" => \A t \in Tags : o.tags[t] # w.digest
      BY <2>1, <2>4 DEF DropOK
    <3>2. \A o \in Rest(h) \cup C : o.do = "tags" => \A t \in Tags : o.tags[t] # w.digest
      BY <3>1, RestFacts
    <3>3. ASSUME ~\E o \in C : o.do = "tags"
          PROVE  \A t \in Tags : tags'[q.repo][t] # w.digest
      <4>1. CASE h.do = "tags"
        BY <3>1, <4>1, Effects
      <4>2. CASE h.do # "tags"
        BY <2>1, <3>1, <3>3, <4>2, Effects
      <4> QED BY <4>1, <4>2
    <3> QED BY <2>2, <3>1, <3>2, <3>3 DEF DropOK
  <2> QED BY <2>2, <2>3, <2>4 DEF DropOK
<1>4. ASSUME w.do = "tags" PROVE TagsOK(q, w, Rest(h) \cup C)'
  <2>1. TagsOK(q, w, {h} \cup C) /\ w.tags \in [Tags -> Manifests \cup {None}] /\ q.repo \in Repos
    BY <1>1, <1>4, OpFacts DEF OpOK
  <2>2. ASSUME NEW t \in Tags, w.tags[t] # None
        PROVE  Revised(q.repo, w.tags[t], Rest(h) \cup C)'
    <3>1. w.tags[t] \in Manifests /\ Revised(q.repo, w.tags[t], {h} \cup C)
      BY <2>1, <2>2 DEF TagsOK
    <3> QED BY <2>1, <3>1, RevisedStays
  <2> QED BY <2>2 DEF TagsOK
<1> QED BY <1>1, <1>2, <1>3, <1>4 DEF OpOK

(***************************************************************************)
(* What is still to do.                                                    *)
(***************************************************************************)
Ahead(s) ==
  IF Head(s).do = "store" THEN [s EXCEPT ![1].do = "revision"] ELSE Tail(s)

LEMMA AheadFacts ==
  ASSUME NEW s \in Seq(Ops), s # <<>>
  PROVE  /\ Head(s) \in Ops /\ Head(s) = s[1] /\ Len(s) \in Nat /\ Len(s) > 0
         /\ Ahead(s) \in Seq(Ops)
         /\ Head(s).do = "store" =>
              /\ Len(Ahead(s)) = Len(s)
              /\ Ahead(s)[1] = WriteRevision(Head(s).repo, Head(s).digest, Head(s).as)
              /\ \A k \in 2 .. Len(s) : Ahead(s)[k] = s[k]
         /\ Head(s).do # "store" =>
              Len(Ahead(s)) = Len(s) - 1 /\ \A k \in 1 .. Len(s) - 1 : Ahead(s)[k] = s[k + 1]
<1>1. Head(s) \in Ops /\ Head(s) = s[1] /\ Len(s) \in Nat /\ Len(s) > 0
  BY LenProperties, EmptySeq, HeadTailProperties
<1>2. CASE Head(s).do # "store"
  BY <1>1, <1>2, HeadTailProperties DEF Ahead
<1>3. CASE Head(s).do = "store"
  <2> DEFINE h == Head(s)
             w == WriteRevision(h.repo, h.digest, h.as)
  <2>1. h.repo \in Repos /\ h.digest \in Manifests /\ h.as \in {"pushed", "merged"}
    BY <1>1, <1>3, OpFacts
  <2>2. w \in Ops
    BY <2>1, OpsAre
  <2>3. h \in [do : {"store"}, repo : Repos, digest : Manifests, as : {"pushed", "merged"}]
    BY <1>1, <1>3 DEF Ops
  <2>4. [h EXCEPT !.do = "revision"] = w
    BY <2>3 DEF WriteRevision
  <2>5. Ahead(s) = [s EXCEPT ![1] = w]
    BY <1>1, <1>3, <2>4 DEF Ahead
  <2>6. 1 \in 1 .. Len(s)
    BY <1>1
  <2>7. /\ [s EXCEPT ![1] = w] \in Seq(Ops) /\ Len([s EXCEPT ![1] = w]) = Len(s)
        /\ \A j \in 1 .. Len(s) : [s EXCEPT ![1] = w][j] = IF j = 1 THEN w ELSE s[j]
    BY <2>2, <2>6, ExceptSeq
  <2>8. \A k \in 2 .. Len(s) : k \in 1 .. Len(s) /\ k # 1
    BY <1>1
  <2> HIDE DEF w
  <2>9. Ahead(s) \in Seq(Ops) /\ Len(Ahead(s)) = Len(s) /\ Ahead(s)[1] = w
    BY <2>5, <2>6, <2>7
  <2>10. \A k \in 2 .. Len(s) : Ahead(s)[k] = s[k]
    BY <2>5, <2>7, <2>8
  <2> QED BY <1>1, <1>3, <2>9, <2>10 DEF w
<1> QED BY <1>2, <1>3, <1>1
Later(s, k) == {s[j] : j \in 2 .. k}

LEMMA AheadParts ==
  ASSUME NEW s \in Seq(Ops), s # <<>>
  PROVE  /\ All(s) = {Head(s)} \cup Later(s, Len(s))
         /\ All(Ahead(s)) = Rest(Head(s)) \cup Later(s, Len(s))
         /\ \A k \in 2 .. Len(s) : Before(s, k) = {Head(s)} \cup Later(s, k - 1)
         /\ \A k \in 1 .. Len(Ahead(s)) :
              \/ Head(s).do = "store" /\ k = 1
              \/ \E j \in 2 .. Len(s) : /\ Ahead(s)[k] = s[j]
                                        /\ Before(Ahead(s), k) = Rest(Head(s)) \cup Later(s, j - 1)
<1> DEFINE h == Head(s)
<1>1. h = s[1] /\ h \in Ops /\ Len(s) \in Nat /\ Len(s) > 0
  BY AheadFacts
<1>2. All(s) = {h} \cup Later(s, Len(s))
  BY <1>1 DEF All, Later
<1>3. \A k \in 2 .. Len(s) : Before(s, k) = {h} \cup Later(s, k - 1)
  BY <1>1 DEF Before, Later
<1>4. CASE h.do = "store"
  <2> DEFINE w == WriteRevision(h.repo, h.digest, h.as)
  <2>1. /\ Len(Ahead(s)) = Len(s) /\ Ahead(s)[1] = w
        /\ \A k \in 2 .. Len(s) : Ahead(s)[k] = s[k]
    BY <1>4, AheadFacts
  <2>2. Rest(h) = {w}
    BY <1>1, <1>4, RestFacts
  <2> HIDE DEF w, h
  <2>3. All(Ahead(s)) = {w} \cup Later(s, Len(s))
    BY <1>1, <2>1 DEF All, Later
  <2>4. \A k \in 2 .. Len(s) : Before(Ahead(s), k) = {w} \cup Later(s, k - 1)
    BY <1>1, <2>1 DEF Before, Later
  <2>5. \A k \in 1 .. Len(s) : k = 1 \/ k \in 2 .. Len(s)
    BY <1>1
  <2> QED BY <1>2, <1>3, <1>4, <2>1, <2>2, <2>3, <2>4, <2>5 DEF h
<1>5. CASE h.do # "store"
  <2>1. Len(Ahead(s)) = Len(s) - 1 /\ \A k \in 1 .. Len(s) - 1 : Ahead(s)[k] = s[k + 1]
    BY <1>5, AheadFacts
  <2>2. Rest(h) = {}
    BY <1>1, <1>5, RestFacts
  <2> HIDE DEF h
  <2>3. All(Ahead(s)) = Later(s, Len(s))
    <3>1. All(Ahead(s)) = {s[j + 1] : j \in 1 .. Len(s) - 1}
      BY <1>1, <2>1 DEF All
    <3>2. ASSUME NEW j \in 2 .. Len(s) PROVE s[j] \in {s[i + 1] : i \in 1 .. Len(s) - 1}
      <4>1. j - 1 \in 1 .. Len(s) - 1 /\ (j - 1) + 1 = j
        BY <1>1
      <4> QED BY <4>1
    <3>3. \A j \in 1 .. Len(s) - 1 : j + 1 \in 2 .. Len(s)
      BY <1>1
    <3> QED BY <3>1, <3>2, <3>3 DEF Later
  <2>4. ASSUME NEW k \in 1 .. Len(s) - 1
        PROVE  /\ k + 1 \in 2 .. Len(s) /\ Ahead(s)[k] = s[k + 1]
               /\ Before(Ahead(s), k) = Later(s, (k + 1) - 1)
    <3>1. k + 1 \in 2 .. Len(s) /\ Ahead(s)[k] = s[k + 1] /\ (k + 1) - 1 = k
      BY <1>1, <2>1
    <3>2. \A j \in 1 .. k - 1 : j \in 1 .. Len(s) - 1 /\ j + 1 \in 2 .. k
      BY <1>1
    <3>3. Before(Ahead(s), k) = {s[j + 1] : j \in 1 .. k - 1}
      BY <2>1, <3>2 DEF Before
    <3>4. ASSUME NEW j \in 2 .. k PROVE s[j] \in {s[i + 1] : i \in 1 .. k - 1}
      <4>1. j - 1 \in 1 .. k - 1 /\ (j - 1) + 1 = j
        BY <1>1
      <4> QED BY <4>1
    <3> QED BY <3>1, <3>2, <3>3, <3>4 DEF Later
  <2> QED BY <1>2, <1>3, <1>5, <2>1, <2>2, <2>3, <2>4 DEF h
<1> QED BY <1>4, <1>5

(* After the first operation, what is left may still be done. *)
LEMMA AheadOK ==
  ASSUME StoreTypes, NEW q \in Process, NEW s \in Seq(Ops), s # <<>>,
         SeqOK(q, s, {}), Applies(Head(s)), "repository" \in q.locks => q.repo \in Repos
  PROVE  SeqOK(q, Ahead(s), {})'
<1> DEFINE h == Head(s)
<1>1. h = s[1] /\ h \in Ops /\ Len(s) \in Nat /\ Len(s) > 0 /\ Ahead(s) \in Seq(Ops)
  BY AheadFacts
<1>2. OpOK(q, h, {})
  <2>1. 1 \in 1 .. Len(s) /\ Before(s, 1) = {}
    BY <1>1 DEF Before
  <2> QED BY <1>1, <2>1 DEF SeqOK
<1>3. h.do \in {"store", "revision", "tags"} => h.repo = q.repo /\ q.repo \in Repos
  BY <1>2 DEF OpOK
<1>4. \A j \in 2 .. Len(s) : /\ OpOK(q, s[j], {h} \cup Later(s, j - 1)) /\ s[j] \in Ops
                             /\ j \in 1 .. Len(s)
  <2>1. \A j \in 2 .. Len(s) : j \in 1 .. Len(s)
    BY <1>1
  <2>2. \A j \in 1 .. Len(s) : OpOK(q, s[j], Before(s, j)) /\ s[j] \in Ops
    BY ElementOfSeq DEF SeqOK
  <2> QED BY <2>1, <2>2, AheadParts
<1>5. \A j \in 2 .. Len(s) : Drops(s[j]) /\ Adds(h) => s[j].digest # h.digest
  BY <1>4 DEF OpOK, DropOK
<1>6. ASSUME h.do = "store"
      PROVE  OpOK(q, WriteRevision(h.repo, h.digest, h.as), {})'
  <2> DEFINE w == WriteRevision(h.repo, h.digest, h.as)
  <2>1. h.digest \in Manifests /\ h.as \in {"pushed", "merged"} /\ Adds(h)
    BY <1>1, <1>6, OpFacts DEF Adds
  <2>2. w.do = "revision" /\ w.repo = h.repo /\ w.digest = h.digest /\ w.as = h.as
    BY DEF WriteRevision
  <2>3. AddOK(q, h, {})
    BY <1>2, <2>1 DEF OpOK
  <2>4. InStore(h.digest)'
    BY <1>1, <1>6, Effects
  <2>5. ASSUME h.digest \in Images, NEW b \in Needs(h.digest)
        PROVE  Committed(b, {})' /\ Linked(q.repo, b, {})'
    <3>1. b \in Blobs /\ b \in Digests /\ Committed(b, {}) /\ Linked(q.repo, b, {})
      BY <2>3, <2>5, ImageFacts, DigestFacts DEF AddOK
    <3> QED BY <1>1, <1>3, <1>6, <3>1, Effects DEF Committed, Linked
  <2>6. ASSUME NEW i \in Entries(h.digest), i # h.digest
        PROVE  Revised(q.repo, i, {})'
    <3>1. i \in Manifests /\ Revised(q.repo, i, {})
      BY <2>1, <2>3, <2>6, ManifestFacts, ImageFacts DEF AddOK
    <3>2. /\ rev'[q.repo][i] = rev[q.repo][i]
          /\ <<q.repo, i>> \in deleted => <<q.repo, i>> \in deleted'
      BY <1>1, <1>3, <1>6, <3>1, Effects
    <3> QED BY <3>1, <3>2 DEF Revised, HasRevision
  <2> HIDE DEF w
  <2>7. AddOK(q, w, {})'
    BY <2>2, <2>3, <2>4, <2>5, <2>6 DEF AddOK, Committed
  <2> QED BY <1>2, <1>6, <2>1, <2>2, <2>7 DEF OpOK, Drops, w
<1>7. ASSUME NEW k \in 1 .. Len(Ahead(s))
      PROVE  OpOK(q, Ahead(s)[k], {} \cup Before(Ahead(s), k))'
  <2>1. CASE h.do = "store" /\ k = 1
    <3>1. Ahead(s)[1] = WriteRevision(h.repo, h.digest, h.as) /\ Before(Ahead(s), 1) = {}
      BY <2>1, AheadFacts DEF Before
    <3> QED BY <1>6, <2>1, <3>1
  <2>2. CASE ~(h.do = "store" /\ k = 1)
    <3>1. PICK j \in 2 .. Len(s) : /\ Ahead(s)[k] = s[j]
                                   /\ Before(Ahead(s), k) = Rest(h) \cup Later(s, j - 1)
      BY <2>2, AheadParts
    <3>2. \A o \in Later(s, j - 1) : Drops(o) /\ Adds(h) => o.digest # h.digest
      <4>1. \A i \in 2 .. j - 1 : i \in 2 .. Len(s)
        BY <1>1
      <4> QED BY <1>5, <4>1 DEF Later
    <3>3. OpOK(q, s[j], {h} \cup Later(s, j - 1)) /\ s[j] \in Ops
      BY <1>4
    <3>4. OpOK(q, s[j], Rest(h) \cup Later(s, j - 1))'
      BY <1>1, <1>3, <3>2, <3>3, OpStays
    <3> QED BY <3>1, <3>4
  <2> QED BY <2>1, <2>2
<1> QED BY <1>7 DEF SeqOK
(***************************************************************************)
(* What a process counts on outlasts the steps of the others.              *)
(***************************************************************************)
LEMMA OthersKeepOps ==
  ASSUME NEW q \in Process, NEW D, NEW w \in Ops, OpOK(q, w, D),
         "repository" \in q.locks => q.repo \in Repos,
         "registry" \in q.locks =>
           /\ \A d \in Digests : InStore(d) => InStore(d)'
           /\ \A r \in Repos, b \in Blobs : LinkKept(r, b) => LinkKept(r, b)',
         "repository" \in q.locks =>
           /\ tags'[q.repo] = tags[q.repo]
           /\ \A m \in Manifests : /\ rev'[q.repo][m] = rev[q.repo][m]
                                   /\ <<q.repo, m>> \in deleted => <<q.repo, m>> \in deleted'
  PROVE  OpOK(q, w, D)'
<1>1. w.do \in {"store", "revision", "tags"} =>
        "repository" \in q.locks /\ w.repo = q.repo /\ q.repo \in Repos
  BY DEF OpOK
<1>2. ASSUME "repository" \in q.locks, NEW m \in Manifests, Revised(q.repo, m, D)
      PROVE  Revised(q.repo, m, D)'
  BY <1>2 DEF Revised, HasRevision
<1>3. ASSUME Adds(w) PROVE AddOK(q, w, D)'
  <2>1. AddOK(q, w, D) /\ w.digest \in Manifests /\ w.digest \in Digests
    BY <1>3, OpFacts, ManifestFacts DEF OpOK, Adds
  <2>2. /\ "registry" \in q.locks /\ "repository" \in q.locks /\ q.repo \in Repos
    BY <1>1, <1>3, <2>1 DEF Adds, AddOK
  <2>3. w.do = "revision" => Committed(w.digest, D)'
    BY <2>1, <2>2 DEF AddOK, Committed
  <2>4. ASSUME w.digest \in Images, NEW b \in Needs(w.digest)
        PROVE  Committed(b, D)' /\ Linked(q.repo, b, D)'
    <3>1. b \in Blobs /\ b \in Digests /\ Committed(b, D) /\ Linked(q.repo, b, D)
      BY <2>1, <2>4, ImageFacts, DigestFacts DEF AddOK
    <3> QED BY <2>2, <3>1 DEF Committed, Linked
  <2>5. ASSUME NEW i \in Entries(w.digest), i # w.digest
        PROVE  Revised(q.repo, i, D)'
    <3>1. i \in Manifests /\ Revised(q.repo, i, D)
      BY <2>1, <2>5, ManifestFacts, ImageFacts DEF AddOK
    <3> QED BY <1>2, <2>2, <3>1
  <2> QED BY <2>1, <2>3, <2>4, <2>5 DEF AddOK
<1>4. ASSUME Drops(w) PROVE DropOK(q, w, D)'
  <2>1. DropOK(q, w, D) /\ w.digest \in Manifests /\ "repository" \in q.locks
    BY <1>1, <1>4, OpFacts DEF OpOK, Drops
  <2> QED BY <2>1 DEF DropOK
<1>5. ASSUME w.do = "tags" PROVE TagsOK(q, w, D)'
  <2>1. /\ TagsOK(q, w, D) /\ w.tags \in [Tags -> Manifests \cup {None}]
        /\ "repository" \in q.locks
    BY <1>1, <1>5, OpFacts DEF OpOK
  <2>2. ASSUME NEW t \in Tags, w.tags[t] # None PROVE Revised(q.repo, w.tags[t], D)'
    BY <1>2, <2>1, <2>2 DEF TagsOK
  <2> QED BY <2>2 DEF TagsOK
<1> QED BY <1>1, <1>3, <1>4, <1>5 DEF OpOK

LEMMA OthersKeep ==
  ASSUME NEW q \in Process, ProcOK(q),
         "registry" \in q.locks \/ q.op = "pull" =>
           /\ \A d \in Digests : InStore(d) => InStore(d)'
           /\ \A r \in Repos, b \in Blobs : LinkKept(r, b) => LinkKept(r, b)',
         "repository" \in q.locks =>
           /\ tags'[q.repo] = tags[q.repo]
           /\ \A m \in Manifests : /\ rev'[q.repo][m] = rev[q.repo][m]
                                   /\ <<q.repo, m>> \in deleted => <<q.repo, m>> \in deleted',
         q.op = "clean" => \A r \in Repos, m \in Manifests : HasRevision(r, m)' => HasRevision(r, m)
  PROVE  ProcOK(q)'
<1>1. q.todo \in Seq(Ops) /\ q.left \subseteq Blobs
  BY DEF Process
<1>2. ASSUME NEW k \in 1 .. Len(q.todo)
      PROVE  OpOK(q, q.todo[k], {} \cup Before(q.todo, k))'
  <2>1. OpOK(q, q.todo[k], {} \cup Before(q.todo, k)) /\ q.todo[k] \in Ops
    BY <1>1, ElementOfSeq DEF ProcOK, SeqOK
  <2>2. "repository" \in q.locks => q.repo \in Repos
    BY DEF ProcOK
  <2> QED BY <2>1, <2>2, OthersKeepOps
<1>3. Fetched(q)'
  <2>1. Fetched(q)
    BY DEF ProcOK
  <2>2. ASSUME q.op \in {"pull", "import"} PROVE BlobsOf(q.man) \subseteq Blobs
    BY <2>1, <2>2, PushableFacts, ManifestFacts DEF Fetched
  <2>3. ASSUME q.op = "pull", "repository" \notin q.locks, NEW b \in BlobsOf(q.man) \ q.left
        PROVE  Committed(b, All(q.todo))' /\ Linked(q.repo, b, All(q.todo))'
    <3>1. /\ b \in Blobs /\ b \in Digests /\ q.repo \in Repos
          /\ Committed(b, All(q.todo)) /\ Linked(q.repo, b, All(q.todo))
      BY <2>1, <2>2, <2>3, DigestFacts DEF Fetched
    <3> QED BY <2>3, <3>1 DEF Committed, Linked
  <2>4. ASSUME q.op = "import", "repository" \notin q.locks, NEW b \in BlobsOf(q.man)
        PROVE  Committed(b, All(q.todo))'
    <3>1. b \in Digests /\ Committed(b, All(q.todo)) /\ "registry" \in q.locks
      BY <2>1, <2>2, <2>4, DigestFacts DEF Fetched
    <3> QED BY <3>1 DEF Committed
  <2> QED BY <2>1, <2>3, <2>4 DEF Fetched
<1>4. Marked(q)'
  BY DEF ProcOK, Marked
<1> QED BY <1>2, <1>3, <1>4 DEF ProcOK, SeqOK

(***************************************************************************)
(* What a process sets out to do.                                          *)
(***************************************************************************)
LEMMA OneOp ==
  ASSUME NEW q, NEW w \in Ops, NEW D, OpOK(q, w, D)
  PROVE  <<w>> \in Seq(Ops) /\ SeqOK(q, <<w>>, D) /\ All(<<w>>) = {w}
<1>1. Before(<<w>>, 1) = {} /\ Len(<<w>>) = 1 /\ <<w>>[1] = w
  BY DEF Before
<1> QED BY <1>1 DEF SeqOK, All

LEMMA NoOp ==
  ASSUME NEW q, NEW D
  PROVE  <<>> \in Seq(Ops) /\ SeqOK(q, <<>>, D) /\ All(<<>>) = {}
BY DEF SeqOK, All

LEMMA OpsThenOps ==
  ASSUME NEW q, NEW s \in Seq(Ops), NEW u \in Seq(Ops), NEW D,
         SeqOK(q, s, D), SeqOK(q, u, D \cup All(s))
  PROVE  s \o u \in Seq(Ops) /\ SeqOK(q, s \o u, D) /\ All(s \o u) = All(s) \cup All(u)
<1> DEFINE n == Len(s)
<1>1. /\ s \o u \in Seq(Ops) /\ Len(s \o u) = n + Len(u) /\ n \in Nat /\ Len(u) \in Nat
      /\ \A i \in 1 .. n + Len(u) : (s \o u)[i] = IF i <= n THEN s[i] ELSE u[i - n]
  BY ConcatProperties, LenProperties
<1> HIDE DEF n
<1>2. \A j \in 1 .. Len(u) : n + j \in 1 .. n + Len(u) /\ (s \o u)[n + j] = u[j]
  <2>1. ASSUME NEW j \in 1 .. Len(u)
        PROVE  n + j \in 1 .. n + Len(u) /\ ~(n + j <= n) /\ (n + j) - n = j
    BY <1>1
  <2> QED BY <1>1, <2>1
<1>3. \A j \in 1 .. n : j \in 1 .. n + Len(u) /\ (s \o u)[j] = s[j]
  BY <1>1
<1>4. \A i \in 1 .. n + Len(u) : i \in 1 .. n \/ \E j \in 1 .. Len(u) : i = n + j
  <2>1. ASSUME NEW i \in 1 .. n + Len(u), ~(i <= n)
        PROVE  i - n \in 1 .. Len(u) /\ i = n + (i - n)
    BY <1>1, <2>1
  <2> QED BY <1>1, <2>1
<1>5. All(s \o u) = All(s) \cup All(u)
  <2>1. All(s \o u) = {(s \o u)[i] : i \in 1 .. n + Len(u)}
    BY <1>1 DEF All
  <2>2. All(s) = {s[j] : j \in 1 .. n} /\ All(u) = {u[j] : j \in 1 .. Len(u)}
    BY DEF All, n
  <2>3. ASSUME NEW i \in 1 .. n + Len(u) PROVE (s \o u)[i] \in All(s) \cup All(u)
    BY <1>2, <1>3, <1>4, <2>2
  <2>4. ASSUME NEW j \in 1 .. n PROVE s[j] \in All(s \o u)
    BY <1>3, <2>1
  <2>5. ASSUME NEW j \in 1 .. Len(u) PROVE u[j] \in All(s \o u)
    BY <1>2, <2>1
  <2> QED BY <2>1, <2>2, <2>3, <2>4, <2>5
<1>6. ASSUME NEW k \in 1 .. n PROVE OpOK(q, (s \o u)[k], D \cup Before(s \o u, k))
  <2>1. \A j \in 1 .. k - 1 : j \in 1 .. n
    BY <1>1
  <2>2. Before(s \o u, k) = Before(s, k)
    BY <1>3, <2>1 DEF Before
  <2> QED BY <1>3, <2>2 DEF SeqOK, n
<1>7. ASSUME NEW j \in 1 .. Len(u)
      PROVE  OpOK(q, (s \o u)[n + j], D \cup Before(s \o u, n + j))
  <2>1. /\ \A i \in 1 .. (n + j) - 1 : i \in 1 .. n \/ \E l \in 1 .. j - 1 : i = n + l
    <3>1. ASSUME NEW i \in 1 .. (n + j) - 1, ~(i <= n)
          PROVE  i - n \in 1 .. j - 1 /\ i = n + (i - n)
      BY <1>1, <3>1
    <3> QED BY <1>1, <3>1
  <2>2. /\ \A i \in 1 .. n : i \in 1 .. (n + j) - 1
        /\ \A l \in 1 .. j - 1 : n + l \in 1 .. (n + j) - 1 /\ l \in 1 .. Len(u)
    BY <1>1
  <2>3. Before(s \o u, n + j) = All(s) \cup Before(u, j)
    BY <1>2, <1>3, <2>1, <2>2, SMTT(30) DEF Before, All, n
  <2>4. OpOK(q, u[j], (D \cup All(s)) \cup Before(u, j))
    BY DEF SeqOK
  <2>5. (D \cup All(s)) \cup Before(u, j) = D \cup Before(s \o u, n + j)
    BY <2>3
  <2> QED BY <1>2, <2>4, <2>5
<1> QED BY <1>1, <1>4, <1>5, <1>6, <1>7 DEF SeqOK
LEMMA InOrderFacts ==
  ASSUME NEW S, IsFiniteSet(S)
  PROVE  /\ Cardinality(S) \in Nat /\ InOrder(S) \in [1 .. Cardinality(S) -> S]
         /\ \A x \in S : \E k \in 1 .. Cardinality(S) : InOrder(S)[k] = x
<1>1. Cardinality(S) \in Nat /\ ExistsBijection(1 .. Cardinality(S), S)
  BY FS_CardinalityType
<1>2. \E f \in [1 .. Cardinality(S) -> S] :
        \A x \in S : \E k \in 1 .. Cardinality(S) : f[k] = x
  BY <1>1 DEF ExistsBijection, Bijection, Injection, Surjection
<1> QED BY <1>1, <1>2 DEF InOrder

LEMMA StoreOK ==
  ASSUME NEW q \in Process, q.repo \in Repos, q.locks = {"registry", "repository"},
         NEW m \in Manifests, NEW as \in {"pushed", "merged"}, NEW D,
         as = "merged" => m \notin Images,
         m \in Images => \A b \in Needs(m) : Committed(b, D) /\ Linked(q.repo, b, D),
         \A i \in Entries(m) : i = m \/ Revised(q.repo, i, D)
  PROVE  /\ StoreManifest(q.repo, m, as) \in Ops
         /\ OpOK(q, StoreManifest(q.repo, m, as), D)
         /\ Adds(StoreManifest(q.repo, m, as))
         /\ StoreManifest(q.repo, m, as).do = "store"
         /\ StoreManifest(q.repo, m, as).digest = m
<1> DEFINE w == StoreManifest(q.repo, m, as)
<1>1. w \in Ops
  BY OpsAre
<1>2. w.do = "store" /\ w.repo = q.repo /\ w.digest = m /\ w.as = as
  BY DEF StoreManifest
<1> HIDE DEF w
<1>3. Adds(w) /\ ~Drops(w)
  BY <1>2 DEF Adds, Drops
<1>4. AddOK(q, w, D)
  BY <1>2 DEF AddOK
<1>5. OpOK(q, w, D)
  BY <1>2, <1>3, <1>4 DEF OpOK
<1> QED BY <1>1, <1>2, <1>3, <1>5 DEF w

LEMMA StoresOK ==
  ASSUME NEW q \in Process, q.repo \in Repos, q.locks = {"registry", "repository"},
         NEW S \in SUBSET Images, NEW D,
         \A i \in S : \A b \in Needs(i) : Committed(b, D) /\ Linked(q.repo, b, D)
  PROVE  /\ Stores(q.repo, S) \in Seq(Ops) /\ SeqOK(q, Stores(q.repo, S), D)
         /\ All(Stores(q.repo, S)) = {StoreManifest(q.repo, i, "pushed") : i \in S}
<1> DEFINE n == Cardinality(S)
           u == Stores(q.repo, S)
<1>1. IsFiniteSet(S)
  BY StoreAssumption, FS_Subset
<1>2. /\ n \in Nat /\ \A k \in 1 .. n : InOrder(S)[k] \in S
      /\ \A x \in S : \E k \in 1 .. n : InOrder(S)[k] = x
  BY <1>1, InOrderFacts
<1>3. u = [k \in 1 .. n |-> StoreManifest(q.repo, InOrder(S)[k], "pushed")]
  BY DEF Stores
<1>4. ASSUME NEW i \in S, NEW E
      PROVE  /\ StoreManifest(q.repo, i, "pushed") \in Ops
             /\ OpOK(q, StoreManifest(q.repo, i, "pushed"), D \cup E)
  <2>1. i \in Manifests /\ Entries(i) = {i}
    BY ImageFacts
  <2>2. \A b \in Needs(i) : Committed(b, D \cup E) /\ Linked(q.repo, b, D \cup E)
    BY DEF Committed, Linked
  <2> QED BY <2>1, <2>2, StoreOK
<1> HIDE DEF n, u
<1>5. u \in Seq(Ops) /\ Len(u) = n
  <2>1. u \in [1 .. n -> Ops]
    BY <1>2, <1>3, <1>4
  <2> QED BY <1>2, <2>1
<1>6. \A k \in 1 .. n : u[k] = StoreManifest(q.repo, InOrder(S)[k], "pushed")
  BY <1>3
<1>7. SeqOK(q, u, D)
  BY <1>2, <1>4, <1>5, <1>6 DEF SeqOK
<1>8. All(u) = {StoreManifest(q.repo, i, "pushed") : i \in S}
  BY <1>2, <1>5, <1>6 DEF All
<1> QED BY <1>5, <1>7, <1>8 DEF u

LEMMA LinksOK ==
  ASSUME NEW q, NEW r \in Repos, NEW S \in SUBSET Blobs, NEW D
  PROVE  /\ Links(r, S) \in Seq(Ops) /\ SeqOK(q, Links(r, S), D)
         /\ All(Links(r, S)) = {LinkBlob(r, b) : b \in S}
<1> DEFINE n == Cardinality(S)
           u == Links(r, S)
<1>1. IsFiniteSet(S)
  BY StoreAssumption, FS_Subset
<1>2. /\ n \in Nat /\ \A k \in 1 .. n : InOrder(S)[k] \in S
      /\ \A x \in S : \E k \in 1 .. n : InOrder(S)[k] = x
  BY <1>1, InOrderFacts
<1>3. u = [k \in 1 .. n |-> LinkBlob(r, InOrder(S)[k])]
  BY DEF Links
<1>4. \A b \in S : LinkBlob(r, b) \in Ops /\ LinkBlob(r, b).do = "link"
  BY OpsAre DEF LinkBlob
<1> HIDE DEF n, u
<1>5. u \in Seq(Ops) /\ Len(u) = n
  <2>1. u \in [1 .. n -> Ops]
    BY <1>2, <1>3, <1>4
  <2> QED BY <1>2, <2>1
<1>6. \A k \in 1 .. n : u[k] = LinkBlob(r, InOrder(S)[k])
  BY <1>3
<1>7. SeqOK(q, u, D)
  BY <1>2, <1>4, <1>5, <1>6 DEF SeqOK, OpOK, Adds, Drops
<1>8. All(u) = {LinkBlob(r, b) : b \in S}
  BY <1>2, <1>5, <1>6 DEF All
<1> QED BY <1>5, <1>7, <1>8 DEF u

LEMMA CommitsOK ==
  ASSUME NEW q, NEW S \in SUBSET Blobs, NEW D
  PROVE  /\ Commits(S) \in Seq(Ops) /\ SeqOK(q, Commits(S), D)
         /\ All(Commits(S)) = {CommitBlob(b) : b \in S}
<1> DEFINE n == Cardinality(S)
           u == Commits(S)
<1>1. IsFiniteSet(S)
  BY StoreAssumption, FS_Subset
<1>2. /\ n \in Nat /\ \A k \in 1 .. n : InOrder(S)[k] \in S
      /\ \A x \in S : \E k \in 1 .. n : InOrder(S)[k] = x
  BY <1>1, InOrderFacts
<1>3. u = [k \in 1 .. n |-> CommitBlob(InOrder(S)[k])]
  BY DEF Commits
<1>4. \A b \in S : CommitBlob(b) \in Ops /\ CommitBlob(b).do = "commit"
  BY OpsAre, DigestFacts DEF CommitBlob
<1> HIDE DEF n, u
<1>5. u \in Seq(Ops) /\ Len(u) = n
  <2>1. u \in [1 .. n -> Ops]
    BY <1>2, <1>3, <1>4
  <2> QED BY <1>2, <2>1
<1>6. \A k \in 1 .. n : u[k] = CommitBlob(InOrder(S)[k])
  BY <1>3
<1>7. SeqOK(q, u, D)
  BY <1>2, <1>4, <1>5, <1>6 DEF SeqOK, OpOK, Adds, Drops
<1>8. All(u) = {CommitBlob(b) : b \in S}
  BY <1>2, <1>5, <1>6 DEF All
<1> QED BY <1>5, <1>7, <1>8 DEF u

(* Of an operation before which nothing is dropped. *)
LEMMA RevisedMeanwhile ==
  ASSUME NEW r, NEW m, NEW D, \A o \in D : ~Drops(o),
         Revised(r, m, {}) \/ \E o \in D : Adds(o) /\ o.digest = m
  PROVE  Revised(r, m, D)
BY DEF Revised

LEMMA PointTagOK ==
  ASSUME StoreTypes, RevisionsAreWhole, TagsAreRevisions,
         NEW q \in Process, q.repo \in Repos, "repository" \in q.locks,
         NEW t \in Tags, NEW m \in Manifests \cup {None}, NEW D,
         \A o \in D : ~Drops(o) /\ o.do # "tags",
         m # None => Revised(q.repo, m, {}) \/ \E o \in D : Adds(o) /\ o.digest = m,
         \A o \in D : Adds(o) =>
           o.digest \in Images \/ o.digest = m \/ o.digest # tags[q.repo][t]
  PROVE  PointTag(q.repo, t, m) \in Seq(Ops) /\ SeqOK(q, PointTag(q.repo, t, m), D)
<1> DEFINE r == q.repo
           to == [tags[r] EXCEPT ![t] = m]
           old == tags[r][t]
           w == WriteTags(r, to)
<1>1. /\ tags[r] \in [Tags -> Manifests \cup {None}] /\ old \in Manifests \cup {None}
      /\ to \in [Tags -> Manifests \cup {None}]
      /\ \A u \in Tags : to[u] = IF u = t THEN m ELSE tags[r][u]
  BY DEF StoreTypes
<1> HIDE DEF to
<1>2. w \in Ops /\ w.do = "tags" /\ w.repo = r /\ w.tags = to
  BY <1>1, OpsAre DEF WriteTags
<1> HIDE DEF w
<1>3. OpOK(q, w, D)
  <2>1. ASSUME NEW u \in Tags, to[u] # None PROVE Revised(r, to[u], D)
    <3>1. Revised(r, to[u], {}) \/ \E o \in D : Adds(o) /\ o.digest = to[u]
      BY <1>1, <2>1 DEF TagsAreRevisions
    <3> QED BY <3>1, RevisedMeanwhile
  <2>2. TagsOK(q, w, D)
    BY <1>2, <2>1 DEF TagsOK
  <2> QED BY <1>2, <2>2 DEF OpOK, Adds, Drops
<1>4. <<w>> \in Seq(Ops) /\ SeqOK(q, <<w>>, D) /\ All(<<w>>) = {w}
  BY <1>2, <1>3, OneOp
<1>5. /\ DropMergedOrphan(r, old, to) \in Seq(Ops)
      /\ SeqOK(q, DropMergedOrphan(r, old, to), D \cup {w})
  <2>1. CASE old # None /\ (\A u \in Tags : to[u] # old) /\ rev[r][old] = "merged"
    <3> DEFINE x == WriteRevision(r, old, "none")
    <3>1. old \in Manifests
      BY <1>1, <2>1
    <3>2. x \in Ops /\ x.do = "revision" /\ x.repo = r /\ x.digest = old /\ x.as = "none"
      BY <3>1, OpsAre DEF WriteRevision
    <3>3. old \notin Images
      <4>1. HasRevision(r, old)
        BY <2>1 DEF HasRevision
      <4> QED BY <2>1, <3>1, <4>1 DEF RevisionsAreWhole
    <3>4. m # old
      BY <1>1, <2>1
    <3> HIDE DEF x
    <3>5. \A o \in D \cup {w} : Adds(o) => o.digest # x.digest
      BY <1>2, <3>2, <3>3, <3>4 DEF Adds
    <3>6. \A o \in D \cup {w} : o.do = "tags" => \A u \in Tags : o.tags[u] # x.digest
      BY <1>2, <2>1, <3>2
    <3>7. DropOK(q, x, D \cup {w})
      BY <1>2, <3>2, <3>3, <3>5, <3>6 DEF DropOK
    <3>8. OpOK(q, x, D \cup {w})
      BY <3>2, <3>7 DEF OpOK, Adds
    <3>9. DropMergedOrphan(r, old, to) = <<x>>
      BY <2>1 DEF DropMergedOrphan, x
    <3> QED BY <3>2, <3>8, <3>9, OneOp
  <2>2. CASE ~(old # None /\ (\A u \in Tags : to[u] # old) /\ rev[r][old] = "merged")
    BY <2>2, NoOp DEF DropMergedOrphan
  <2> QED BY <2>1, <2>2
<1>6. PointTag(r, t, m) = <<w>> \o DropMergedOrphan(r, old, to)
  BY DEF PointTag, w, to
<1>7. SeqOK(q, DropMergedOrphan(r, old, to), D \cup All(<<w>>))
  BY <1>4, <1>5
<1> DEFINE v == DropMergedOrphan(r, old, to)
<1>8. <<w>> \in Seq(Ops) /\ v \in Seq(Ops) /\ SeqOK(q, <<w>>, D) /\ SeqOK(q, v, D \cup All(<<w>>))
  BY <1>4, <1>5, <1>7
<1> HIDE DEF v
<1>9. <<w>> \o v \in Seq(Ops) /\ SeqOK(q, <<w>> \o v, D)
  BY <1>8, OpsThenOps
<1> QED BY <1>6, <1>9 DEF v
(* putManifest: the manifest, and what becomes of the tag. *)
LEMMA TagManifestOK ==
  ASSUME StoreTypes, RevisionsAreWhole, TagsAreRevisions,
         NEW q \in Process, q.repo \in Repos, q.locks = {"registry", "repository"},
         NEW t \in Tags, NEW m \in Manifests,
         NEW D, D = {StoreManifest(q.repo, m, "pushed")}
  PROVE  TagManifest(q.repo, t, m) \in Seq(Ops) /\ SeqOK(q, TagManifest(q.repo, t, m), D)
<1> DEFINE r == q.repo
           now == tags[r][t]
           others == {i \in Entries(now) : PlatformOf[i] # PlatformOf[m]}
           index == Index(others \cup {m}, "registry")
<1>1. \A o \in D : ~Drops(o) /\ o.do = "store" /\ Adds(o) /\ o.digest = m
  BY DEF StoreManifest, Adds, Drops
<1>2. CASE ~Merges(r, t, m)
  <2>1. TagManifest(r, t, m) = PointTag(r, t, m)
    BY <1>2 DEF TagManifest
  <2>2. \E o \in D : Adds(o) /\ o.digest = m
    BY <1>1
  <2>3. PointTag(r, t, m) \in Seq(Ops) /\ SeqOK(q, PointTag(r, t, m), D)
    BY <1>1, <2>2, PointTagOK
  <2> QED BY <2>1, <2>3
<1>3. CASE Merges(r, t, m) /\ m \in Entries(now)
  BY <1>3, NoOp DEF TagManifest
<1>4. CASE Merges(r, t, m) /\ m \notin Entries(now)
  <2>1. /\ m \in Images /\ now \in Manifests /\ HasRevision(r, now)
    BY <1>4 DEF Merges, IsImage, StoreTypes
  <2>2. others \cup {m} \in SUBSET Images /\ others \subseteq Entries(now)
    BY <2>1, ManifestFacts
  <2>3. /\ index \in Manifests /\ index \notin Images /\ Entries(index) = others \cup {m}
    BY <2>2, IndexFacts
  <2>4. index # now
    BY <1>4, <2>3
  <2> DEFINE w == StoreManifest(r, index, "merged")
             v == PointTag(r, t, index)
  <2>5. TagManifest(r, t, m) = <<w>> \o v
    BY <1>4 DEF TagManifest
  <2>6. \A i \in others : Revised(r, i, D)
    <3>1. \A i \in others : Revised(r, i, {})
      BY <2>1, <2>2 DEF RevisionsAreWhole
    <3> QED BY <1>1, <3>1, RevisedMeanwhile
  <2>7. Revised(r, m, D)
    BY <1>1, RevisedMeanwhile
  <2> HIDE DEF index, others
  <2>8. \A i \in Entries(index) : i = index \/ Revised(q.repo, i, D)
    BY <2>3, <2>6, <2>7
  <2>9. /\ w \in Ops /\ OpOK(q, w, D) /\ Adds(w) /\ w.do = "store" /\ w.digest = index
    BY <2>3, <2>8, StoreOK
  <2> HIDE DEF w
  <2>10. <<w>> \in Seq(Ops) /\ SeqOK(q, <<w>>, D) /\ All(<<w>>) = {w}
    BY <2>9, OneOp
  <2> DEFINE E == D \cup {w}
  <2>11. \A o \in E : ~Drops(o) /\ o.do # "tags"
    BY <1>1, <2>9 DEF Drops
  <2>12. \E o \in E : Adds(o) /\ o.digest = index
    BY <2>9
  <2>13. \A o \in E : Adds(o) =>
           o.digest \in Images \/ o.digest = index \/ o.digest # tags[q.repo][t]
    BY <1>1, <2>1, <2>9
  <2> HIDE DEF E
  <2>14. v \in Seq(Ops) /\ SeqOK(q, v, E)
    BY <2>3, <2>11, <2>12, <2>13, PointTagOK
  <2> HIDE DEF v
  <2>15. SeqOK(q, v, D \cup All(<<w>>))
    BY <2>10, <2>14 DEF E
  <2>16. <<w>> \o v \in Seq(Ops) /\ SeqOK(q, <<w>> \o v, D)
    BY <2>10, <2>14, <2>15, OpsThenOps
  <2> QED BY <2>5, <2>16
<1> QED BY <1>2, <1>3, <1>4

(* storePulled: what an index names, itself, and the tag. *)
LEMMA StorePulledOK ==
  ASSUME StoreTypes, RevisionsAreWhole, TagsAreRevisions,
         NEW q \in Process, q.repo \in Repos, q.locks = {"registry", "repository"},
         q.man \in Pushable, q.tag \in Tags, NEW D,
         \A o \in D : ~Drops(o) /\ ~Adds(o) /\ o.do # "tags",
         \A b \in BlobsOf(q.man) : Committed(b, D) /\ Linked(q.repo, b, D)
  PROVE  StorePulled(q) \in Seq(Ops) /\ SeqOK(q, StorePulled(q), D)
<1> DEFINE r == q.repo
           m == q.man
           S == IF IsImage(m) THEN {} ELSE m.of
           u == IF IsImage(m) THEN <<>> ELSE Stores(r, S)
           w == StoreManifest(r, m, "pushed")
           v == PointTag(r, q.tag, m)
<1>1. m \in Manifests /\ S \in SUBSET Images /\ (m \notin Images => Entries(m) = S)
  BY PushableFacts, ManifestFacts DEF IsImage
<1>2. \A i \in S : \A b \in Needs(i) : Committed(b, D) /\ Linked(r, b, D)
  BY <1>1 DEF BlobsOf, IsImage
<1> DEFINE E == D \cup All(u)
<1>3. /\ u \in Seq(Ops) /\ SeqOK(q, u, D)
      /\ All(u) = {StoreManifest(r, i, "pushed") : i \in S}
  <2>1. CASE m \in Images
    BY <2>1, NoOp DEF IsImage
  <2>2. CASE m \notin Images
    BY <1>1, <1>2, <2>2, StoresOK DEF IsImage
  <2> QED BY <2>1, <2>2
<1> HIDE DEF S, u
<1>4. /\ \A o \in All(u) : Adds(o) /\ ~Drops(o) /\ o.do = "store" /\ o.digest \in S
      /\ \A i \in S : \E o \in All(u) : Adds(o) /\ o.digest = i
  <2>1. \A i \in S : LET o == StoreManifest(r, i, "pushed")
                     IN Adds(o) /\ ~Drops(o) /\ o.do = "store" /\ o.digest = i
    BY DEF StoreManifest, Adds, Drops
  <2> QED BY <1>3, <2>1
<1>5. \A o \in E : ~Drops(o) /\ o.do # "tags" /\ (Adds(o) => o.digest \in Images)
  BY <1>1, <1>4
<1>6. m \in Images => \A b \in Needs(m) : Committed(b, E) /\ Linked(r, b, E)
  BY ImageFacts DEF Committed, Linked
<1>7. \A i \in Entries(m) : i = m \/ Revised(r, i, E)
  <2>1. CASE m \in Images
    BY <2>1, ImageFacts
  <2>2. CASE m \notin Images
    <3>1. ASSUME NEW i \in S PROVE Revised(r, i, E)
      BY <1>4, <1>5, RevisedMeanwhile
    <3> QED BY <1>1, <2>2, <3>1
  <2> QED BY <2>1, <2>2
<1> HIDE DEF E
<1>8. w \in Ops /\ OpOK(q, w, E) /\ Adds(w) /\ w.do = "store" /\ w.digest = m
  BY <1>1, <1>6, <1>7, StoreOK
<1> HIDE DEF w
<1>9. <<w>> \in Seq(Ops) /\ SeqOK(q, <<w>>, E) /\ All(<<w>>) = {w}
  BY <1>8, OneOp
<1>10. /\ u \o <<w>> \in Seq(Ops) /\ SeqOK(q, u \o <<w>>, D)
       /\ All(u \o <<w>>) = All(u) \cup {w}
  <2>1. SeqOK(q, <<w>>, D \cup All(u))
    BY <1>9 DEF E
  <2>2. /\ u \o <<w>> \in Seq(Ops) /\ SeqOK(q, u \o <<w>>, D)
        /\ All(u \o <<w>>) = All(u) \cup All(<<w>>)
    BY <1>3, <1>9, <2>1, OpsThenOps, ZenonT(40)
  <2> QED BY <1>9, <2>2
<1> DEFINE F == D \cup All(u \o <<w>>)
<1>11. F = E \cup {w}
  BY <1>10 DEF E
<1> HIDE DEF F
<1>12. \A o \in F : ~Drops(o) /\ o.do # "tags"
  BY <1>5, <1>8, <1>11 DEF Drops
<1>13. \E o \in F : Adds(o) /\ o.digest = m
  BY <1>8, <1>11
<1>14. \A o \in F : Adds(o) =>
         o.digest \in Images \/ o.digest = m \/ o.digest # tags[q.repo][q.tag]
  BY <1>5, <1>8, <1>11
<1>15. v \in Seq(Ops) /\ SeqOK(q, v, F)
  BY <1>1, <1>12, <1>13, <1>14, PointTagOK
<1> HIDE DEF v
<1>16. SeqOK(q, v, D \cup All(u \o <<w>>))
  BY <1>15 DEF F
<1>17. (u \o <<w>>) \o v \in Seq(Ops) /\ SeqOK(q, (u \o <<w>>) \o v, D)
  BY <1>10, <1>15, <1>16, OpsThenOps
<1>18. StorePulled(q) = (u \o <<w>>) \o v
  BY DEF StorePulled, u, w, v, S
<1> QED BY <1>17, <1>18
(***************************************************************************)
(* The steps that leave the store alone.                                   *)
(***************************************************************************)
LEMMA IdleFacts ==
  /\ Idle \in Process /\ Idle.op = "idle" /\ Idle.locks = {} /\ Idle.todo = <<>>
  /\ Idle.repo = None /\ Idle.man = None /\ Idle.tag = None
  /\ Idle.left = {} /\ Idle.marked = {}
  /\ ProcOK(Idle) /\ ProcOK(Idle)'
<1>1. /\ Idle.op = "idle" /\ Idle.locks = {} /\ Idle.todo = <<>>
      /\ Idle.repo = None /\ Idle.man = None /\ Idle.tag = None
      /\ Idle.left = {} /\ Idle.marked = {}
  BY DEF Idle
<1>2. Idle \in Process
  BY DEF Idle, Process
<1>3. ProcOK(Idle)
  BY <1>1, NoOp DEF ProcOK, Fetched, Marked
<1>4. ProcOK(Idle)'
  BY <1>1 DEF ProcOK, Fetched, Marked, SeqOK
<1> QED BY <1>1, <1>2, <1>3, <1>4

LEMMA SharedFacts ==
  ASSUME IInv
  PROVE  /\ Shared => \A p \in Processes : proc[p].op # "clean"
         /\ \A p \in Processes : proc[p] \in Process /\ ProcOK(proc[p])
         /\ \A p \in Processes : proc[p].op = "clean" => proc[p].locks = {"registry"}
<1>1. \A p \in Processes : proc[p] \in Process /\ ProcOK(proc[p])
  BY DEF IInv, ProcTypes, ProcsOK
<1>2. \A p \in Processes : proc[p].op = "clean" => proc[p].locks = {"registry"}
  BY <1>1 DEF ProcOK, Marked
<1> QED BY <1>1, <1>2 DEF Shared

(* Nothing is lost when more is known to be deleted. *)
LEMMA WholeStays ==
  ASSUME StoreTypes, RevisionsAreWhole, TagsAreRevisions,
         UNCHANGED <<rev, tags>>, deleted \subseteq deleted',
         \A m \in Manifests : InStore(m) => InStore(m)',
         \A b \in Blobs : InStore(b) => InStore(b)',
         \A r \in Repos, b \in Blobs : LinkKept(r, b) => LinkKept(r, b)'
  PROVE  RevisionsAreWhole' /\ TagsAreRevisions'
<1>1. \A r, m : HasRevision(r, m)' <=> HasRevision(r, m)
  BY DEF HasRevision
<1>2. \A r, m : Revised(r, m, {}) => Revised(r, m, {})'
  BY <1>1 DEF Revised
<1>3. \A m \in Images : Needs(m) \subseteq Blobs
  BY ImageFacts
<1>4. RevisionsAreWhole'
  <2> SUFFICES ASSUME NEW r \in Repos, NEW m \in Manifests, HasRevision(r, m)'
               PROVE  /\ InStore(m)'
                      /\ m \in Images => \A b \in Needs(m) : InStore(b)' /\ LinkKept(r, b)'
                      /\ \A i \in Entries(m) : Revised(r, i, {})'
                      /\ m \in Images => rev'[r][m] # "merged"
    BY DEF RevisionsAreWhole
  <2>1. /\ InStore(m)
        /\ m \in Images => \A b \in Needs(m) : InStore(b) /\ LinkKept(r, b)
        /\ \A i \in Entries(m) : Revised(r, i, {})
        /\ m \in Images => rev[r][m] # "merged"
    BY <1>1 DEF RevisionsAreWhole
  <2> QED BY <1>2, <1>3, <2>1
<1>5. TagsAreRevisions'
  BY <1>2 DEF TagsAreRevisions
<1> QED BY <1>4, <1>5

LEMMA Begins ==
  ASSUME IInv, NEW p \in Processes, NEW n \in Process,
         proc' = [proc EXCEPT ![p] = n], UNCHANGED <<blob, link, rev, tags>>,
         deleted \subseteq deleted', deleted' \subseteq Repos \X Digests,
         ProcOK(n)', n.op # "clean",
         "repository" \in n.locks =>
           RepoFree(n.repo) \/ ("repository" \in proc[p].locks /\ n.repo = proc[p].repo),
         "registry" \in n.locks => "registry" \in proc[p].locks \/ Shared,
         n.op = "pull" => proc[p].op = "pull" \/ \A c \in Processes : proc[c].op # "clean"
  PROVE  IInv'
<1>1. StoreTypes' /\ ProcTypes'
  BY DEF IInv, StoreTypes, ProcTypes
<1>2. /\ \A d : InStore(d)' <=> InStore(d)
      /\ \A r, m : HasRevision(r, m)' <=> HasRevision(r, m)
      /\ \A r, b : LinkKept(r, b) => LinkKept(r, b)'
  BY DEF InStore, HasRevision, LinkKept
<1>3. RevisionsAreWhole' /\ TagsAreRevisions'
  BY <1>2, WholeStays DEF IInv
<1>4. /\ proc'[p] = n
      /\ \A c \in Processes : c # p => proc'[c] = proc[c]
  BY DEF IInv, ProcTypes
<1>5. LocksExclude'
  <2>1. ASSUME NEW c \in Processes, NEW q \in Processes, c # q,
               "repository" \in proc'[c].locks, "repository" \in proc'[q].locks
        PROVE  proc'[c].repo # proc'[q].repo
    BY <1>4, <2>1 DEF IInv, LocksExclude, RepoFree
  <2>2. ASSUME NEW c \in Processes, NEW q \in Processes, c # q, proc'[c].op = "clean"
        PROVE  "registry" \notin proc'[q].locks
    BY <1>4, <2>2, SharedFacts DEF IInv, LocksExclude
  <2>3. ASSUME NEW c \in Processes, NEW q \in Processes, proc'[c].op = "clean"
        PROVE  proc'[q].op # "pull"
    BY <1>4, <2>3 DEF IInv, LocksExclude
  <2> QED BY <2>1, <2>2, <2>3 DEF LocksExclude
<1>6. ASSUME NEW c \in Processes, NEW q \in Process, proc'[c] = q PROVE ProcOK(q)'
  <2>1. CASE c = p
    BY <1>4, <1>6, <2>1
  <2>2. CASE c # p
    <3>1. ProcOK(q)
      BY <1>4, <1>6, <2>2 DEF IInv, ProcsOK
    <3> QED BY <1>2, <3>1, OthersKeep
  <2> QED BY <2>1, <2>2
<1> QED BY <1>1, <1>3, <1>5, <1>6 DEF IInv, ProcsOK
LEMMA SetsOut ==
  ASSUME IInv, NEW p \in Processes, NEW n \in Process,
         proc' = [proc EXCEPT ![p] = n], StoreUnchanged,
         ProcOK(n), n.op # "clean",
         "repository" \in n.locks =>
           RepoFree(n.repo) \/ ("repository" \in proc[p].locks /\ n.repo = proc[p].repo),
         "registry" \in n.locks => "registry" \in proc[p].locks \/ Shared,
         n.op = "pull" => proc[p].op = "pull" \/ \A c \in Processes : proc[c].op # "clean"
  PROVE  IInv'
<1>1. UNCHANGED <<blob, link, rev, tags, deleted>>
  BY DEF StoreUnchanged
<1>2. /\ \A d : InStore(d) => InStore(d)'
      /\ \A r, m : HasRevision(r, m)' => HasRevision(r, m)
      /\ \A r, b : LinkKept(r, b) => LinkKept(r, b)'
  BY <1>1 DEF InStore, HasRevision, LinkKept
<1>3. ProcOK(n)'
  BY <1>1, <1>2, OthersKeep
<1>4. deleted' \subseteq Repos \X Digests
  BY <1>1 DEF IInv, StoreTypes
<1> QED BY <1>1, <1>3, <1>4, Begins

LEMMA LinkOrCommitOK ==
  ASSUME NEW q, NEW D, NEW w \in Ops, w.do \in {"link", "commit"}
  PROVE  OpOK(q, w, D)
BY DEF OpOK, Adds, Drops

(* What a process may do depends on its repository and its locks only. *)
LEMMA SameLocks ==
  ASSUME NEW q, NEW n, q.repo = n.repo, q.locks = n.locks, NEW s, NEW D, SeqOK(q, s, D)
  PROVE  SeqOK(n, s, D)
<1>1. \A w, E : AddOK(q, w, E) => AddOK(n, w, E)
  BY DEF AddOK
<1>2. \A w, E : DropOK(q, w, E) => DropOK(n, w, E)
  BY DEF DropOK
<1>3. \A w, E : TagsOK(q, w, E) => TagsOK(n, w, E)
  BY DEF TagsOK
<1>4. \A w, E : OpOK(q, w, E) => OpOK(n, w, E)
  BY <1>1, <1>2, <1>3 DEF OpOK
<1> QED BY <1>4 DEF SeqOK

LEMMA StepPushBlob ==
  ASSUME IInv, NEW p \in Processes, NEW r \in Repos, NEW b \in Blobs, PushBlob(p, r, b)
  PROVE  IInv'
<1>1. PICK n : n = [Idle EXCEPT !.op = "blob", !.locks = {"registry"},
                                !.todo = <<CommitBlob(b), LinkBlob(r, b)>>]
  OBVIOUS
<1>2. CommitBlob(b) \in Ops /\ LinkBlob(r, b) \in Ops
      /\ CommitBlob(b).do = "commit" /\ LinkBlob(r, b).do = "link"
  BY OpsAre, DigestFacts DEF CommitBlob, LinkBlob
<1>3. /\ n.op = "blob" /\ n.locks = {"registry"} /\ n.todo = <<CommitBlob(b), LinkBlob(r, b)>>
      /\ n.repo = None
  BY <1>1 DEF Idle
<1>4. n \in Process
  <2>1. <<CommitBlob(b), LinkBlob(r, b)>> \in Seq(Ops)
    BY <1>2
  <2> QED BY <1>1, <2>1 DEF Idle, Process
<1>5. SeqOK(n, n.todo, {})
  <2>1. Len(n.todo) = 2 /\ n.todo[1] = CommitBlob(b) /\ n.todo[2] = LinkBlob(r, b)
    BY <1>3
  <2> QED BY <1>2, <2>1, LinkOrCommitOK DEF SeqOK
<1>6. ProcOK(n)
  BY <1>3, <1>5 DEF ProcOK, Fetched, Marked
<1> QED BY <1>1, <1>3, <1>4, <1>6, SetsOut DEF PushBlob, Becomes

LEMMA StepMountLooks ==
  ASSUME IInv, NEW p \in Processes, NEW r \in Repos, NEW from \in Repos, NEW b \in Blobs,
         MountLooks(p, r, from, b)
  PROVE  IInv'
<1>1. PICK n : n = [Idle EXCEPT !.op = "mount", !.repo = r, !.left = {b}]
  OBVIOUS
<1>2. /\ n.op = "mount" /\ n.locks = {} /\ n.todo = <<>> /\ n.repo = r
  BY <1>1 DEF Idle
<1>3. n \in Process
  BY <1>1, IdleFacts DEF Process
<1>4. ProcOK(n)
  BY <1>2, NoOp DEF ProcOK, Fetched, Marked
<1> QED BY <1>1, <1>2, <1>3, <1>4, SetsOut DEF MountLooks, Becomes

LEMMA StepMountLinks ==
  ASSUME IInv, NEW p \in Processes, MountLinks(p)
  PROVE  IInv'
<1>1. PICK q : q = proc[p]
  OBVIOUS
<1>2. q \in Process /\ ProcOK(q) /\ q.op = "mount" /\ q.repo \in Repos /\ q.left \subseteq Blobs
  BY <1>1, SharedFacts DEF MountLinks, ProcOK, Process
<1>3. PICK b \in q.left :
        proc' = [proc EXCEPT ![p] = [q EXCEPT !.left = {}, !.locks = {"registry"},
                                              !.todo = <<LinkBlob(q.repo, b)>>]]
  BY <1>1 DEF MountLinks, Becomes
<1>4. PICK n : n = [q EXCEPT !.left = {}, !.locks = {"registry"},
                             !.todo = <<LinkBlob(q.repo, b)>>]
  OBVIOUS
<1>5. LinkBlob(q.repo, b) \in Ops /\ LinkBlob(q.repo, b).do = "link"
  BY <1>2, OpsAre DEF LinkBlob
<1>6. /\ n.op = "mount" /\ n.locks = {"registry"} /\ n.repo = q.repo
      /\ n.todo = <<LinkBlob(q.repo, b)>>
  BY <1>2, <1>4 DEF Process
<1>7. n \in Process
  <2>1. <<LinkBlob(q.repo, b)>> \in Seq(Ops)
    BY <1>5
  <2> QED BY <1>2, <1>4, <2>1 DEF Process
<1>8. ProcOK(n)
  <2>1. SeqOK(n, n.todo, {})
    BY <1>5, <1>6, LinkOrCommitOK, OneOp
  <2> QED BY <1>2, <1>6, <2>1 DEF ProcOK, Fetched, Marked
<1> QED BY <1>3, <1>4, <1>6, <1>7, <1>8, SetsOut DEF MountLinks

LEMMA StepPutManifest ==
  ASSUME IInv, NEW p \in Processes, NEW r \in Repos, NEW m \in Pushable,
         NEW t \in Tags \cup {None}, PutManifest(p, r, m, t)
  PROVE  IInv'
<1> DEFINE w == StoreManifest(r, m, "pushed")
           u == IF t = None THEN <<>> ELSE TagManifest(r, t, m)
<1>1. PICK n : n = [Idle EXCEPT !.op = "put", !.repo = r, !.man = m, !.tag = t,
                                !.locks = {"registry", "repository"}, !.todo = <<w>> \o u]
  OBVIOUS
<1>2. proc' = [proc EXCEPT ![p] = n]
  BY <1>1 DEF PutManifest, Becomes
<1>3. /\ n.op = "put" /\ n.repo = r /\ n.locks = {"registry", "repository"}
      /\ n.todo = <<w>> \o u
  BY <1>1 DEF Idle
<1>4. m \in Manifests
  BY PushableFacts
<1> DEFINE n0 == [n EXCEPT !.todo = <<>>]
<1>5. n0 \in Process /\ n0.repo = r /\ n0.locks = {"registry", "repository"}
  BY <1>1, <1>4, NoOp DEF Idle, Process
<1> HIDE DEF n0
<1>6. StoreTypes /\ RevisionsAreWhole /\ TagsAreRevisions
  BY DEF IInv
<1>7. m \in Images => \A b \in Needs(m) : Committed(b, {}) /\ Linked(r, b, {})
  <2> SUFFICES ASSUME m \in Images, NEW b \in Needs(m) PROVE Committed(b, {}) /\ Linked(r, b, {})
    OBVIOUS
  <2>1. RepoBlob(r, b)
    BY DEF PutManifest, HasReferences, IsImage
  <2> QED BY <2>1 DEF RepoBlob, Committed, Linked, LinkKept
<1>8. \A i \in Entries(m) : i = m \/ Revised(r, i, {})
  <2>1. CASE m \in Images
    BY <2>1, ImageFacts
  <2>2. CASE m \notin Images
    <3>1. \A i \in Entries(m) : HasRevision(r, i)
      BY <2>2 DEF PutManifest, HasReferences, IsImage
    <3> QED BY <3>1 DEF Revised
  <2> QED BY <2>1, <2>2
<1>9. w \in Ops /\ OpOK(n0, w, {})
  BY <1>4, <1>5, <1>7, <1>8, StoreOK
<1>10. <<w>> \in Seq(Ops) /\ SeqOK(n0, <<w>>, {}) /\ All(<<w>>) = {w}
  BY <1>9, OneOp
<1>11. u \in Seq(Ops) /\ SeqOK(n0, u, {w})
  <2>1. CASE t = None
    BY <2>1, NoOp
  <2>2. CASE t # None
    <3>1. t \in Tags
      BY <2>2
    <3> QED BY <1>4, <1>5, <1>6, <2>2, <3>1, TagManifestOK
  <2> QED BY <2>1, <2>2
<1> HIDE DEF w, u
<1>12. <<w>> \o u \in Seq(Ops) /\ SeqOK(n0, <<w>> \o u, {})
  <2>1. SeqOK(n0, u, {} \cup All(<<w>>))
    <3>1. {} \cup All(<<w>>) = {w}
      BY <1>10
    <3> QED BY <1>11, <3>1
  <2> QED BY <1>10, <1>11, <2>1, OpsThenOps
<1>13. n \in Process
  BY <1>1, <1>4, <1>12 DEF Idle, Process
<1>14. SeqOK(n, n.todo, {})
  BY <1>3, <1>5, <1>12, SameLocks
<1>15. ProcOK(n)
  BY <1>3, <1>14 DEF ProcOK, Fetched, Marked
<1> QED BY <1>2, <1>3, <1>13, <1>15, SetsOut DEF PutManifest
LEMMA TwoOps ==
  ASSUME NEW w, NEW v
  PROVE  <<w>> \o <<>> = <<w>> /\ <<w>> \o <<v>> = <<w, v>>
<1> DEFINE S == {w, v}
<1>1. /\ <<w>> \in Seq(S) /\ <<v>> \in Seq(S) /\ <<w, v>> \in Seq(S)
      /\ Len(<<w>>) = 1 /\ Len(<<v>>) = 1 /\ Len(<<w, v>>) = 2
  OBVIOUS
<1> HIDE DEF S
<1>2. <<w>> \o <<>> = <<w>>
  BY <1>1, ConcatEmptySeq
<1>3. /\ <<w>> \o <<v>> \in Seq(S) /\ Len(<<w>> \o <<v>>) = 2
      /\ (<<w>> \o <<v>>)[1] = w /\ (<<w>> \o <<v>>)[2] = v
  <2>1. /\ <<w>> \o <<v>> \in Seq(S) /\ Len(<<w>> \o <<v>>) = Len(<<w>>) + Len(<<v>>)
        /\ \A i \in 1 .. Len(<<w>>) + Len(<<v>>) :
             (<<w>> \o <<v>>)[i] = IF i <= Len(<<w>>) THEN <<w>>[i] ELSE <<v>>[i - Len(<<w>>)]
    BY <1>1, ConcatProperties
  <2> QED BY <1>1, <2>1
<1>4. \A i \in 1 .. 2 : (<<w>> \o <<v>>)[i] = <<w, v>>[i]
  BY <1>3
<1>5. <<w>> \o <<v>> = <<w, v>>
  BY <1>1, <1>3, <1>4, SeqEqual
<1> QED BY <1>2, <1>5

LEMMA StepUntag ==
  ASSUME IInv, NEW p \in Processes, NEW r \in Repos, NEW t \in Tags, Untag(p, r, t)
  PROVE  IInv'
<1> DEFINE u == PointTag(r, t, None)
<1>1. PICK n : n = [Idle EXCEPT !.op = "delete", !.repo = r, !.locks = {"repository"}, !.todo = u]
  OBVIOUS
<1>2. proc' = [proc EXCEPT ![p] = n]
  BY <1>1 DEF Untag, Becomes
<1>3. n.op = "delete" /\ n.repo = r /\ n.locks = {"repository"} /\ n.todo = u
  BY <1>1 DEF Idle
<1> DEFINE n0 == [n EXCEPT !.todo = <<>>]
<1>4. n0 \in Process /\ n0.repo = r /\ n0.locks = {"repository"}
  BY <1>1, NoOp DEF Idle, Process
<1> HIDE DEF n0
<1>5. u \in Seq(Ops) /\ SeqOK(n0, u, {})
  <2>1. StoreTypes /\ RevisionsAreWhole /\ TagsAreRevisions
    BY DEF IInv
  <2>2. PointTag(n0.repo, t, None) \in Seq(Ops) /\ SeqOK(n0, PointTag(n0.repo, t, None), {})
    BY <1>4, <2>1, PointTagOK
  <2> QED BY <1>4, <2>2
<1> HIDE DEF u
<1>6. n \in Process
  BY <1>1, <1>5, IdleFacts DEF Process
<1>7. SeqOK(n, n.todo, {})
  BY <1>3, <1>4, <1>5, SameLocks
<1>8. ProcOK(n)
  BY <1>3, <1>7 DEF ProcOK, Fetched, Marked
<1> QED BY <1>2, <1>3, <1>6, <1>8, SetsOut DEF Untag

LEMMA StepDeleteManifest ==
  ASSUME IInv, NEW p \in Processes, NEW r \in Repos, NEW m \in Manifests,
         DeleteManifest(p, r, m)
  PROVE  IInv'
<1>0. PICK to : to = [t \in Tags |-> IF tags[r][t] = m THEN None ELSE tags[r][t]]
  OBVIOUS
<1> DEFINE w == WriteRevision(r, m, "none")
           v == WriteTags(r, to)
<1>14. PICK u : u = IF to = tags[r] THEN <<w>> ELSE <<w, v>>
  OBVIOUS
<1>1. tags[r] \in [Tags -> Manifests \cup {None}] /\ to \in [Tags -> Manifests \cup {None}]
      /\ \A t \in Tags : to[t] # None => to[t] # m /\ to[t] = tags[r][t]
  BY <1>0 DEF IInv, StoreTypes
<1>2. /\ deleted' = deleted \cup {<<r, m>>} /\ UNCHANGED <<blob, link, rev, tags>>
      /\ RepoFree(r)
  BY DEF DeleteManifest
<1>3. PICK n : n = [Idle EXCEPT !.op = "delete", !.repo = r, !.locks = {"repository"}, !.todo = u]
  OBVIOUS
<1>4. proc' = [proc EXCEPT ![p] = n]
  <2>1. <<w>> \o (IF to = tags[r] THEN <<>> ELSE <<v>>) = u
    <3>1. <<w>> \o <<>> = <<w>> /\ <<w>> \o <<v>> = <<w, v>>
      BY TwoOps
    <3> HIDE DEF w, v
    <3> QED BY <1>14, <3>1
  <2> QED BY <1>0, <1>3, <2>1 DEF DeleteManifest, Becomes
<1>5. /\ w \in Ops /\ w.do = "revision" /\ w.repo = r /\ w.digest = m /\ w.as = "none"
      /\ v \in Ops /\ v.do = "tags" /\ v.repo = r /\ v.tags = to
  BY <1>1, OpsAre DEF WriteRevision, WriteTags
<1> HIDE DEF w, v
<1>6. n.op = "delete" /\ n.repo = r /\ n.locks = {"repository"} /\ n.todo = u
  BY <1>3 DEF Idle
<1>7. OpOK(n, w, {})'
  <2>1. DropOK(n, w, {})'
    BY <1>2, <1>5, <1>6 DEF DropOK
  <2> QED BY <1>5, <1>6, <2>1 DEF OpOK, Adds
<1>8. OpOK(n, v, {w})'
  <2>1. ASSUME NEW t \in Tags, to[t] # None PROVE Revised(r, to[t], {w})'
    <3>1. Revised(r, to[t], {}) /\ to[t] # m
      BY <1>1, <2>1 DEF IInv, TagsAreRevisions
    <3> QED BY <1>2, <1>5, <3>1 DEF Revised, HasRevision
  <2>2. TagsOK(n, v, {w})'
    BY <1>5, <1>6, <2>1 DEF TagsOK
  <2> QED BY <1>5, <1>6, <2>2 DEF OpOK, Adds, Drops
<1>9. SeqOK(n, n.todo, {})'
  <2>1. CASE to = tags[r]
    <3>1. Len(n.todo) = 1 /\ n.todo[1] = w /\ {} \cup Before(n.todo, 1) = {}
      BY <1>6, <1>14, <2>1 DEF Before
    <3> QED BY <1>7, <3>1 DEF SeqOK
  <2>2. CASE to # tags[r]
    <3>1. Len(n.todo) = 2 /\ n.todo[1] = w /\ n.todo[2] = v
      BY <1>6, <1>14, <2>2
    <3>2. {} \cup Before(n.todo, 1) = {} /\ {} \cup Before(n.todo, 2) = {w}
      BY <3>1 DEF Before
    <3> QED BY <1>7, <1>8, <3>1, <3>2 DEF SeqOK
  <2> QED BY <2>1, <2>2
<1>10. u \in Seq(Ops)
  BY <1>5, <1>14
<1>11. n \in Process
  BY <1>3, <1>10, IdleFacts DEF Process
<1>12. ProcOK(n)'
  BY <1>6, <1>9 DEF ProcOK, Fetched, Marked
<1>13. deleted' \subseteq Repos \X Digests
  BY <1>2, ManifestFacts DEF IInv, StoreTypes
<1> QED BY <1>2, <1>4, <1>6, <1>11, <1>12, <1>13, Begins

LEMMA StepDeleteBlob ==
  ASSUME IInv, NEW p \in Processes, NEW r \in Repos, NEW b \in Blobs, DeleteBlob(p, r, b)
  PROVE  IInv'
<1>1. /\ link' = [link EXCEPT ![r][b] = "gone"] /\ deleted' = deleted \cup {<<r, b>>}
      /\ UNCHANGED <<blob, rev, tags, proc>>
  BY DEF DeleteBlob
<1>2. StoreTypes' /\ ProcTypes'
  BY <1>1, DigestFacts DEF IInv, StoreTypes, ProcTypes, Ages
<1>3. /\ \A d : InStore(d)' <=> InStore(d)
      /\ \A q, m : HasRevision(q, m)' <=> HasRevision(q, m)
  BY <1>1 DEF InStore, HasRevision
<1>4. \A q \in Repos, c \in Blobs : LinkKept(q, c) => LinkKept(q, c)'
  BY <1>1 DEF IInv, StoreTypes, LinkKept
<1>5. RevisionsAreWhole' /\ TagsAreRevisions'
  BY <1>1, <1>3, <1>4, WholeStays DEF IInv
<1>6. LocksExclude'
  BY <1>1 DEF IInv, LocksExclude
<1>7. ASSUME NEW c \in Processes, NEW q \in Process, proc'[c] = q PROVE ProcOK(q)'
  <2>1. ProcOK(q)
    BY <1>1, <1>7 DEF IInv, ProcsOK
  <2> QED BY <1>1, <1>3, <1>4, <2>1, OthersKeep
<1> QED BY <1>2, <1>5, <1>6, <1>7 DEF IInv, ProcsOK

LEMMA StepPullBegins ==
  ASSUME IInv, ~CleansDuringPulls, NEW p \in Processes, NEW r \in Repos, NEW m \in Pushable,
         NEW t \in Tags, PullBegins(p, r, m, t)
  PROVE  IInv'
<1>1. PICK n : n = [Idle EXCEPT !.op = "pull", !.repo = r, !.man = m, !.tag = t,
                                !.left = BlobsOf(m)]
  OBVIOUS
<1>2. proc' = [proc EXCEPT ![p] = n]
  BY <1>1 DEF PullBegins, Becomes
<1>3. /\ n.op = "pull" /\ n.repo = r /\ n.man = m /\ n.tag = t /\ n.left = BlobsOf(m)
      /\ n.locks = {} /\ n.todo = <<>>
  BY <1>1 DEF Idle
<1>4. m \in Manifests /\ BlobsOf(m) \subseteq Blobs
  BY PushableFacts, ManifestFacts
<1>5. n \in Process
  BY <1>1, <1>4, IdleFacts DEF Process
<1>6. ProcOK(n)
  BY <1>3, NoOp DEF ProcOK, Fetched, Marked
<1> QED BY <1>2, <1>3, <1>5, <1>6, SetsOut DEF PullBegins

LEMMA StepPullFetches ==
  ASSUME IInv, NEW p \in Processes, PullFetches(p)
  PROVE  IInv'
<1>1. PICK q : q = proc[p]
  OBVIOUS
<1>2. /\ q \in Process /\ ProcOK(q) /\ q.op = "pull" /\ q.locks = {} /\ q.todo = <<>>
      /\ q.repo \in Repos /\ q.man \in Pushable /\ q.tag \in Tags /\ q.left \subseteq Blobs
  BY <1>1, SharedFacts DEF PullFetches, ProcOK, Fetched, Process
<1>3. PICK b \in q.left :
        proc' = [proc EXCEPT ![p] =
          [q EXCEPT !.left = @ \ {b},
                    !.todo = (IF InStore(b) THEN <<>> ELSE <<CommitBlob(b)>>)
                               \o <<LinkBlob(q.repo, b)>>]]
  BY <1>1 DEF PullFetches, Becomes
<1> DEFINE u == (IF InStore(b) THEN <<>> ELSE <<CommitBlob(b)>>) \o <<LinkBlob(q.repo, b)>>
<1>4. PICK n : n = [q EXCEPT !.left = @ \ {b}, !.todo = u]
  OBVIOUS
<1>5. /\ n.op = "pull" /\ n.locks = {} /\ n.repo = q.repo /\ n.man = q.man /\ n.tag = q.tag
      /\ n.left = q.left \ {b} /\ n.todo = u
  BY <1>2, <1>4 DEF Process
<1>6. /\ CommitBlob(b) \in Ops /\ CommitBlob(b).do = "commit" /\ CommitBlob(b).digest = b
      /\ LinkBlob(q.repo, b) \in Ops /\ LinkBlob(q.repo, b).do = "link"
      /\ LinkBlob(q.repo, b).repo = q.repo /\ LinkBlob(q.repo, b).digest = b
  BY <1>2, OpsAre, DigestFacts DEF CommitBlob, LinkBlob
<1>7. u \in Seq(Ops) /\ SeqOK(n, u, {}) /\ Committed(b, All(u)) /\ Linked(q.repo, b, All(u))
  <2>1. /\ <<LinkBlob(q.repo, b)>> \in Seq(Ops) /\ All(<<LinkBlob(q.repo, b)>>) = {LinkBlob(q.repo, b)}
        /\ \A D : SeqOK(n, <<LinkBlob(q.repo, b)>>, D)
    BY <1>6, OneOp, LinkOrCommitOK
  <2>2. /\ <<CommitBlob(b)>> \in Seq(Ops) /\ SeqOK(n, <<CommitBlob(b)>>, {})
        /\ All(<<CommitBlob(b)>>) = {CommitBlob(b)}
    BY <1>6, OneOp, LinkOrCommitOK
  <2>3. CASE InStore(b)
    <3>1. u = <<LinkBlob(q.repo, b)>>
      BY <2>3
    <3> QED BY <1>6, <2>1, <2>3, <3>1 DEF Committed, Linked
  <2>4. CASE ~InStore(b)
    <3>1. u = <<CommitBlob(b)>> \o <<LinkBlob(q.repo, b)>>
      BY <2>4
    <3>2. u \in Seq(Ops) /\ SeqOK(n, u, {}) /\ All(u) = {CommitBlob(b)} \cup {LinkBlob(q.repo, b)}
      <4>1. SeqOK(n, <<LinkBlob(q.repo, b)>>, {} \cup All(<<CommitBlob(b)>>))
        BY <2>1
      <4> DEFINE x == CommitBlob(b)
                 y == LinkBlob(q.repo, b)
      <4>2. /\ <<x>> \in Seq(Ops) /\ <<y>> \in Seq(Ops) /\ u = <<x>> \o <<y>>
            /\ SeqOK(n, <<x>>, {}) /\ SeqOK(n, <<y>>, {} \cup All(<<x>>))
            /\ All(<<x>>) = {x} /\ All(<<y>>) = {y}
        BY <2>1, <2>2, <3>1, <4>1
      <4> HIDE DEF u, x, y
      <4>3. /\ <<x>> \o <<y>> \in Seq(Ops) /\ SeqOK(n, <<x>> \o <<y>>, {})
            /\ All(<<x>> \o <<y>>) = All(<<x>>) \cup All(<<y>>)
        BY <4>2, OpsThenOps
      <4>4. u \in Seq(Ops) /\ SeqOK(n, u, {}) /\ All(u) = {x} \cup {y}
        BY <4>2, <4>3
      <4> QED BY <4>4 DEF x, y
    <3> QED BY <1>6, <3>2 DEF Committed, Linked
  <2> QED BY <2>3, <2>4
<1> HIDE DEF u
<1>8. n \in Process
  BY <1>2, <1>4, <1>7 DEF Process
<1>9. ASSUME NEW c \in BlobsOf(q.man) \ n.left
      PROVE  Committed(c, All(u)) /\ Linked(q.repo, c, All(u))
  <2>1. CASE c = b
    BY <1>7, <2>1
  <2>2. CASE c # b
    <3>1. Committed(c, All(q.todo)) /\ Linked(q.repo, c, All(q.todo))
      BY <1>2, <1>5, <1>9, <2>2 DEF ProcOK, Fetched
    <3>2. All(q.todo) = {}
      BY <1>2, NoOp
    <3> QED BY <3>1, <3>2 DEF Committed, Linked
  <2> QED BY <2>1, <2>2
<1>10. ProcOK(n)
  BY <1>2, <1>5, <1>7, <1>9 DEF ProcOK, Fetched, Marked
<1> QED BY <1>1, <1>2, <1>3, <1>4, <1>5, <1>8, <1>10, SetsOut DEF PullFetches, u
LEMMA StepPullLocks ==
  ASSUME IInv, NEW p \in Processes, PullLocks(p)
  PROVE  IInv'
<1>1. PICK q : q = proc[p]
  OBVIOUS
<1>2. /\ q \in Process /\ ProcOK(q) /\ q.op = "pull" /\ q.locks = {} /\ q.todo \in Seq(Ops)
  BY <1>1, SharedFacts DEF PullLocks, Process
<1>3. PICK n : n = [q EXCEPT !.locks = {"registry"}]
  OBVIOUS
<1>4. proc' = [proc EXCEPT ![p] = n]
  BY <1>1, <1>3 DEF PullLocks, IInv, ProcTypes, Process
<1>5. /\ n \in Process /\ n.op = "pull" /\ n.locks = {"registry"} /\ n.repo = q.repo
      /\ n.man = q.man /\ n.tag = q.tag /\ n.left = q.left /\ n.todo = q.todo
  BY <1>2, <1>3 DEF Process
<1>6. SeqOK(n, n.todo, {})
  <2>1. ASSUME NEW k \in 1 .. Len(q.todo)
        PROVE  OpOK(n, q.todo[k], {} \cup Before(q.todo, k))
    <3>1. q.todo[k] \in Ops /\ OpOK(q, q.todo[k], {} \cup Before(q.todo, k))
      BY <1>2, ElementOfSeq DEF ProcOK, SeqOK
    <3>2. q.todo[k].do \in {"link", "commit"}
      BY <1>2, <3>1, OpFacts DEF OpOK
    <3> QED BY <3>1, <3>2, LinkOrCommitOK
  <2> QED BY <1>5, <2>1 DEF SeqOK
<1>7. ProcOK(n)
  <2>1. Fetched(n)
    BY <1>2, <1>5 DEF ProcOK, Fetched
  <2> QED BY <1>5, <1>6, <2>1 DEF ProcOK, Marked
<1> QED BY <1>1, <1>2, <1>4, <1>5, <1>7, SetsOut DEF PullLocks

LEMMA StepPullStores ==
  ASSUME IInv, NEW p \in Processes, PullStores(p)
  PROVE  IInv'
<1>1. PICK q : q = proc[p]
  OBVIOUS
<1>2. /\ q \in Process /\ ProcOK(q) /\ q.op = "pull" /\ q.locks = {} /\ q.todo = <<>> /\ q.left = {}
      /\ q.repo \in Repos /\ q.man \in Pushable /\ q.tag \in Tags
  BY <1>1, SharedFacts DEF PullStores, ProcOK, Fetched
<1>3. PICK n : n = [q EXCEPT !.locks = {"registry", "repository"}, !.todo = StorePulled(q)]
  OBVIOUS
<1>4. proc' = [proc EXCEPT ![p] = n] /\ Shared /\ RepoFree(q.repo) /\ StoreUnchanged
  BY <1>1, <1>3 DEF PullStores, Becomes
<1>5. PICK n0 : n0 = [q EXCEPT !.locks = {"registry", "repository"}]
  OBVIOUS
<1>6. /\ n0 \in Process /\ n0.repo = q.repo /\ n0.man = q.man /\ n0.tag = q.tag
      /\ n0.locks = {"registry", "repository"}
  BY <1>2, <1>5 DEF Process
<1>7. StorePulled(n0) = StorePulled(q)
  BY <1>6 DEF StorePulled
<1>8. \A b \in BlobsOf(n0.man) : Committed(b, {}) /\ Linked(n0.repo, b, {})
  <2>1. All(q.todo) = {}
    BY <1>2, NoOp
  <2> QED BY <1>2, <1>6, <2>1 DEF ProcOK, Fetched
<1>9. StorePulled(n0) \in Seq(Ops) /\ SeqOK(n0, StorePulled(n0), {})
  BY <1>2, <1>6, <1>8, StorePulledOK DEF IInv
<1>10. /\ n \in Process /\ n.op = "pull" /\ n.locks = {"registry", "repository"}
       /\ n.repo = q.repo /\ n.man = q.man /\ n.tag = q.tag /\ n.todo = StorePulled(q)
  BY <1>2, <1>3, <1>7, <1>9 DEF Process
<1>11. SeqOK(n, n.todo, {})
  BY <1>6, <1>7, <1>9, <1>10, SameLocks
<1>12. ProcOK(n)
  BY <1>2, <1>10, <1>11 DEF ProcOK, Fetched, Marked
<1> QED BY <1>1, <1>2, <1>4, <1>10, <1>12, SetsOut

LEMMA StepImportCommits ==
  ASSUME IInv, NEW p \in Processes, NEW r \in Repos, NEW m \in Pushable, NEW t \in Tags,
         ImportCommits(p, r, m, t)
  PROVE  IInv'
<1> DEFINE u == Commits(BlobsOf(m))
<1>1. PICK n : n = [Idle EXCEPT !.op = "import", !.repo = r, !.man = m, !.tag = t,
                                !.locks = {"registry"}, !.todo = u]
  OBVIOUS
<1>2. proc' = [proc EXCEPT ![p] = n]
  BY <1>1 DEF ImportCommits, Becomes
<1>3. /\ n.op = "import" /\ n.repo = r /\ n.man = m /\ n.tag = t
      /\ n.locks = {"registry"} /\ n.todo = u
  BY <1>1 DEF Idle
<1>4. m \in Manifests /\ BlobsOf(m) \subseteq Blobs
  BY PushableFacts, ManifestFacts
<1>5. /\ u \in Seq(Ops) /\ SeqOK(n, u, {})
      /\ All(u) = {CommitBlob(b) : b \in BlobsOf(m)}
  BY <1>4, CommitsOK
<1> HIDE DEF u
<1>6. n \in Process
  BY <1>1, <1>4, <1>5, IdleFacts DEF Process
<1>7. \A b \in BlobsOf(m) : Committed(b, All(u))
  <2> SUFFICES ASSUME NEW b \in BlobsOf(m)
               PROVE  \E o \in All(u) : o.do \in {"commit", "store"} /\ o.digest = b
    BY DEF Committed
  <2>1. CommitBlob(b) \in All(u) /\ CommitBlob(b).do = "commit" /\ CommitBlob(b).digest = b
    BY <1>5 DEF CommitBlob
  <2> QED BY <2>1
<1>8. ProcOK(n)
  BY <1>3, <1>5, <1>7 DEF ProcOK, Fetched, Marked
<1> QED BY <1>2, <1>3, <1>6, <1>8, SetsOut DEF ImportCommits

LEMMA StepImportStores ==
  ASSUME IInv, NEW p \in Processes, ImportStores(p)
  PROVE  IInv'
<1>1. PICK q : q = proc[p]
  OBVIOUS
<1>2. /\ q \in Process /\ ProcOK(q) /\ q.op = "import" /\ q.locks = {"registry"}
      /\ q.todo = <<>> /\ q.repo \in Repos /\ q.man \in Pushable /\ q.tag \in Tags
  BY <1>1, SharedFacts DEF ImportStores, ProcOK, Fetched
<1>3. PICK u : u = Links(q.repo, BlobsOf(q.man))
  OBVIOUS
<1>4. PICK n : n = [q EXCEPT !.locks = @ \cup {"repository"}, !.todo = u \o StorePulled(q)]
  OBVIOUS
<1>5. proc' = [proc EXCEPT ![p] = n] /\ RepoFree(q.repo) /\ StoreUnchanged
  BY <1>1, <1>3, <1>4 DEF ImportStores, Becomes
<1>6. PICK n0 : n0 = [q EXCEPT !.locks = {"registry", "repository"}]
  OBVIOUS
<1>7. /\ n0 \in Process /\ n0.repo = q.repo /\ n0.man = q.man /\ n0.tag = q.tag
      /\ n0.locks = {"registry", "repository"}
  BY <1>2, <1>6 DEF Process
<1>8. StorePulled(n0) = StorePulled(q)
  BY <1>7 DEF StorePulled
<1>9. BlobsOf(q.man) \subseteq Blobs
  BY <1>2, PushableFacts, ManifestFacts
<1>10. /\ u \in Seq(Ops) /\ SeqOK(n0, u, {})
       /\ All(u) = {LinkBlob(q.repo, b) : b \in BlobsOf(q.man)}
  BY <1>2, <1>3, <1>9, LinksOK
<1>11. \A b \in BlobsOf(n0.man) : Committed(b, All(u)) /\ Linked(n0.repo, b, All(u))
  <2>1. All(q.todo) = {}
    BY <1>2, NoOp
  <2>2. \A b \in BlobsOf(q.man) : InStore(b)
    BY <1>2, <2>1 DEF ProcOK, Fetched, Committed
  <2>3. \A b \in BlobsOf(q.man) : \E o \in All(u) : o.do = "link" /\ o.repo = q.repo /\ o.digest = b
    <3> SUFFICES ASSUME NEW b \in BlobsOf(q.man)
                 PROVE  \E o \in All(u) : o.do = "link" /\ o.repo = q.repo /\ o.digest = b
      OBVIOUS
    <3>1. LinkBlob(q.repo, b) \in All(u)
      BY <1>10
    <3>2. /\ LinkBlob(q.repo, b).do = "link" /\ LinkBlob(q.repo, b).repo = q.repo
          /\ LinkBlob(q.repo, b).digest = b
      BY DEF LinkBlob
    <3> QED BY <3>1, <3>2
  <2> QED BY <1>7, <2>2, <2>3 DEF Committed, Linked
<1>12. \A o \in All(u) : ~Drops(o) /\ ~Adds(o) /\ o.do # "tags"
  BY <1>10 DEF LinkBlob, Adds, Drops
<1>13. StorePulled(n0) \in Seq(Ops) /\ SeqOK(n0, StorePulled(n0), All(u))
  BY <1>2, <1>7, <1>11, <1>12, StorePulledOK DEF IInv
<1>14. u \o StorePulled(n0) \in Seq(Ops) /\ SeqOK(n0, u \o StorePulled(n0), {})
  <2>1. SeqOK(n0, StorePulled(n0), {} \cup All(u))
    <3>1. {} \cup All(u) = All(u)
      OBVIOUS
    <3> QED BY <1>13, <3>1
  <2> QED BY <1>10, <1>13, <2>1, OpsThenOps
<1>15. /\ n \in Process /\ n.op = "import" /\ n.locks = {"registry", "repository"}
       /\ n.repo = q.repo /\ n.man = q.man /\ n.tag = q.tag /\ n.todo = u \o StorePulled(q)
  BY <1>2, <1>4, <1>8, <1>14 DEF Process
<1>16. SeqOK(n, n.todo, {})
  BY <1>7, <1>8, <1>14, <1>15, SameLocks, ZenonT(40)
<1>17. ProcOK(n)
  BY <1>2, <1>15, <1>16 DEF ProcOK, Fetched, Marked
<1> QED BY <1>1, <1>2, <1>5, <1>15, <1>17, SetsOut

LEMMA StepFails ==
  ASSUME IInv, NEW p \in Processes, Fails(p)
  PROVE  IInv'
BY IdleFacts, SetsOut DEF Fails, Becomes

LEMMA StepCrash ==
  ASSUME IInv, Crash
  PROVE  IInv'
<1>1. proc' = [p \in Processes |-> Idle] /\ UNCHANGED <<blob, link, rev, tags, deleted>>
  BY DEF Crash, StoreUnchanged
<1>2. StoreTypes' /\ ProcTypes'
  BY <1>1, IdleFacts DEF IInv, StoreTypes, ProcTypes
<1>3. RevisionsAreWhole' /\ TagsAreRevisions'
  BY <1>1, WholeStays DEF IInv, InStore, LinkKept
<1>4. LocksExclude'
  BY <1>1, IdleFacts DEF LocksExclude
<1>5. ProcsOK'
  <2> SUFFICES ASSUME NEW p \in Processes, NEW q \in Process, proc'[p] = q PROVE ProcOK(q)'
    BY DEF ProcsOK
  <2>1. q = Idle
    BY <1>1
  <2> QED BY <2>1, IdleFacts
<1> QED BY <1>2, <1>3, <1>4, <1>5 DEF IInv

LEMMA StepPasses ==
  ASSUME IInv, Passes
  PROVE  IInv'
<1>1. /\ blob' = [d \in Digests |-> IF blob[d] = "new" THEN "old" ELSE blob[d]]
      /\ link' = [r \in Repos |-> [b \in Blobs |->
                    IF link[r][b] = "new" THEN "old" ELSE link[r][b]]]
      /\ UNCHANGED <<rev, tags, proc, deleted>>
  BY DEF Passes
<1>2. StoreTypes' /\ ProcTypes'
  BY <1>1 DEF IInv, StoreTypes, ProcTypes, Ages
<1>3. /\ \A d \in Digests : InStore(d) => InStore(d)'
      /\ \A q, m : HasRevision(q, m)' <=> HasRevision(q, m)
      /\ \A q \in Repos, c \in Blobs : LinkKept(q, c) => LinkKept(q, c)'
  BY <1>1 DEF IInv, StoreTypes, InStore, HasRevision, LinkKept
<1>4. RevisionsAreWhole' /\ TagsAreRevisions'
  BY <1>1, <1>3, WholeStays, DigestFacts DEF IInv
<1>5. LocksExclude'
  BY <1>1 DEF IInv, LocksExclude
<1>6. ASSUME NEW c \in Processes, NEW q \in Process, proc'[c] = q PROVE ProcOK(q)'
  <2>1. ProcOK(q)
    BY <1>1, <1>6 DEF IInv, ProcsOK
  <2> QED BY <1>1, <1>3, <2>1, OthersKeep
<1> QED BY <1>2, <1>4, <1>5, <1>6 DEF IInv, ProcsOK
(***************************************************************************)
(* The steps of a request, and the cleanup.                                *)
(***************************************************************************)
LEMMA WritesKeepWhole ==
  ASSUME StoreTypes, RevisionsAreWhole, TagsAreRevisions,
         NEW q \in Process, "repository" \in q.locks => q.repo \in Repos,
         NEW h \in Ops, OpOK(q, h, {}), Applies(h)
  PROVE  RevisionsAreWhole' /\ TagsAreRevisions'
<1> DEFINE Lost(r, m) == Drops(h) /\ r = h.repo /\ m = h.digest /\ <<r, m>> \notin deleted
<1>1. ASSUME NEW r \in Repos, NEW m \in Manifests, Revised(r, m, {}), ~Lost(r, m)
      PROVE  Revised(r, m, {})'
  <2>1. CASE h.do = "revision" /\ r = h.repo /\ m = h.digest
    <3>1. rev'[r][m] = h.as
      BY <2>1, Effects
    <3>2. CASE h.as # "none"
      BY <3>1, <3>2 DEF Revised, HasRevision
    <3>3. CASE h.as = "none"
      <4>1. <<r, m>> \in deleted /\ ~Adds(h)
        BY <1>1, <2>1, <3>3 DEF Drops, Adds
      <4> QED BY <4>1, Effects DEF Revised
    <3> QED BY <3>2, <3>3
  <2>2. CASE ~(h.do = "revision" /\ r = h.repo /\ m = h.digest)
    BY <1>1, <2>2, Effects DEF Revised, HasRevision
  <2> QED BY <2>1, <2>2
<1>2. ASSUME NEW r \in Repos, NEW m \in Manifests, Lost(r, m)
      PROVE  m \notin Images /\ \A t \in Tags : tags[r][t] # m
  <2>1. DropOK(q, h, {}) /\ h.repo = q.repo
    BY <1>2 DEF OpOK, Drops
  <2> QED BY <1>2, <2>1 DEF DropOK
<1>3. \A d \in Digests : InStore(d) => InStore(d)'
  BY Effects
<1>4. \A r \in Repos, b \in Blobs : LinkKept(r, b) => LinkKept(r, b)'
  BY Effects
<1>5. RevisionsAreWhole'
  <2> SUFFICES ASSUME NEW r \in Repos, NEW m \in Manifests, HasRevision(r, m)'
               PROVE  /\ InStore(m)'
                      /\ m \in Images => \A b \in Needs(m) : InStore(b)' /\ LinkKept(r, b)'
                      /\ \A i \in Entries(m) : Revised(r, i, {})'
                      /\ m \in Images => rev'[r][m] # "merged"
    BY DEF RevisionsAreWhole
  <2>1. /\ m \in Digests /\ Entries(m) \subseteq Images
        /\ m \in Images => Needs(m) \subseteq Blobs /\ Needs(m) \subseteq Digests
    BY ManifestFacts, ImageFacts, DigestFacts
  <2>2. \A i \in Entries(m) : i \in Manifests
    BY <2>1, ImageFacts
  <2>3. CASE rev'[r][m] = rev[r][m]
    <3>1. HasRevision(r, m)
      BY <2>3 DEF HasRevision
    <3>2. /\ InStore(m)
          /\ m \in Images => \A b \in Needs(m) : InStore(b) /\ LinkKept(r, b)
          /\ \A i \in Entries(m) : Revised(r, i, {})
          /\ m \in Images => rev[r][m] # "merged"
      BY <3>1 DEF RevisionsAreWhole
    <3>3. \A i \in Entries(m) : Revised(r, i, {})'
      BY <1>1, <1>2, <2>1, <2>2, <3>2
    <3>4. InStore(m)' /\ (m \in Images => \A b \in Needs(m) : InStore(b)' /\ LinkKept(r, b)')
      BY <1>3, <1>4, <2>1, <3>2
    <3> QED BY <2>3, <3>2, <3>3, <3>4
  <2>4. CASE rev'[r][m] # rev[r][m]
    <3>1. h.do = "revision" /\ r = h.repo /\ m = h.digest /\ rev'[r][m] = h.as
      BY <2>4, Effects
    <3>2. Adds(h) /\ ~Drops(h)
      BY <3>1 DEF Adds, Drops, HasRevision
    <3>3. AddOK(q, h, {}) /\ r = q.repo
      BY <3>1, <3>2 DEF OpOK
    <3>4. InStore(m) /\ (m \in Images => \A b \in Needs(m) : InStore(b) /\ LinkKept(r, b))
      BY <3>1, <3>3 DEF AddOK, Committed, Linked
    <3>5. InStore(m)' /\ (m \in Images => \A b \in Needs(m) : InStore(b)' /\ LinkKept(r, b)')
      BY <1>3, <1>4, <2>1, <3>4
    <3>6. ASSUME NEW i \in Entries(m) PROVE Revised(r, i, {})'
      <4>1. CASE i = m
        BY <4>1 DEF Revised
      <4>2. CASE i # m
        BY <1>1, <2>2, <3>1, <3>2, <3>3, <4>2 DEF AddOK
      <4> QED BY <4>1, <4>2
    <3>7. m \in Images => rev'[r][m] # "merged"
      BY <3>1, <3>3 DEF AddOK
    <3> QED BY <3>5, <3>6, <3>7
  <2> QED BY <2>3, <2>4
<1>6. TagsAreRevisions'
  <2> SUFFICES ASSUME NEW r \in Repos, NEW t \in Tags, tags'[r][t] # None
               PROVE  Revised(r, tags[r][t], {})'
    BY DEF TagsAreRevisions
  <2>1. PICK m : m = tags'[r][t]
    OBVIOUS
  <2>2. m \in Manifests
    <3>1. StoreTypes'
      BY Effects
    <3> QED BY <2>1, <3>1 DEF StoreTypes
  <2>3. Revised(r, m, {}) /\ ~Lost(r, m)
    <3>1. CASE h.do = "tags" /\ r = h.repo
      <4>1. tags'[r] = h.tags /\ TagsOK(q, h, {}) /\ r = q.repo
        BY <3>1, Effects DEF OpOK
      <4> QED BY <2>1, <3>1, <4>1 DEF TagsOK, Drops
    <3>2. CASE ~(h.do = "tags" /\ r = h.repo)
      <4>1. tags'[r] = tags[r]
        BY <3>2, Effects
      <4> QED BY <1>2, <2>1, <2>2, <4>1 DEF TagsAreRevisions
    <3> QED BY <3>1, <3>2
  <2>4. Revised(r, m, {})'
    BY <1>1, <2>2, <2>3
  <2> QED BY <2>1, <2>4 DEF Revised, HasRevision
<1> QED BY <1>5, <1>6

LEMMA WritesKeepFetched ==
  ASSUME StoreTypes, NEW q \in Process, Fetched(q), q.todo # <<>>, Applies(Head(q.todo)),
         NEW n, n.op = q.op, n.repo = q.repo, n.man = q.man, n.tag = q.tag, n.left = q.left,
         "repository" \in n.locks <=> "repository" \in q.locks,
         n.todo = Ahead(q.todo), q.op = "import" => n.locks = q.locks
  PROVE  Fetched(n)'
<1> DEFINE h == Head(q.todo)
           C == Later(q.todo, Len(q.todo))
<1>1. q.todo \in Seq(Ops)
  BY DEF Process
<1>2. /\ h \in Ops
      /\ All(q.todo) = {h} \cup C /\ All(n.todo) = Rest(h) \cup C
  BY <1>1, AheadParts, AheadFacts
<1>3. q.op \in {"pull", "import"} => q.repo \in Repos /\ BlobsOf(q.man) \subseteq Blobs
  BY PushableFacts, ManifestFacts DEF Fetched
<1> HIDE DEF h, C
<1>4. ASSUME NEW d \in Digests, Committed(d, All(q.todo))
      PROVE  Committed(d, All(n.todo))'
  <2>1. Committed(d, Rest(h) \cup C)'
    BY <1>2, <1>4, CommittedStays DEF h
  <2> QED BY <1>2, <2>1 DEF Committed, InStore
<1>5. ASSUME NEW r \in Repos, NEW b \in Blobs, Linked(r, b, All(q.todo))
      PROVE  Linked(r, b, All(n.todo))'
  <2>1. Linked(r, b, Rest(h) \cup C)'
    BY <1>2, <1>5, LinkedStays DEF h
  <2> QED BY <1>2, <2>1 DEF Linked, LinkKept
<1>6. ASSUME q.op = "pull", "repository" \notin q.locks, NEW b \in BlobsOf(q.man) \ q.left
      PROVE  Committed(b, All(n.todo))' /\ Linked(q.repo, b, All(n.todo))'
  BY <1>3, <1>4, <1>5, <1>6, DigestFacts DEF Fetched
<1>7. ASSUME q.op = "import", "repository" \notin q.locks, NEW b \in BlobsOf(q.man)
      PROVE  Committed(b, All(n.todo))'
  BY <1>3, <1>4, <1>7, DigestFacts DEF Fetched
<1> QED BY <1>6, <1>7 DEF Fetched

LEMMA GoesOK ==
  ASSUME StoreTypes, NEW q \in Process, ProcOK(q), q.todo # <<>>, Applies(Head(q.todo)),
         NEW n, n = Goes(q)
  PROVE  /\ n \in Process /\ ProcOK(n)' /\ n.op # "clean"
         /\ n.locks \subseteq q.locks
         /\ "repository" \in n.locks => n.repo = q.repo
         /\ n.op = "pull" => q.op = "pull"
<1> DEFINE s == q.todo
<1>1. s \in Seq(Ops) /\ Ahead(s) \in Seq(Ops) /\ Len(s) \in Nat /\ Len(s) > 0
  BY AheadFacts DEF Process
<1>2. q.op # "clean"
  BY DEF ProcOK, Marked
<1>3. ASSUME NEW m \in Process, m.op = q.op, m.repo = q.repo, m.man = q.man, m.tag = q.tag,
             m.left = q.left, m.locks = q.locks, m.todo = Ahead(s)
      PROVE  ProcOK(m)'
  <2>1. SeqOK(m, s, {})
    BY <1>3, SameLocks DEF ProcOK
  <2>2. "repository" \in m.locks \/ m.op = "mount" => m.repo \in Repos
    BY <1>3 DEF ProcOK
  <2>3. SeqOK(m, Ahead(s), {})'
    BY <1>1, <2>1, <2>2, AheadOK
  <2>4. Fetched(m)'
    BY <1>3, WritesKeepFetched DEF ProcOK
  <2>5. Marked(m)'
    BY <1>2, <1>3 DEF Marked
  <2> QED BY <1>3, <2>2, <2>3, <2>4, <2>5 DEF ProcOK
<1>4. CASE Head(s).do = "store" \/ Len(s) > 1
  <2>1. n = [q EXCEPT !.todo = Ahead(s)]
    <3>1. CASE Head(s).do = "store"
      BY <3>1 DEF Goes, Ahead
    <3>2. CASE Head(s).do # "store"
      BY <1>4, <3>2 DEF Goes, Ahead
    <3> QED BY <3>1, <3>2
  <2>2. /\ n \in Process /\ n.op = q.op /\ n.repo = q.repo /\ n.man = q.man /\ n.tag = q.tag
        /\ n.left = q.left /\ n.locks = q.locks /\ n.todo = Ahead(s)
    BY <1>1, <2>1 DEF Process
  <2> QED BY <1>2, <1>3, <2>2
<1>5. CASE Head(s).do # "store" /\ ~(Len(s) > 1)
  <2>1. Ahead(s) = <<>>
    <3>1. Len(Ahead(s)) = 0
      BY <1>1, <1>5, AheadFacts
    <3> QED BY <1>1, <3>1, EmptySeq
  <2>2. CASE "repository" \notin q.locks /\ q.op \in {"pull", "import"}
    <3>1. n = [q EXCEPT !.todo = <<>>, !.locks = IF q.op = "pull" THEN {} ELSE @]
      BY <1>5, <2>2 DEF Goes
    <3>2. /\ n \in Process /\ n.op = q.op /\ n.repo = q.repo /\ n.man = q.man /\ n.tag = q.tag
          /\ n.left = q.left /\ n.todo = <<>>
          /\ n.locks = IF q.op = "pull" THEN {} ELSE q.locks
      BY <3>1, NoOp DEF Process
    <3>3. Fetched(n)'
      BY <2>1, <2>2, <3>2, WritesKeepFetched DEF ProcOK
    <3>4. SeqOK(n, n.todo, {})'
      BY <3>2 DEF SeqOK
    <3>5. ProcOK(n)'
      BY <2>2, <3>2, <3>3, <3>4 DEF ProcOK, Marked
    <3> QED BY <2>2, <3>2, <3>5
  <2>3. CASE ~("repository" \notin q.locks /\ q.op \in {"pull", "import"})
    <3>1. n = Idle
      BY <1>5, <2>3 DEF Goes
    <3> QED BY <3>1, IdleFacts
  <2> QED BY <2>2, <2>3
<1> QED BY <1>4, <1>5
LEMMA StepWrites ==
  ASSUME IInv, NEW p \in Processes, Writes(p)
  PROVE  IInv'
<1>1. PICK q : q = proc[p]
  OBVIOUS
<1>2. PICK h : h = Head(q.todo)
  OBVIOUS
<1>3. PICK n : n = Goes(q)
  OBVIOUS
<1>4. /\ q \in Process /\ ProcOK(q) /\ q.todo # <<>> /\ q.todo \in Seq(Ops) /\ Applies(h)
      /\ proc' = [proc EXCEPT ![p] = n]
  BY <1>1, <1>2, <1>3, SharedFacts DEF Writes, Becomes, Process
<1>5. h \in Ops /\ OpOK(q, h, {})
  <2>1. 1 \in 1 .. Len(q.todo) /\ {} \cup Before(q.todo, 1) = {} /\ q.todo[1] = h /\ h \in Ops
    BY <1>2, <1>4, AheadFacts DEF Before
  <2> QED BY <1>4, <2>1 DEF ProcOK, SeqOK
<1>6. "repository" \in q.locks => q.repo \in Repos
  BY <1>4 DEF ProcOK
<1>7. StoreTypes /\ RevisionsAreWhole /\ TagsAreRevisions /\ LocksExclude
  BY DEF IInv
<1>8. /\ n \in Process /\ ProcOK(n)' /\ n.op # "clean" /\ n.locks \subseteq q.locks
      /\ "repository" \in n.locks => n.repo = q.repo
      /\ n.op = "pull" => q.op = "pull"
  BY <1>2, <1>3, <1>4, <1>7, GoesOK
<1>9. StoreTypes' /\ RevisionsAreWhole' /\ TagsAreRevisions'
  BY <1>4, <1>5, <1>6, <1>7, WritesKeepWhole, Effects
<1>10. ProcTypes'
  BY <1>4, <1>8 DEF IInv, ProcTypes
<1>11. /\ proc'[p] = n
       /\ \A c \in Processes : c # p => proc'[c] = proc[c]
  BY <1>4 DEF IInv, ProcTypes
<1>12. LocksExclude'
  <2>1. ASSUME NEW c \in Processes, NEW d \in Processes, c # d,
               "repository" \in proc'[c].locks, "repository" \in proc'[d].locks
        PROVE  proc'[c].repo # proc'[d].repo
    BY <1>1, <1>7, <1>8, <1>11, <2>1 DEF LocksExclude
  <2>2. ASSUME NEW c \in Processes, NEW d \in Processes, c # d, proc'[c].op = "clean"
        PROVE  "registry" \notin proc'[d].locks
    BY <1>1, <1>7, <1>8, <1>11, <2>2 DEF LocksExclude
  <2>3. ASSUME NEW c \in Processes, NEW d \in Processes, proc'[c].op = "clean"
        PROVE  proc'[d].op # "pull"
    BY <1>1, <1>7, <1>8, <1>11, <2>3 DEF LocksExclude
  <2> QED BY <2>1, <2>2, <2>3 DEF LocksExclude
<1>13. ASSUME NEW c \in Processes, NEW g \in Process, proc'[c] = g PROVE ProcOK(g)'
  <2>1. CASE c = p
    BY <1>8, <1>11, <1>13, <2>1
  <2>2. CASE c # p
    <3>1. proc[c] = g /\ ProcOK(g)
      BY <1>11, <1>13, <2>2 DEF IInv, ProcsOK
    <3>2. ASSUME "repository" \in g.locks
          PROVE  /\ tags'[g.repo] = tags[g.repo]
                 /\ \A m \in Manifests :
                      /\ rev'[g.repo][m] = rev[g.repo][m]
                      /\ <<g.repo, m>> \in deleted => <<g.repo, m>> \in deleted'
      <4>1. h.do \in {"store", "revision", "tags"} => h.repo # g.repo
        BY <1>1, <1>5, <1>7, <2>2, <3>1, <3>2 DEF OpOK, LocksExclude
      <4>2. g.repo \in Repos
        BY <3>1, <3>2 DEF ProcOK
      <4> QED BY <1>4, <1>5, <1>7, <4>1, <4>2, Effects
    <3>3. ASSUME g.op = "clean", NEW r \in Repos, NEW m \in Manifests, HasRevision(r, m)'
          PROVE  HasRevision(r, m)
      <4>1. ~Adds(h)
        BY <1>1, <1>5, <1>7, <2>2, <3>1, <3>3 DEF OpOK, AddOK, LocksExclude
      <4>2. CASE h.do = "revision" /\ r = h.repo /\ m = h.digest
        <5>1. rev'[r][m] = h.as
          BY <1>4, <1>5, <1>7, <4>2, Effects
        <5> QED BY <3>3, <4>1, <4>2, <5>1 DEF HasRevision, Adds
      <4>3. CASE ~(h.do = "revision" /\ r = h.repo /\ m = h.digest)
        <5>1. rev'[r][m] = rev[r][m]
          BY <1>4, <1>5, <1>7, <4>3, Effects
        <5> QED BY <3>3, <5>1 DEF HasRevision
      <4> QED BY <4>2, <4>3
    <3>4. /\ \A d \in Digests : InStore(d) => InStore(d)'
          /\ \A r \in Repos, b \in Blobs : LinkKept(r, b) => LinkKept(r, b)'
      BY <1>4, <1>5, <1>7, Effects
    <3> QED BY <3>1, <3>2, <3>3, <3>4, OthersKeep
  <2> QED BY <2>1, <2>2
<1> QED BY <1>9, <1>10, <1>12, <1>13 DEF IInv, ProcsOK

(* What a cleanup marks holds all that the revisions need. *)
LEMMA ReachedFacts ==
  ASSUME NEW r \in Repos, NEW m \in Manifests, HasRevision(r, m), InStore(m)
  PROVE  /\ m \in Referenced(r)
         /\ m \in Images => Needs(m) \subseteq Referenced(r)
BY DEF Referenced, Reached, IsImage

LEMMA StepCollectMarks ==
  ASSUME IInv, ~CleansDuringPulls, NEW p \in Processes, CollectMarks(p)
  PROVE  IInv'
<1> DEFINE Kept(r) == {b \in Blobs : link[r][b] = "new"}
           marks == UNION {Referenced(r) \cup Kept(r) : r \in Repos}
<1>1. PICK n : n = [Idle EXCEPT !.op = "clean", !.locks = {"registry"}, !.marked = marks]
  OBVIOUS
<1>2. /\ proc' = [proc EXCEPT ![p] = n]
      /\ link' = [r \in Repos |-> [b \in Blobs |->
           IF link[r][b] = "old" /\ b \notin Referenced(r) THEN "gone" ELSE link[r][b]]]
      /\ UNCHANGED <<blob, rev, tags, deleted>>
      /\ Alone /\ \A q \in Processes : proc[q].op # "pull"
  BY <1>1 DEF CollectMarks, Becomes
<1>3. marks \subseteq Digests
  <2>1. \A r \in Repos : Kept(r) \subseteq Digests
    BY DigestFacts
  <2>2. \A m \in Manifests : Reached(m) \subseteq Digests
    BY ManifestFacts, ImageFacts, DigestFacts DEF Reached, IsImage
  <2>3. \A r \in Repos : Referenced(r) \subseteq Digests
    BY <2>2 DEF Referenced
  <2> HIDE DEF Kept
  <2> QED BY <2>1, <2>3
<1>4. /\ n.op = "clean" /\ n.locks = {"registry"} /\ n.todo = <<>> /\ n.marked = marks
  BY <1>1 DEF Idle
<1>5. \A r \in Repos, m \in Manifests : HasRevision(r, m) =>
        m \in marks /\ (m \in Images => Needs(m) \subseteq marks)
  <2>1. \A r \in Repos : Referenced(r) \subseteq marks
    OBVIOUS
  <2>2. \A r \in Repos, m \in Manifests : HasRevision(r, m) =>
          m \in Referenced(r) /\ (m \in Images => Needs(m) \subseteq Referenced(r))
    BY ReachedFacts DEF IInv, RevisionsAreWhole
  <2> HIDE DEF marks
  <2> QED BY <2>1, <2>2
<1> HIDE DEF marks
<1>6. n \in Process
  BY <1>1, <1>3, IdleFacts DEF Process
<1>7. StoreTypes' /\ ProcTypes'
  BY <1>2, <1>6 DEF IInv, StoreTypes, ProcTypes, Ages
<1>8. /\ \A d : InStore(d)' <=> InStore(d)
      /\ \A r, m : HasRevision(r, m)' <=> HasRevision(r, m)
      /\ \A r, m : Revised(r, m, {})' <=> Revised(r, m, {})
  BY <1>2 DEF InStore, HasRevision, Revised
<1>9. ASSUME NEW r \in Repos, NEW b \in Referenced(r), b \in Blobs, LinkKept(r, b)
      PROVE  LinkKept(r, b)'
  BY <1>2, <1>9 DEF LinkKept
<1>10. RevisionsAreWhole'
  <2> SUFFICES ASSUME NEW r \in Repos, NEW m \in Manifests, HasRevision(r, m)
               PROVE  /\ InStore(m)
                      /\ m \in Images => \A b \in Needs(m) : InStore(b) /\ LinkKept(r, b)'
                      /\ \A i \in Entries(m) : Revised(r, i, {})
                      /\ m \in Images => rev[r][m] # "merged"
    BY <1>2, <1>8 DEF RevisionsAreWhole
  <2>1. /\ InStore(m)
        /\ m \in Images => \A b \in Needs(m) : InStore(b) /\ LinkKept(r, b)
        /\ \A i \in Entries(m) : Revised(r, i, {})
        /\ m \in Images => rev[r][m] # "merged"
    BY DEF IInv, RevisionsAreWhole
  <2>2. m \in Images => Needs(m) \subseteq Referenced(r) /\ Needs(m) \subseteq Blobs
    BY <2>1, ReachedFacts, ImageFacts
  <2> QED BY <1>9, <2>1, <2>2
<1>11. TagsAreRevisions'
  BY <1>2 DEF IInv, TagsAreRevisions, Revised, HasRevision
<1>12. /\ proc'[p] = n
       /\ \A c \in Processes : c # p => proc'[c] = proc[c]
  BY <1>2 DEF IInv, ProcTypes
<1>13. \A c \in Processes : "registry" \notin proc[c].locks /\ proc[c].op # "clean"
  BY <1>2, SharedFacts DEF Alone
<1>14. LocksExclude'
  BY <1>2, <1>4, <1>12, <1>13 DEF IInv, LocksExclude
<1>15. ASSUME NEW c \in Processes, NEW q \in Process, proc'[c] = q PROVE ProcOK(q)'
  <2>1. CASE c = p
    <3>1. q = n
      BY <1>12, <1>15, <2>1
    <3>2. Marked(n)'
      BY <1>4, <1>5, <1>8 DEF Marked
    <3> QED BY <1>4, <3>1, <3>2 DEF ProcOK, SeqOK, Fetched
  <2>2. CASE c # p
    <3>1. proc[c] = q /\ ProcOK(q)
      BY <1>12, <1>15, <2>2 DEF IInv, ProcsOK
    <3> QED BY <1>2, <1>8, <1>13, <3>1, OthersKeep
  <2> QED BY <2>1, <2>2
<1> QED BY <1>7, <1>10, <1>11, <1>14, <1>15 DEF IInv, ProcsOK

LEMMA StepCollectSweeps ==
  ASSUME IInv, NEW p \in Processes, CollectSweeps(p)
  PROVE  IInv'
<1>1. PICK q : q = proc[p]
  OBVIOUS
<1>2. /\ q.op = "clean"
      /\ blob' = [d \in Digests |-> IF blob[d] = "old" /\ d \notin q.marked THEN "gone" ELSE blob[d]]
      /\ proc' = [proc EXCEPT ![p] = Idle] /\ UNCHANGED <<link, rev, tags, deleted>>
  BY <1>1 DEF CollectSweeps, Becomes
<1>3. \A r \in Repos, m \in Manifests : HasRevision(r, m) =>
        m \in q.marked /\ (m \in Images => Needs(m) \subseteq q.marked)
  BY <1>1, <1>2, SharedFacts DEF ProcOK, Marked
<1>4. StoreTypes' /\ ProcTypes'
  BY <1>2, IdleFacts DEF IInv, StoreTypes, ProcTypes, Ages
<1>5. /\ \A d \in Digests : d \in q.marked /\ InStore(d) => InStore(d)'
      /\ \A r, m : HasRevision(r, m)' <=> HasRevision(r, m)
      /\ \A r, m : Revised(r, m, {})' <=> Revised(r, m, {})
      /\ \A r, b : LinkKept(r, b)' <=> LinkKept(r, b)
  BY <1>2 DEF InStore, HasRevision, Revised, LinkKept
<1>6. RevisionsAreWhole'
  <2> SUFFICES ASSUME NEW r \in Repos, NEW m \in Manifests, HasRevision(r, m)
               PROVE  /\ InStore(m)'
                      /\ m \in Images => \A b \in Needs(m) : InStore(b)' /\ LinkKept(r, b)
                      /\ \A i \in Entries(m) : Revised(r, i, {})
                      /\ m \in Images => rev[r][m] # "merged"
    BY <1>2, <1>5 DEF RevisionsAreWhole
  <2>1. /\ InStore(m)
        /\ m \in Images => \A b \in Needs(m) : InStore(b) /\ LinkKept(r, b)
        /\ \A i \in Entries(m) : Revised(r, i, {})
        /\ m \in Images => rev[r][m] # "merged"
    BY DEF IInv, RevisionsAreWhole
  <2>2. m \in Digests /\ (m \in Images => Needs(m) \subseteq Digests)
    BY ManifestFacts, ImageFacts, DigestFacts
  <2> QED BY <1>3, <1>5, <2>1, <2>2
<1>7. TagsAreRevisions'
  BY <1>2 DEF IInv, TagsAreRevisions, Revised, HasRevision
<1>8. /\ proc'[p] = Idle
      /\ \A c \in Processes : c # p => proc'[c] = proc[c]
  BY <1>2 DEF IInv, ProcTypes
<1>9. LocksExclude'
  BY <1>8, IdleFacts DEF IInv, LocksExclude
<1>10. ASSUME NEW c \in Processes, NEW g \in Process, proc'[c] = g PROVE ProcOK(g)'
  <2>1. CASE c = p
    BY <1>8, <1>10, <2>1, IdleFacts
  <2>2. CASE c # p
    <3>1. proc[c] = g /\ ProcOK(g)
      BY <1>8, <1>10, <2>2 DEF IInv, ProcsOK
    <3>2. "registry" \notin g.locks /\ g.op # "pull"
      BY <1>1, <1>2, <2>2, <3>1 DEF IInv, LocksExclude
    <3> QED BY <1>2, <1>5, <3>1, <3>2, OthersKeep
  <2> QED BY <2>1, <2>2
<1> QED BY <1>4, <1>6, <1>7, <1>9, <1>10 DEF IInv, ProcsOK

(***************************************************************************)
(* The theorem.                                                            *)
(***************************************************************************)
LEMMA InitOK == Init => IInv
<1> SUFFICES ASSUME Init PROVE IInv
  OBVIOUS
<1>1. PICK held \in [Repos -> SUBSET Images], stray \in {{}, Blobs} :
        LET Of(r) == UNION {Needs(i) : i \in held[r]}
            stored == stray \cup UNION {held[r] \cup Of(r) : r \in Repos}
        IN /\ blob = [d \in Digests |-> IF d \in stored THEN "old" ELSE "gone"]
           /\ link = [r \in Repos |-> [b \in Blobs |-> IF b \in Of(r) \cup stray
                                                 THEN "old" ELSE "gone"]]
           /\ rev = [r \in Repos |-> [m \in Manifests |->
                       IF m \in held[r] THEN "pushed" ELSE "none"]]
           /\ tags \in [Repos -> [Tags -> Images \cup {None}]]
           /\ \A r \in Repos, t \in Tags : IF held[r] = {} THEN tags[r][t] = None
                                           ELSE tags[r][t] \in held[r]
           /\ proc = [p \in Processes |-> Idle]
           /\ deleted = {}
  BY DEF Init
<1> DEFINE Of(r) == UNION {Needs(i) : i \in held[r]}
           stored == stray \cup UNION {held[r] \cup Of(r) : r \in Repos}
<1>2. /\ blob = [d \in Digests |-> IF d \in stored THEN "old" ELSE "gone"]
      /\ link = [r \in Repos |-> [b \in Blobs |-> IF b \in Of(r) \cup stray
                                            THEN "old" ELSE "gone"]]
      /\ rev = [r \in Repos |-> [m \in Manifests |->
                  IF m \in held[r] THEN "pushed" ELSE "none"]]
      /\ tags \in [Repos -> [Tags -> Images \cup {None}]]
      /\ \A r \in Repos, t \in Tags : IF held[r] = {} THEN tags[r][t] = None
                                      ELSE tags[r][t] \in held[r]
      /\ proc = [p \in Processes |-> Idle] /\ deleted = {}
  BY <1>1
<1>3. \A r \in Repos : \A i \in held[r] : /\ i \in stored /\ Needs(i) \subseteq stored
                                         /\ Needs(i) \subseteq Of(r) /\ i \in Images
  OBVIOUS
<1> HIDE DEF Of, stored
<1>4. StoreTypes
  BY <1>2, ImageFacts DEF StoreTypes, Ages
<1>5. ProcTypes
  BY <1>2, IdleFacts DEF ProcTypes
<1>6. RevisionsAreWhole
  <2> SUFFICES ASSUME NEW r \in Repos, NEW m \in Manifests, HasRevision(r, m)
               PROVE  /\ InStore(m)
                      /\ m \in Images => \A b \in Needs(m) : InStore(b) /\ LinkKept(r, b)
                      /\ \A i \in Entries(m) : Revised(r, i, {})
                      /\ m \in Images => rev[r][m] # "merged"
    BY DEF RevisionsAreWhole
  <2>1. m \in held[r] /\ rev[r][m] = "pushed"
    BY <1>2 DEF HasRevision
  <2>2. /\ m \in Images /\ m \in stored /\ Needs(m) \subseteq stored /\ Needs(m) \subseteq Of(r)
        /\ Needs(m) \subseteq Blobs /\ Needs(m) \subseteq Digests /\ m \in Digests /\ Entries(m) = {m}
    BY <1>3, <2>1, ImageFacts, ManifestFacts, DigestFacts
  <2>3. InStore(m) /\ \A b \in Needs(m) : InStore(b)
    BY <1>2, <2>2 DEF InStore
  <2>4. \A b \in Needs(m) : LinkKept(r, b)
    BY <1>2, <2>2 DEF LinkKept
  <2>5. \A i \in Entries(m) : Revised(r, i, {})
    BY <2>2 DEF Revised
  <2> QED BY <2>1, <2>3, <2>4, <2>5
<1>7. TagsAreRevisions
  <2> SUFFICES ASSUME NEW r \in Repos, NEW t \in Tags, tags[r][t] # None
               PROVE  Revised(r, tags[r][t], {})
    BY DEF TagsAreRevisions
  <2>1. tags[r][t] \in held[r] /\ tags[r][t] \in Manifests
    BY <1>2, <1>3, ImageFacts
  <2> QED BY <1>2, <2>1 DEF Revised, HasRevision
<1>8. LocksExclude
  BY <1>2, IdleFacts DEF LocksExclude
<1>9. ProcsOK
  BY <1>2, IdleFacts DEF ProcsOK
<1> QED BY <1>4, <1>5, <1>6, <1>7, <1>8, <1>9 DEF IInv

LEMMA StepOK == IInv /\ ~CleansDuringPulls /\ [Next]_vars => IInv'
<1> SUFFICES ASSUME IInv, ~CleansDuringPulls, [Next]_vars PROVE IInv'
  OBVIOUS
<1>1. CASE UNCHANGED vars
  <2>1. StoreUnchanged /\ UNCHANGED proc
    BY <1>1 DEF vars, StoreUnchanged
  <2>2. /\ StoreTypes' /\ ProcTypes' /\ LocksExclude'
    BY <2>1 DEF IInv, StoreTypes, ProcTypes, LocksExclude, StoreUnchanged
  <2>3. RevisionsAreWhole' /\ TagsAreRevisions'
    BY <2>1, WholeStays DEF IInv, StoreUnchanged, InStore, LinkKept
  <2>4. ASSUME NEW c \in Processes, NEW q \in Process, proc'[c] = q PROVE ProcOK(q)'
    <3>1. ProcOK(q)
      BY <2>1, <2>4 DEF IInv, ProcsOK
    <3> QED BY <2>1, <3>1, OthersKeep DEF StoreUnchanged, InStore, LinkKept, HasRevision
  <2> QED BY <2>2, <2>3, <2>4 DEF IInv, ProcsOK
<1>2. CASE Crash \/ Passes
  BY <1>2, StepCrash, StepPasses
<1>3. ASSUME NEW p \in Processes, Steps(p) PROVE IInv'
  BY <1>3, StepMountLinks, StepPullFetches, StepPullLocks, StepPullStores, StepImportStores,
     StepWrites, StepCollectSweeps DEF Steps
<1>4. ASSUME NEW p \in Processes, Fails(p) \/ CollectMarks(p) PROVE IInv'
  BY <1>4, StepFails, StepCollectMarks
<1>5. ASSUME NEW p \in Processes, NEW r \in Repos,
             \/ \E b \in Blobs : PushBlob(p, r, b) \/ DeleteBlob(p, r, b)
             \/ \E from \in Repos \ {r}, b \in Blobs : MountLooks(p, r, from, b)
             \/ \E m \in Pushable, t \in Tags \cup {None} : PutManifest(p, r, m, t)
             \/ \E m \in Manifests : DeleteManifest(p, r, m)
             \/ \E t \in Tags : Untag(p, r, t)
             \/ \E m \in Pushable, t \in Tags :
                  PullBegins(p, r, m, t) \/ ImportCommits(p, r, m, t)
      PROVE  IInv'
  BY <1>5, StepPushBlob, StepDeleteBlob, StepMountLooks, StepPutManifest, StepDeleteManifest,
     StepUntag, StepPullBegins, StepImportCommits
<1> QED BY <1>1, <1>2, <1>3, <1>4, <1>5 DEF Next

LEMMA RevisionsMeanWhole == IInv => TagsAreWhole
<1> SUFFICES ASSUME IInv, NEW r \in Repos, NEW t \in Tags, tags[r][t] # None
             PROVE  Whole(r, tags[r][t])
  BY DEF TagsAreWhole
<1>1. ASSUME NEW m \in Manifests, HasRevision(r, m)
      PROVE  InStore(m) /\ (m \in Images => WholeImage(r, m))
  BY <1>1 DEF IInv, RevisionsAreWhole, WholeImage, ThereOrDeleted, RepoBlob, LinkKept
<1>2. PICK m : m = tags[r][t]
  OBVIOUS
<1>3. m \in Manifests /\ Revised(r, m, {})
  BY <1>2 DEF IInv, StoreTypes, TagsAreRevisions
<1>4. CASE <<r, m>> \in deleted
  BY <1>2, <1>4 DEF Whole, ThereOrDeleted
<1>5. CASE HasRevision(r, m)
  <2>1. \A i \in Entries(m) : i \in Images /\ i \in Manifests /\ Revised(r, i, {})
    BY <1>3, <1>5, ManifestFacts, ImageFacts DEF IInv, RevisionsAreWhole
  <2>2. \A i \in Entries(m) : WholeImage(r, i)
    <3> TAKE i \in Entries(m)
    <3>1. CASE <<r, i>> \in deleted
      BY <3>1 DEF WholeImage, ThereOrDeleted
    <3>2. CASE HasRevision(r, i)
      BY <1>1, <2>1, <3>2
    <3> QED BY <2>1, <3>1, <3>2 DEF Revised
  <2> QED BY <1>1, <1>2, <1>3, <1>5, <2>2 DEF Whole, ThereOrDeleted
<1> QED BY <1>3, <1>4, <1>5 DEF Revised

(* As long as no cleanup falls into a pull, everything a tag names can be  *)
(* pulled but for what a client asked to be deleted (registry_transfer.go: *)
(* 18-26), for every number of processes, images and repositories.         *)
THEOREM TagsStayWhole == ~CleansDuringPulls => (Spec => []TagsAreWhole)
<1> SUFFICES ASSUME ~CleansDuringPulls PROVE Spec => []TagsAreWhole
  OBVIOUS
<1>1. IInv /\ [Next]_vars => IInv'
  BY StepOK
<1> QED BY InitOK, <1>1, RevisionsMeanWhole, PTL DEF Spec

(***************************************************************************)
(* Platforms that are pushed to one tag.                                   *)
(***************************************************************************)
(* A push writes the tags once, and what it writes keeps what the tag held *)
(* for other platforms, should that have been an image of the repository.  *)
OneTagWrite(s) ==
  \A j, k \in 1 .. Len(s) : s[j].do = "tags" /\ s[k].do = "tags" => j = k
KeepsPlatforms(q, x) ==
  LET now == tags[q.repo][q.tag]
  IN now # None =>
       \/ \A i \in Entries(now) : i \in Entries(x) \/ PlatformOf[i] \in {None, PlatformOf[q.man]}
       \/ ~HasRevision(q.repo, now) /\ \A o \in All(q.todo) : Adds(o) => o.digest # now
PutOK(q) ==
  q.op = "put" =>
    /\ "repository" \in q.locks /\ q.repo \in Repos
    /\ OneTagWrite(q.todo)
    /\ q.tag \in Tags /\ q.man \in Images /\ PlatformOf[q.man] # None =>
         \A o \in All(q.todo) : o.do = "tags" => KeepsPlatforms(q, o.tags[q.tag])
PutsOK == \A p \in Processes, q \in Process : proc[p] = q => PutOK(q)

LEMMA Joined ==
  ASSUME NEW s \in Seq(Ops), NEW u \in Seq(Ops)
  PROVE  /\ s \o u \in Seq(Ops) /\ All(s \o u) = All(s) \cup All(u)
         /\ OneTagWrite(s) /\ OneTagWrite(u)
              /\ ((\A o \in All(s) : o.do # "tags") \/ (\A o \in All(u) : o.do # "tags"))
              => OneTagWrite(s \o u)
<1> DEFINE n == Len(s)
<1>1. /\ s \o u \in Seq(Ops) /\ Len(s \o u) = n + Len(u) /\ n \in Nat /\ Len(u) \in Nat
      /\ \A i \in 1 .. n + Len(u) : (s \o u)[i] = IF i <= n THEN s[i] ELSE u[i - n]
  BY ConcatProperties, LenProperties
<1>2. All(s) = {s[j] : j \in 1 .. n} /\ All(u) = {u[j] : j \in 1 .. Len(u)}
      /\ All(s \o u) = {(s \o u)[i] : i \in 1 .. n + Len(u)}
  BY <1>1 DEF All
<1>3. \A i \in 1 .. n + Len(u) :
        \/ i \in 1 .. n /\ (s \o u)[i] = s[i]
        \/ i - n \in 1 .. Len(u) /\ (s \o u)[i] = u[i - n]
  <2> HIDE DEF n
  <2> QED BY <1>1
<1>4. \A j \in 1 .. n : j \in 1 .. n + Len(u) /\ (s \o u)[j] = s[j]
  <2> HIDE DEF n
  <2> QED BY <1>1
<1>5. \A j \in 1 .. Len(u) : n + j \in 1 .. n + Len(u) /\ (s \o u)[n + j] = u[j]
  <2> HIDE DEF n
  <2>1. ASSUME NEW j \in 1 .. Len(u)
        PROVE  n + j \in 1 .. n + Len(u) /\ ~(n + j <= n) /\ (n + j) - n = j
    BY <1>1
  <2> QED BY <1>1, <2>1
<1> HIDE DEF n
<1>6. All(s \o u) = All(s) \cup All(u)
  <2>1. ASSUME NEW i \in 1 .. n + Len(u) PROVE (s \o u)[i] \in All(s) \cup All(u)
    BY <1>2, <1>3
  <2>2. ASSUME NEW j \in 1 .. n PROVE s[j] \in All(s \o u)
    BY <1>2, <1>4
  <2>3. ASSUME NEW j \in 1 .. Len(u) PROVE u[j] \in All(s \o u)
    BY <1>2, <1>5
  <2> QED BY <1>2, <2>1, <2>2, <2>3
<1>7. ASSUME OneTagWrite(s), OneTagWrite(u),
             (\A o \in All(s) : o.do # "tags") \/ (\A o \in All(u) : o.do # "tags"),
             NEW j \in 1 .. n + Len(u), NEW k \in 1 .. n + Len(u),
             (s \o u)[j].do = "tags", (s \o u)[k].do = "tags"
      PROVE  j = k
  <2>1. CASE \A o \in All(s) : o.do # "tags"
    <3>1. j - n \in 1 .. Len(u) /\ (s \o u)[j] = u[j - n] /\ k - n \in 1 .. Len(u) /\ (s \o u)[k] = u[k - n]
      BY <1>2, <1>3, <1>7, <2>1
    <3>2. j - n = k - n
      BY <1>7, <3>1 DEF OneTagWrite
    <3> QED BY <1>1, <3>2
  <2>2. CASE \A o \in All(u) : o.do # "tags"
    <3>1. j \in 1 .. n /\ (s \o u)[j] = s[j] /\ k \in 1 .. n /\ (s \o u)[k] = s[k]
      BY <1>2, <1>3, <1>7, <2>2
    <3> QED BY <1>7, <3>1 DEF OneTagWrite, n
  <2> QED BY <1>7, <2>1, <2>2
<1> QED BY <1>1, <1>6, <1>7 DEF OneTagWrite

LEMMA AloneInSeq ==
  ASSUME NEW w \in Ops
  PROVE  <<w>> \in Seq(Ops) /\ All(<<w>>) = {w} /\ OneTagWrite(<<w>>)
<1>1. Len(<<w>>) = 1 /\ <<w>>[1] = w
  OBVIOUS
<1> QED BY <1>1 DEF All, OneTagWrite

LEMMA PointTagParts ==
  ASSUME StoreTypes, NEW r \in Repos, NEW t \in Tags, NEW m \in Manifests
  PROVE  /\ PointTag(r, t, m) \in Seq(Ops) /\ OneTagWrite(PointTag(r, t, m))
         /\ \A o \in All(PointTag(r, t, m)) : ~Adds(o) /\ (o.do = "tags" => o.tags[t] = m)
<1> DEFINE to == [tags[r] EXCEPT ![t] = m]
           w == WriteTags(r, to)
           v == DropMergedOrphan(r, tags[r][t], to)
<1>1. to \in [Tags -> Manifests \cup {None}] /\ to[t] = m
  BY DEF StoreTypes
<1> HIDE DEF to
<1>2. w \in Ops /\ w.do = "tags" /\ w.tags = to /\ ~Adds(w)
  BY <1>1, OpsAre DEF WriteTags, Adds
<1> HIDE DEF w
<1>3. <<w>> \in Seq(Ops) /\ All(<<w>>) = {w} /\ OneTagWrite(<<w>>)
  BY <1>2, AloneInSeq
<1>4. v \in Seq(Ops) /\ OneTagWrite(v) /\ \A o \in All(v) : ~Adds(o) /\ o.do # "tags"
  <2>1. CASE v = <<>>
    <3>1. Len(v) = 0 /\ All(v) = {} /\ v \in Seq(Ops)
      BY <2>1, NoOp
    <3> HIDE DEF v
    <3> QED BY <3>1 DEF OneTagWrite
  <2>2. CASE v # <<>>
    <3> DEFINE x == WriteRevision(r, tags[r][t], "none")
    <3>1. tags[r][t] \in Manifests /\ v = <<x>>
      BY <2>2 DEF DropMergedOrphan, StoreTypes
    <3>2. x \in Ops /\ x.do = "revision" /\ ~Adds(x)
      BY <3>1, OpsAre DEF WriteRevision, Adds
    <3> HIDE DEF v, x
    <3> QED BY <3>1, <3>2, AloneInSeq
  <2> QED BY <2>1, <2>2
<1>5. PointTag(r, t, m) = <<w>> \o v
  BY DEF PointTag, w, to
<1> HIDE DEF v
<1>6. /\ <<w>> \o v \in Seq(Ops) /\ All(<<w>> \o v) = {w} \cup All(v)
      /\ OneTagWrite(<<w>> \o v)
  BY <1>3, <1>4, Joined
<1> QED BY <1>1, <1>2, <1>4, <1>5, <1>6
(* What a push sets out to do keeps the other platforms. *)
LEMMA PutKeeps ==
  ASSUME IInv, NEW p \in Processes, NEW r \in Repos, NEW m \in Pushable,
         NEW t \in Tags \cup {None}, PutManifest(p, r, m, t),
         NEW n \in Process, proc'[p] = n
  PROVE  PutOK(n)
<1> DEFINE w == StoreManifest(r, m, "pushed")
           u == IF t = None THEN <<>> ELSE TagManifest(r, t, m)
           now == tags[r][t]
<1>1. /\ n.op = "put" /\ n.repo = r /\ n.man = m /\ n.tag = t
      /\ n.locks = {"registry", "repository"} /\ n.todo = <<w>> \o u
  <2>1. n = [Idle EXCEPT !.op = "put", !.repo = r, !.man = m, !.tag = t,
                         !.locks = {"registry", "repository"}, !.todo = <<w>> \o u]
    BY DEF PutManifest, Becomes, IInv, ProcTypes
  <2> QED BY <2>1 DEF Idle
<1>2. m \in Manifests
  BY PushableFacts
<1>3. w \in Ops /\ w.do = "store" /\ w.digest = m
  BY <1>2, OpsAre DEF StoreManifest
<1>4. StoreTypes /\ RevisionsAreWhole
  BY DEF IInv
<1>5. <<w>> \in Seq(Ops) /\ All(<<w>>) = {w} /\ OneTagWrite(<<w>>)
  BY <1>3, AloneInSeq
<1> DEFINE Kept(x) == now # None =>
             \/ \A i \in Entries(now) : i \in Entries(x) \/ PlatformOf[i] \in {None, PlatformOf[m]}
             \/ ~HasRevision(r, now) /\ m # now
<1>6. ASSUME t \in Tags, m \in Images, PlatformOf[m] # None, ~Merges(r, t, m) PROVE Kept(m)
  <2> SUFFICES ASSUME now # None, HasRevision(r, now), now # m
               PROVE  \A i \in Entries(now) : PlatformOf[i] \in {None, PlatformOf[m]}
    OBVIOUS
  <2>1. now \in Manifests /\ InStore(now)
    BY <1>4, <1>6 DEF StoreTypes, RevisionsAreWhole
  <2>2. PlatformKnown(m)
    <3>1. HasReferences(r, m) /\ IsImage(m)
      BY <1>6 DEF PutManifest, IsImage
    <3> QED BY <1>6, <3>1, ImageFacts DEF HasReferences, PlatformKnown, RepoBlob
  <2>3. IsImage(now) /\ ~(PlatformKnown(now) /\ PlatformOf[now] # PlatformOf[m])
    BY <1>6, <2>1, <2>2 DEF Merges, IsImage
  <2>4. InStore(ConfigOf[now])
    BY <1>4, <2>1, <2>3, ImageFacts DEF RevisionsAreWhole, IsImage
  <2> QED BY <2>3, <2>4, ImageFacts DEF PlatformKnown, IsImage
<1>7. ASSUME t # None
      PROVE  /\ u \in Seq(Ops) /\ OneTagWrite(u)
             /\ m \in Images /\ PlatformOf[m] # None =>
                  \A o \in All(u) :
                    /\ Adds(o) => o.digest # now
                    /\ o.do = "tags" => Kept(o.tags[t])
  <2>1. u = TagManifest(r, t, m) /\ t \in Tags
    BY <1>7
  <2> HIDE DEF u
  <2>2. CASE ~Merges(r, t, m)
    <3>1. u = PointTag(r, t, m)
      BY <2>1, <2>2 DEF TagManifest
    <3>2. /\ u \in Seq(Ops) /\ OneTagWrite(u)
          /\ \A o \in All(u) : ~Adds(o) /\ (o.do = "tags" => o.tags[t] = m)
      BY <1>2, <1>4, <2>1, <3>1, PointTagParts
    <3> QED BY <1>6, <2>1, <2>2, <3>2
  <2>3. CASE Merges(r, t, m) /\ m \in Entries(now)
    <3>1. u = <<>>
      BY <2>1, <2>3 DEF TagManifest
    <3>2. Len(u) = 0 /\ All(u) = {} /\ u \in Seq(Ops)
      BY <3>1, NoOp
    <3> QED BY <3>2 DEF OneTagWrite
  <2>4. CASE Merges(r, t, m) /\ m \notin Entries(now)
    <3> DEFINE others == {i \in Entries(now) : PlatformOf[i] # PlatformOf[m]}
               index == Index(others \cup {m}, "registry")
               x == StoreManifest(r, index, "merged")
               v == PointTag(r, t, index)
    <3>1. /\ m \in Images /\ now \in Manifests
      BY <1>4, <2>1, <2>4 DEF Merges, IsImage, StoreTypes
    <3>2. others \cup {m} \in SUBSET Images /\ others \subseteq Entries(now)
      BY <3>1, ManifestFacts
    <3>3. /\ index \in Manifests /\ index \notin Images /\ Entries(index) = others \cup {m}
      BY <3>2, IndexFacts
    <3>4. index # now
      BY <2>4, <3>3
    <3>5. u = <<x>> \o v
      BY <2>1, <2>4 DEF TagManifest
    <3>6. \A i \in Entries(now) : i \in Entries(index) \/ PlatformOf[i] = PlatformOf[m]
      BY <3>3
    <3> HIDE DEF index
    <3>7. x \in Ops /\ x.do = "store" /\ x.digest = index
      BY <3>3, OpsAre DEF StoreManifest
    <3> HIDE DEF x
    <3>8. <<x>> \in Seq(Ops) /\ All(<<x>>) = {x} /\ OneTagWrite(<<x>>)
      BY <3>7, AloneInSeq
    <3>9. /\ v \in Seq(Ops) /\ OneTagWrite(v)
          /\ \A o \in All(v) : ~Adds(o) /\ (o.do = "tags" => o.tags[t] = index)
      BY <1>4, <2>1, <3>3, PointTagParts
    <3> HIDE DEF v
    <3>10. <<x>> \o v \in Seq(Ops) /\ All(<<x>> \o v) = {x} \cup All(v) /\ OneTagWrite(<<x>> \o v)
      BY <3>7, <3>8, <3>9, Joined
    <3>11. Kept(index)
      BY <3>6
    <3> HIDE DEF Kept, now
    <3>12. ASSUME NEW o \in All(u)
           PROVE  (Adds(o) => o.digest # now) /\ (o.do = "tags" => Kept(o.tags[t]))
      <4>1. o = x \/ o \in All(v)
        BY <3>5, <3>10, <3>12
      <4> QED BY <3>4, <3>7, <3>9, <3>11, <4>1
    <3> QED BY <3>5, <3>10, <3>12
  <2> QED BY <2>2, <2>3, <2>4
<1>8. u \in Seq(Ops) /\ OneTagWrite(u)
  <2>1. CASE t = None
    <3>1. u = <<>>
      BY <2>1
    <3>2. Len(u) = 0 /\ u \in Seq(Ops)
      BY <3>1, NoOp
    <3> HIDE DEF u
    <3> QED BY <3>2 DEF OneTagWrite
  <2> QED BY <1>7, <2>1
<1> HIDE DEF u, w
<1>9. /\ All(n.todo) = {w} \cup All(u) /\ OneTagWrite(n.todo)
  BY <1>1, <1>3, <1>5, <1>8, Joined
<1>10. ASSUME t \in Tags, m \in Images, PlatformOf[m] # None, NEW o \in All(n.todo), o.do = "tags"
       PROVE  KeepsPlatforms(n, o.tags[t])
  <2>1. CASE t = None
    <3>1. All(u) = {}
      BY <2>1, NoOp DEF u
    <3> QED BY <1>3, <1>9, <1>10, <3>1
  <2>2. CASE t # None
    <3>1. o \in All(u) /\ Kept(o.tags[t])
      BY <1>3, <1>7, <1>9, <1>10, <2>2
    <3>2. \A c \in All(u) : Adds(c) => c.digest # now
      BY <1>7, <1>10, <2>2
    <3> QED BY <1>1, <1>3, <1>9, <3>1, <3>2 DEF KeepsPlatforms
  <2> QED BY <2>1, <2>2
<1> QED BY <1>1, <1>9, <1>10 DEF PutOK

(* A push goes on as it set out. *)
LEMMA GoesKeeps ==
  ASSUME StoreTypes, NEW q \in Process, ProcOK(q), PutOK(q), q.todo # <<>>, Applies(Head(q.todo)),
         NEW n, n = Goes(q)
  PROVE  PutOK(n)'
<1> DEFINE s == q.todo
           h == Head(s)
           C == Later(s, Len(s))
<1>1. /\ s \in Seq(Ops) /\ Ahead(s) \in Seq(Ops) /\ Len(s) \in Nat /\ Len(s) > 0
      /\ h \in Ops /\ h = s[1]
  BY AheadFacts DEF Process
<1>2. CASE ~(h.do = "store" \/ Len(s) > 1) \/ q.op # "put"
  <2>1. n.op # "put"
    BY <1>2, IdleFacts DEF Goes, Process
  <2> QED BY <2>1 DEF PutOK
<1>3. CASE (h.do = "store" \/ Len(s) > 1) /\ q.op = "put"
  <2>1. n = [q EXCEPT !.todo = Ahead(s)]
    <3>1. CASE Head(s).do = "store"
      BY <3>1 DEF Goes, Ahead
    <3>2. CASE Head(s).do # "store"
      BY <1>3, <3>2 DEF Goes, Ahead
    <3> QED BY <3>1, <3>2
  <2>2. /\ n.op = q.op /\ n.repo = q.repo /\ n.man = q.man /\ n.tag = q.tag
        /\ n.locks = q.locks /\ n.todo = Ahead(s)
    BY <1>1, <2>1 DEF Process
  <2>3. /\ "repository" \in q.locks /\ q.repo \in Repos /\ OneTagWrite(s)
        /\ q.tag \in Tags /\ q.man \in Images /\ PlatformOf[q.man] # None =>
             \A o \in All(s) : o.do = "tags" => KeepsPlatforms(q, o.tags[q.tag])
    BY <1>3 DEF PutOK
  <2>4. All(s) = {h} \cup C /\ All(Ahead(s)) = Rest(h) \cup C
    BY <1>1, AheadParts
  <2>5. \A o \in All(Ahead(s)) : o.do = "tags" => o \in All(s) /\ o \in C
    BY <1>1, <2>4, RestFacts
  <2>6. \A o \in All(Ahead(s)) : Adds(o) => \E a \in All(s) : Adds(a) /\ a.digest = o.digest
    BY <1>1, <2>4, RestFacts
  <2>7. OneTagWrite(Ahead(s))
    <3>1. CASE h.do = "store"
      <4>1. Len(Ahead(s)) = Len(s) /\ Ahead(s)[1].do = "revision" /\ \A k \in 2 .. Len(s) : Ahead(s)[k] = s[k]
        <5>1. /\ Len(Ahead(s)) = Len(s) /\ Ahead(s)[1] = WriteRevision(h.repo, h.digest, h.as)
              /\ \A k \in 2 .. Len(s) : Ahead(s)[k] = s[k]
          BY <1>1, <3>1, AheadFacts
        <5>2. WriteRevision(h.repo, h.digest, h.as).do = "revision"
          BY DEF WriteRevision
        <5> QED BY <5>1, <5>2
      <4>2. \A k \in 1 .. Len(s) : k = 1 \/ k \in 2 .. Len(s)
        BY <1>1
      <4> HIDE DEF s
      <4> QED BY <2>3, <4>1, <4>2 DEF OneTagWrite
    <3>2. CASE h.do # "store"
      <4>1. Len(Ahead(s)) = Len(s) - 1 /\ \A k \in 1 .. Len(s) - 1 : Ahead(s)[k] = s[k + 1]
        BY <1>1, <3>2, AheadFacts
      <4>2. \A k \in 1 .. Len(s) - 1 : k + 1 \in 1 .. Len(s)
        BY <1>1
      <4>3. ASSUME NEW j \in 1 .. Len(s) - 1, NEW k \in 1 .. Len(s) - 1, j + 1 = k + 1 PROVE j = k
        BY <1>1, <4>3
      <4> HIDE DEF s
      <4> QED BY <2>3, <4>1, <4>2, <4>3, SMTT(30) DEF OneTagWrite
    <3> QED BY <3>1, <3>2
  <2>8. ASSUME q.tag \in Tags, q.man \in Images, PlatformOf[q.man] # None,
               NEW o \in All(Ahead(s)), o.do = "tags"
        PROVE  KeepsPlatforms(n, o.tags[q.tag])'
    <3>1. o \in C /\ o \in All(s) /\ KeepsPlatforms(q, o.tags[q.tag])
      BY <2>3, <2>5, <2>8
    <3>2. h.do # "tags"
      <4>1. PICK j \in 2 .. Len(s) : o = s[j]
        BY <3>1 DEF Later
      <4>2. 1 \in 1 .. Len(s) /\ j \in 1 .. Len(s) /\ j # 1
        BY <1>1, <4>1
      <4> HIDE DEF s, h
      <4> QED BY <1>1, <2>3, <2>8, <4>1, <4>2 DEF OneTagWrite
    <3>3. tags'[q.repo] = tags[q.repo]
      BY <1>1, <2>3, <3>2, Effects
    <3>4. PICK now : now = tags[q.repo][q.tag]
      OBVIOUS
    <3>5. CASE now = None
      BY <2>2, <3>3, <3>4, <3>5 DEF KeepsPlatforms
    <3>6. CASE now # None /\ \A i \in Entries(now) : i \in Entries(o.tags[q.tag])
                                                    \/ PlatformOf[i] \in {None, PlatformOf[q.man]}
      BY <2>2, <3>3, <3>4, <3>6 DEF KeepsPlatforms
    <3>7. CASE now # None /\ ~HasRevision(q.repo, now) /\ \A a \in All(s) : Adds(a) => a.digest # now
      <4>1. \A a \in All(Ahead(s)) : Adds(a) => a.digest # now
        BY <2>6, <3>7
      <4>2. now \in Manifests
        BY <2>3, <2>8, <3>4, <3>7 DEF StoreTypes
      <4>3. ~HasRevision(q.repo, now)'
        <5>1. CASE h.do = "revision" /\ q.repo = h.repo /\ now = h.digest
          <6>1. ~Adds(h) /\ rev'[q.repo][now] = h.as
            BY <1>1, <2>4, <3>7, <5>1, Effects
          <6> QED BY <5>1, <6>1 DEF HasRevision, Adds
        <5>2. CASE ~(h.do = "revision" /\ q.repo = h.repo /\ now = h.digest)
          <6>1. rev'[q.repo][now] = rev[q.repo][now]
            BY <1>1, <2>3, <4>2, <5>2, Effects
          <6> QED BY <3>7, <6>1 DEF HasRevision
        <5> QED BY <5>1, <5>2
      <4> QED BY <2>2, <3>3, <3>4, <4>1, <4>3 DEF KeepsPlatforms
    <3>8. QED BY <3>1, <3>4, <3>5, <3>6, <3>7 DEF KeepsPlatforms
  <2> QED BY <2>2, <2>3, <2>7, <2>8 DEF PutOK
<1> QED BY <1>2, <1>3
LEMMA PutStays ==
  ASSUME NEW q, PutOK(q), UNCHANGED <<rev, tags>>
  PROVE  PutOK(q)'
<1>1. \A x : KeepsPlatforms(q, x) => KeepsPlatforms(q, x)'
  BY DEF KeepsPlatforms, HasRevision
<1> QED BY <1>1 DEF PutOK

(* A step of p that is no push, and writes no revisions and no tags. *)
LEMMA OtherStep ==
  ASSUME IInv, PutsOK, NEW p \in Processes, NEW n, n.op # "put",
         proc' = [proc EXCEPT ![p] = n], UNCHANGED <<rev, tags>>
  PROVE  PutsOK'
<1> SUFFICES ASSUME NEW c \in Processes, NEW g \in Process, proc'[c] = g PROVE PutOK(g)'
  BY DEF PutsOK
<1>1. CASE c = p
  <2>1. g = n
    BY <1>1 DEF IInv, ProcTypes
  <2> QED BY <2>1 DEF PutOK
<1>2. CASE c # p
  <2>1. PutOK(g)
    BY <1>2 DEF PutsOK, IInv, ProcTypes
  <2> QED BY <2>1, PutStays
<1> QED BY <1>1, <1>2

LEMMA PutsStep ==
  ASSUME IInv, PutsOK, [Next]_vars
  PROVE  PutsOK'
<1>0. proc \in [Processes -> Process]
  BY DEF IInv, ProcTypes
<1>1. ASSUME UNCHANGED <<rev, tags, proc>> PROVE PutsOK'
  BY <1>1, PutStays DEF PutsOK
<1>2. CASE UNCHANGED vars \/ Passes
  BY <1>1, <1>2 DEF vars, Passes
<1>3. CASE Crash
  <2> SUFFICES ASSUME NEW c \in Processes, NEW g \in Process, proc'[c] = g PROVE PutOK(g)'
    BY DEF PutsOK
  <2>1. g = Idle
    BY <1>3 DEF Crash
  <2> QED BY <2>1, IdleFacts DEF PutOK
<1>4. ASSUME NEW p \in Processes, Writes(p) PROVE PutsOK'
  <2>1. PICK q : q = proc[p]
    OBVIOUS
  <2>2. PICK n : n = Goes(q)
    OBVIOUS
  <2>3. PICK h : h = Head(q.todo)
    OBVIOUS
  <2>4. /\ q \in Process /\ ProcOK(q) /\ PutOK(q) /\ q.todo # <<>> /\ q.todo \in Seq(Ops)
        /\ Applies(h) /\ proc' = [proc EXCEPT ![p] = n]
    BY <1>4, <2>1, <2>2, <2>3, SharedFacts DEF Writes, Becomes, Process, PutsOK
  <2>5. h \in Ops /\ OpOK(q, h, {}) /\ StoreTypes /\ LocksExclude
    <3>1. 1 \in 1 .. Len(q.todo) /\ {} \cup Before(q.todo, 1) = {} /\ q.todo[1] = h /\ h \in Ops
      BY <2>3, <2>4, AheadFacts DEF Before
    <3> QED BY <2>4, <3>1 DEF ProcOK, SeqOK, IInv
  <2> SUFFICES ASSUME NEW c \in Processes, NEW g \in Process, proc'[c] = g PROVE PutOK(g)'
    BY DEF PutsOK
  <2>6. CASE c = p
    <3>1. g = n
      BY <1>0, <2>4, <2>6
    <3> QED BY <2>2, <2>3, <2>4, <2>5, <3>1, GoesKeeps
  <2>7. CASE c # p
    <3>1. proc[c] = g /\ PutOK(g) /\ ProcOK(g)
      BY <1>0, <2>4, <2>7 DEF PutsOK, IInv, ProcsOK
    <3>2. CASE "repository" \notin g.locks
      BY <3>1, <3>2 DEF PutOK
    <3>3. CASE "repository" \in g.locks
      <4>1. h.do \in {"store", "revision", "tags"} => h.repo # g.repo
        BY <2>1, <2>5, <2>7, <3>1, <3>3 DEF OpOK, LocksExclude
      <4>2. g.repo \in Repos
        BY <3>1, <3>3 DEF ProcOK
      <4>3. tags'[g.repo] = tags[g.repo] /\ \A m \in Manifests : rev'[g.repo][m] = rev[g.repo][m]
        BY <2>4, <2>5, <4>1, <4>2, Effects
      <4>4. ASSUME g.tag \in Tags, NEW x, KeepsPlatforms(g, x) PROVE KeepsPlatforms(g, x)'
        <5>1. tags[g.repo][g.tag] # None => tags[g.repo][g.tag] \in Manifests
          BY <2>5, <4>2, <4>4 DEF StoreTypes
        <5> QED BY <4>3, <4>4, <5>1 DEF KeepsPlatforms, HasRevision
      <4> QED BY <3>1, <4>4 DEF PutOK
    <3> QED BY <3>2, <3>3
  <2> QED BY <2>6, <2>7
<1>5. ASSUME NEW p \in Processes, NEW r \in Repos, NEW m \in Pushable,
             NEW t \in Tags \cup {None}, PutManifest(p, r, m, t)
      PROVE  PutsOK'
  <2>1. UNCHANGED <<rev, tags>>
    BY <1>5 DEF PutManifest, StoreUnchanged
  <2> SUFFICES ASSUME NEW c \in Processes, NEW g \in Process, proc'[c] = g PROVE PutOK(g)'
    BY DEF PutsOK
  <2>2. CASE c = p
    <3>1. PutOK(g)
      BY <1>5, <2>2, PutKeeps
    <3> QED BY <2>1, <3>1, PutStays
  <2>3. CASE c # p
    <3>1. PutOK(g)
      BY <1>0, <1>5, <2>3 DEF PutsOK, PutManifest, Becomes
    <3> QED BY <2>1, <3>1, PutStays
  <2> QED BY <2>2, <2>3
<1>6. ASSUME NEW p \in Processes, Fails(p) PROVE PutsOK'
  BY <1>6, IdleFacts, OtherStep DEF Fails, Becomes, StoreUnchanged
<1>7. ASSUME NEW p \in Processes, CollectMarks(p) PROVE PutsOK'
  <2>1. PICK n : n = [Idle EXCEPT !.op = "clean", !.locks = {"registry"},
          !.marked = UNION {Referenced(r) \cup {b \in Blobs : link[r][b] = "new"} : r \in Repos}]
    OBVIOUS
  <2>2. n.op = "clean"
    BY <2>1 DEF Idle
  <2> QED BY <1>7, <2>1, <2>2, OtherStep DEF CollectMarks, Becomes
<1>8. ASSUME NEW p \in Processes, CollectSweeps(p) PROVE PutsOK'
  BY <1>8, IdleFacts, OtherStep DEF CollectSweeps, Becomes
<1>9. ASSUME NEW p \in Processes,
             MountLinks(p) \/ PullFetches(p) \/ PullLocks(p) \/ PullStores(p) \/ ImportStores(p)
      PROVE  PutsOK'
  <2>1. PICK q : q = proc[p]
    OBVIOUS
  <2>2. q \in Process /\ q.op # "put" /\ UNCHANGED <<rev, tags>>
    BY <1>0, <1>9, <2>1
       DEF MountLinks, PullFetches, PullLocks, PullStores, ImportStores, StoreUnchanged
  <2>3. \E n : n.op # "put" /\ proc' = [proc EXCEPT ![p] = n]
    <3>1. CASE MountLinks(p)
      <4>1. PICK b \in q.left :
              proc' = [proc EXCEPT ![p] = [q EXCEPT !.left = {}, !.locks = {"registry"},
                                                    !.todo = <<LinkBlob(q.repo, b)>>]]
        BY <2>1, <3>1 DEF MountLinks, Becomes
      <4> QED BY <2>2, <4>1 DEF Process
    <3>2. CASE PullFetches(p)
      <4>1. PICK b \in q.left :
              proc' = [proc EXCEPT ![p] =
                [q EXCEPT !.left = @ \ {b},
                          !.todo = (IF InStore(b) THEN <<>> ELSE <<CommitBlob(b)>>)
                                     \o <<LinkBlob(q.repo, b)>>]]
        BY <2>1, <3>2 DEF PullFetches, Becomes
      <4> QED BY <2>2, <4>1 DEF Process
    <3>3. CASE PullLocks(p)
      <4>1. proc' = [proc EXCEPT ![p] = [q EXCEPT !.locks = {"registry"}]]
        BY <1>0, <2>1, <2>2, <3>3 DEF PullLocks, Process
      <4> QED BY <2>2, <4>1 DEF Process
    <3>4. CASE PullStores(p)
      <4>1. proc' = [proc EXCEPT ![p] =
              [q EXCEPT !.locks = {"registry", "repository"}, !.todo = StorePulled(q)]]
        BY <2>1, <3>4 DEF PullStores, Becomes
      <4> QED BY <2>2, <4>1 DEF Process
    <3>5. CASE ImportStores(p)
      <4>1. proc' = [proc EXCEPT ![p] =
              [q EXCEPT !.locks = @ \cup {"repository"},
                        !.todo = Links(q.repo, BlobsOf(q.man)) \o StorePulled(q)]]
        BY <2>1, <3>5 DEF ImportStores, Becomes
      <4> QED BY <2>2, <4>1 DEF Process
    <3> QED BY <1>9, <3>1, <3>2, <3>3, <3>4, <3>5
  <2> QED BY <2>2, <2>3, OtherStep
<1>10. ASSUME NEW p \in Processes, NEW r \in Repos,
              \/ \E b \in Blobs : PushBlob(p, r, b)
              \/ \E from \in Repos \ {r}, b \in Blobs : MountLooks(p, r, from, b)
              \/ \E m \in Manifests : DeleteManifest(p, r, m)
              \/ \E t \in Tags : Untag(p, r, t)
              \/ \E m \in Pushable, t \in Tags :
                   PullBegins(p, r, m, t) \/ ImportCommits(p, r, m, t)
       PROVE  PutsOK'
  <2>1. \E n : n.op # "put" /\ proc' = [proc EXCEPT ![p] = n] /\ UNCHANGED <<rev, tags>>
    <3>1. CASE \E b \in Blobs : PushBlob(p, r, b)
      BY <3>1 DEF PushBlob, Becomes, StoreUnchanged, Idle
    <3>2. CASE \E from \in Repos \ {r}, b \in Blobs : MountLooks(p, r, from, b)
      BY <3>2 DEF MountLooks, Becomes, StoreUnchanged, Idle
    <3>3. CASE \E m \in Manifests : DeleteManifest(p, r, m)
      BY <3>3 DEF DeleteManifest, Becomes, Idle
    <3>4. CASE \E t \in Tags : Untag(p, r, t)
      BY <3>4 DEF Untag, Becomes, StoreUnchanged, Idle
    <3>5. CASE \E m \in Pushable, t \in Tags : PullBegins(p, r, m, t)
      BY <3>5 DEF PullBegins, Becomes, StoreUnchanged, Idle
    <3>6. CASE \E m \in Pushable, t \in Tags : ImportCommits(p, r, m, t)
      BY <3>6 DEF ImportCommits, Becomes, StoreUnchanged, Idle
    <3> QED BY <1>10, <3>1, <3>2, <3>3, <3>4, <3>5, <3>6
  <2> QED BY <2>1, OtherStep
<1>11. ASSUME NEW p \in Processes, NEW r \in Repos, NEW b \in Blobs, DeleteBlob(p, r, b)
       PROVE  PutsOK'
  BY <1>1, <1>11 DEF DeleteBlob
<1> QED BY <1>2, <1>3, <1>4, <1>5, <1>6, <1>7, <1>8, <1>9, <1>10, <1>11 DEF Next, Steps

LEMMA PutsInit == Init => PutsOK
BY IdleFacts DEF Init, PutsOK, PutOK

(* A push that changes its tag leaves what the tag held for others. *)
LEMMA KeepsStep ==
  ASSUME IInv, PutsOK, [Next]_vars,
         NEW p \in Processes, NEW r \in Repos, NEW t \in Tags,
         Pushes(p, r, t), proc'[p] # proc[p], tags'[r][t] # tags[r][t],
         tags[r][t] # None, HasRevision(r, tags[r][t])
  PROVE  \A i \in Entries(tags[r][t]) :
           i \in Entries(tags'[r][t]) \/ PlatformOf[i] \in {None, PlatformOf[proc[p].man]}
<1>1. PICK c \in Processes : Writes(c)
  <2>1. Next /\ tags' # tags
    BY DEF vars
  <2>2. ~Crash /\ ~Passes
    BY <2>1 DEF Crash, Passes, StoreUnchanged
  <2>3. ASSUME NEW c \in Processes, Steps(c) PROVE Writes(c)
    BY <2>1, <2>3 DEF Steps, MountLinks, PullFetches, PullLocks, PullStores, ImportStores,
                      CollectSweeps, StoreUnchanged
  <2>4. \A c \in Processes : ~Fails(c) /\ ~CollectMarks(c)
    BY <2>1 DEF Fails, CollectMarks, StoreUnchanged
  <2>5. \A c, x : \A b : ~PushBlob(c, x, b) /\ ~DeleteBlob(c, x, b)
    BY <2>1 DEF PushBlob, DeleteBlob, StoreUnchanged
  <2>6. \A c, x : \A from, b : ~MountLooks(c, x, from, b)
    BY <2>1 DEF MountLooks, StoreUnchanged
  <2>7. \A c, x : \A m, u : ~PutManifest(c, x, m, u) /\ ~PullBegins(c, x, m, u)
                          /\ ~ImportCommits(c, x, m, u)
    BY <2>1 DEF PutManifest, PullBegins, ImportCommits, StoreUnchanged
  <2>8. \A c, x : \A m : ~DeleteManifest(c, x, m) /\ ~Untag(c, x, m)
    BY <2>1 DEF DeleteManifest, Untag, StoreUnchanged
  <2> QED BY <2>1, <2>2, <2>3, <2>4, <2>5, <2>6, <2>7, <2>8 DEF Next
<1>2. c = p
  BY <1>1 DEF Writes, Becomes, IInv, ProcTypes
<1>3. PICK q : q = proc[p]
  OBVIOUS
<1>4. PICK h : h = Head(q.todo)
  OBVIOUS
<1>5. /\ q \in Process /\ ProcOK(q) /\ PutOK(q) /\ q.todo # <<>> /\ q.todo \in Seq(Ops) /\ Applies(h)
      /\ StoreTypes
  BY <1>1, <1>2, <1>3, <1>4, SharedFacts DEF Writes, Process, PutsOK, IInv
<1>6. h \in Ops /\ h \in All(q.todo)
  <2>1. 1 \in 1 .. Len(q.todo) /\ q.todo[1] = h /\ h \in Ops
    BY <1>4, <1>5, AheadFacts
  <2> QED BY <2>1 DEF All
<1>7. h.do = "tags" /\ h.repo = r /\ tags'[r] = h.tags
  BY <1>5, <1>6, Effects
<1>8. /\ q.op = "put" /\ q.repo = r /\ q.tag = t /\ q.man \in Images /\ PlatformOf[q.man] # None
  BY <1>3 DEF Pushes, IsImage
<1>9. KeepsPlatforms(q, h.tags[t])
  BY <1>5, <1>6, <1>7, <1>8 DEF PutOK
<1> QED BY <1>3, <1>7, <1>8, <1>9 DEF KeepsPlatforms

(* Of platforms that are pushed to one tag at once none is lost: a push of *)
(* an image takes from its tag what it replaces and nothing else           *)
(* (registry_manifest.go:429-440), for every number of processes.          *)
THEOREM PlatformsStay == ~CleansDuringPulls => (Spec => PlatformsAreKept)
<1> SUFFICES ASSUME ~CleansDuringPulls PROVE Spec => PlatformsAreKept
  OBVIOUS
<1> DEFINE Kept ==
      \A p \in Processes, r \in Repos, t \in Tags :
        Pushes(p, r, t) /\ proc'[p] # proc[p] /\ tags'[r][t] # tags[r][t]
          /\ tags[r][t] # None /\ HasRevision(r, tags[r][t])
        => \A i \in Entries(tags[r][t]) :
             \/ i \in Entries(tags'[r][t])
             \/ PlatformOf[i] \in {None, PlatformOf[proc[p].man]}
             \/ <<r, i>> \in deleted \/ <<r, ConfigOf[i]>> \in deleted
<1>1. IInv /\ [Next]_vars => IInv'
  BY StepOK
<1>2. PutsOK /\ IInv /\ [Next]_vars => PutsOK'
  BY PutsStep
<1>3. PutsOK /\ IInv /\ [Next]_vars => [Kept]_vars
  BY KeepsStep
<1> QED BY InitOK, PutsInit, <1>1, <1>2, <1>3, PTL DEF Spec, PlatformsAreKept
=============================================================================
