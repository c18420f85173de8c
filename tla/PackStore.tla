----------------------------- MODULE PackStore -----------------------------
(* The pack repository, the content-addressed media store and the requests   *)
(* of the HTTP interface that use them: internal/packs/repo.go,              *)
(* internal/media/store.go, internal/httpapi (packs, nested, media, siq) and *)
(* the media side of internal/siq.                                           *)
(*                                                                           *)
(* internal/db opens SQLite with one connection, so a transaction (db.Tx)    *)
(* and a single statement are one step each. A request that runs several of  *)
(* them, or works on the directory as well, takes several steps, and the     *)
(* steps of two requests interleave. The media garbage collector is one more *)
(* process, GC.                                                              *)
(*                                                                           *)
(* A media object is named by its content. A pack document is a function     *)
(* from its questions to the media object a question shows, or Text.         *)
EXTENDS Naturals, FiniteSets

CONSTANTS Clients, GC, PackIds, Contents, Questions, Text,
          Bodies,  \* the documents that requests and archives bring
          MaxVersion, MaxRequests, MaxCrashes

ASSUME Parties == GC \notin Clients /\ Text \notin Contents
ASSUME Bounds == MaxVersion \in Nat /\ MaxRequests \in Nat /\ MaxCrashes \in Nat

VARIABLES
    packs,      \* the table packs: the version and the document of every id
    packMedia,  \* the table pack_media: the pairs of a pack and its media
    media,      \* the table media: ref_count, and created_at as "young"
    files,      \* the contents that have their file in the media directory
    req,        \* the request every process is serving
    raced,      \* history: the contents stored and deleted at the same time
    requests,   \* bound: the requests so far
    crashes     \* bound: the crashes so far

vars == <<packs, packMedia, media, files, req, raced, requests, crashes>>
store == <<packs, packMedia, media>>

Procs == Clients \cup {GC}
Docs == UNION {[qs -> Contents \cup {Text}] : qs \in SUBSET Questions}
NoDoc == [q \in {} |-> Text]
MediaIDs(doc) == {doc[q] : q \in DOMAIN doc} \ {Text}

ASSUME BodiesAreDocs == Bodies \subseteq Docs

NoPack == [stored |-> FALSE, version |-> 0, doc |-> NoDoc]
NoRow == [stored |-> FALSE, refs |-> 0, young |-> FALSE]
Uploaded == [stored |-> TRUE, refs |-> 0, young |-> TRUE]

Edits == [kind : {"add", "update"}, question : Questions, content : Contents]
           \cup [kind : {"delete"}, question : Questions, content : {Text}]
Reorder == [kind |-> "reorder", question |-> CHOOSE q \in Questions : TRUE, content |-> Text]
NoEdit == [Reorder EXCEPT !.kind = "none"]

\* todo: the contents to store or to delete; content: the one at work.
\* pack, doc, edit: the pack, as an edit or a copy changed it; read: the version
\* an edit found, version: the one it insists on.
Idle == [op |-> "idle", pc |-> "next", todo |-> {}, content |-> Text,
         pack |-> CHOOSE p \in PackIds : TRUE, doc |-> NoDoc, read |-> 0, version |-> 0,
         edit |-> NoEdit]

Request == [op : {"idle", "upload", "import", "delete", "sweep", "edit", "copy"},
            pc : {"next", "move", "insert", "row", "file"},
            todo : SUBSET Contents, content : Contents \cup {Text},
            pack : PackIds, doc : Docs, read : Nat, version : Nat,
            edit : Edits \cup {Reorder, NoEdit}]

TypeOK ==
    /\ packs \in [PackIds -> [stored : BOOLEAN, version : Nat, doc : Docs]]
    /\ packMedia \subseteq PackIds \X Contents
    /\ media \in [Contents -> [stored : BOOLEAN, refs : Nat, young : BOOLEAN]]
    /\ files \subseteq Contents
    /\ req \in [Procs -> Request] /\ raced \subseteq Contents
    /\ requests \in Nat /\ crashes \in Nat

\* The database an earlier run left: empty, or with one pack and its media.
Init ==
    /\ \E p \in PackIds, doc \in Bodies :
          /\ packs \in { [i \in PackIds |-> NoPack],
                       [i \in PackIds |-> IF i = p THEN [stored |-> TRUE, version |-> 1, doc |-> doc]
                                                  ELSE NoPack] }
          /\ p = CHOOSE i \in PackIds : TRUE
    /\ packMedia = {r \in PackIds \X Contents : r[2] \in MediaIDs(packs[r[1]].doc)}
    /\ files = {r[2] : r \in packMedia}
    /\ media = [m \in Contents |-> IF m \in files THEN [stored |-> TRUE, refs |-> 1, young |-> FALSE]
                                                ELSE NoRow]
    /\ req = [c \in Procs |-> Idle] /\ raced = {}
    /\ requests = 0 /\ crashes = 0

Asked == requests < MaxRequests /\ requests' = requests + 1
Begin(c, r) == req[c].op = "idle" /\ req' = [req EXCEPT ![c] = r]
End(c) == req' = [req EXCEPT ![c] = Idle]
\* The content at work is done with; the request goes on with the others.
OnToNext(c, m) == req' = [req EXCEPT ![c].pc = "next", ![c].content = Text, ![c].todo = @ \ {m}]
Goto(c, m, pc) == req' = [req EXCEPT ![c].pc = pc, ![c].content = m]

-----------------------------------------------------------------------------
(* The pack repository. *)

CheckMediaExist(ids) == \A m \in ids : media[m].stored

\* Both work on the table as the transaction has left it so far.
AddMediaRefs(rows, ids) ==
    [m \in Contents |-> IF m \in ids THEN [rows[m] EXCEPT !.refs = @ + 1] ELSE rows[m]]

\* A mutant: the count of an object that loses its last pack stays.
RemoveMediaRefsKeepsOne(rows, ids) ==
    [m \in Contents |-> IF m \in ids /\ rows[m].refs > 1
                          THEN [rows[m] EXCEPT !.refs = @ - 1] ELSE rows[m]]

RemoveMediaRefs(rows, ids) ==
    [m \in Contents |-> IF m \in ids /\ rows[m].refs > 0
                          THEN [rows[m] EXCEPT !.refs = @ - 1] ELSE rows[m]]

MediaRefs(p) == {m \in Contents : <<p, m>> \in packMedia}
StoredPacks == {p \in PackIds : packs[p].stored}
FreshIds == {p \in PackIds : packs[p].version = 0}

\* The transaction of Create commits. Every caller gives the pack a new id.
Insert(doc) ==
    \E p \in FreshIds :
        /\ p = CHOOSE i \in FreshIds : TRUE
        /\ CheckMediaExist(MediaIDs(doc))
        /\ packs' = [packs EXCEPT ![p] = [stored |-> TRUE, version |-> 1, doc |-> doc]]
        /\ packMedia' = packMedia \cup ({p} \X MediaIDs(doc))
        /\ media' = AddMediaRefs(media, MediaIDs(doc))

\* Whether the transaction of Update commits: expected 0 skips the check.
Replaceable(p, doc, expected) ==
    /\ packs[p].stored
    /\ expected \in {0, packs[p].version}
    /\ CheckMediaExist(MediaIDs(doc) \ MediaRefs(p))

Replace(p, doc) ==
    LET added == MediaIDs(doc) \ MediaRefs(p)
        removed == MediaRefs(p) \ MediaIDs(doc)
    IN /\ packs' = [packs EXCEPT ![p].version = @ + 1, ![p].doc = doc]
       /\ packMedia' = (packMedia \ ({p} \X removed)) \cup ({p} \X added)
       /\ media' = AddMediaRefs(RemoveMediaRefs(media, removed), added)

CreatePack(doc) == Asked /\ Insert(doc) /\ UNCHANGED <<files, req, crashes>>

\* PUT of a whole pack, with a version some earlier answer told or without.
UpdatePack(p, doc) ==
    /\ Asked /\ packs[p].version < MaxVersion
    /\ \E expected \in 0..packs[p].version : Replaceable(p, doc, expected)
    /\ Replace(p, doc)
    /\ UNCHANGED <<files, req, crashes>>

\* A mutant: the cascade alone.
DeletePackCascade(p) ==
    /\ Asked /\ packs[p].stored
    /\ packMedia' = {r \in packMedia : r[1] # p}
    /\ packs' = [packs EXCEPT ![p].stored = FALSE, ![p].doc = NoDoc]
    /\ UNCHANGED <<media, files, req, crashes>>

\* removeMediaRefs and then the row, whose deletion cascades to pack_media.
DeletePack(p) ==
    /\ Asked /\ packs[p].stored
    /\ media' = RemoveMediaRefs(media, MediaRefs(p))
    /\ packMedia' = {r \in packMedia : r[1] # p}
    /\ packs' = [packs EXCEPT ![p].stored = FALSE, ![p].doc = NoDoc]
    /\ UNCHANGED <<files, req, crashes>>

-----------------------------------------------------------------------------
(* The nested routes: mutatePack reads the pack, edits it and writes it.     *)

Applies(e, doc) ==
    \/ e.kind = "add" /\ e.question \notin DOMAIN doc
    \/ e.kind \in {"update", "delete"} /\ e.question \in DOMAIN doc
    \/ e.kind = "reorder"

Edited(e, doc) ==
    [q \in IF e.kind = "add" THEN DOMAIN doc \cup {e.question}
           ELSE IF e.kind = "delete" THEN DOMAIN doc \ {e.question}
           ELSE DOMAIN doc
       |-> IF e.kind \in {"add", "update"} /\ q = e.question THEN e.content ELSE doc[q]]

\* A mutant: no If-Match, no check.
ExpectedNone(p, ifMatch) == ifMatch

\* The version to insist on: the one in If-Match, else the one just read.
Expected(p, ifMatch) == IF ifMatch = 0 THEN packs[p].version ELSE ifMatch

\* If-Match is any number: one an answer told, or one no edit has written yet.
\* BOUND: at most MaxVersion.
IfMatches == 0..MaxVersion

BeginEdit(c, p, e) ==
    /\ Asked /\ packs[p].stored /\ packs[p].version < MaxVersion
    /\ Applies(e, packs[p].doc)
    /\ \E ifMatch \in IfMatches :
          Begin(c, [Idle EXCEPT !.op = "edit", !.pack = p, !.edit = e,
                                !.doc = Edited(e, packs[p].doc),
                                !.read = packs[p].version,
                                !.version = Expected(p, ifMatch)])
    /\ UNCHANGED <<store, files, crashes>>

FinishEdit(c) ==
    LET r == req[c] IN
    /\ r.op = "edit"
    /\ IF Replaceable(r.pack, r.doc, r.version) THEN Replace(r.pack, r.doc) ELSE UNCHANGED store
    /\ End(c) /\ UNCHANGED <<files, requests, crashes>>

\* Duplicate reads the pack and creates the copy in a transaction of its own.
BeginDuplicate(c, p) ==
    /\ Asked /\ packs[p].stored /\ FreshIds # {}
    /\ Begin(c, [Idle EXCEPT !.op = "copy", !.doc = packs[p].doc])
    /\ UNCHANGED <<store, files, crashes>>

FinishDuplicate(c) ==
    /\ req[c].op = "copy"
    /\ IF CheckMediaExist(MediaIDs(req[c].doc)) /\ FreshIds # {}
         THEN Insert(req[c].doc) ELSE UNCHANGED store
    /\ End(c) /\ UNCHANGED <<files, requests, crashes>>

-----------------------------------------------------------------------------
(* Uploads and imports: Put, once for every content of the request.          *)

BeginUpload(c, m) ==
    /\ Asked
    /\ Begin(c, [Idle EXCEPT !.op = "upload", !.todo = {m}])
    /\ UNCHANGED <<store, files, crashes>>

\* An archive whose questions show the media it carries.
BeginImport(c, doc) ==
    /\ Asked
    /\ Begin(c, [Idle EXCEPT !.op = "import", !.todo = MediaIDs(doc), !.doc = doc])
    /\ UNCHANGED <<store, files, crashes>>

\* The store refuses the content before it writes: an import drops the items.
PutRefused(c, m) ==
    /\ req[c].op \in {"upload", "import"} /\ req[c].pc = "next" /\ m \in req[c].todo
    /\ req' = [req EXCEPT ![c].todo = @ \ {m},
                          ![c].doc = [q \in DOMAIN @ |-> IF @[q] = m THEN Text ELSE @[q]]]
    /\ UNCHANGED <<store, files, requests, crashes>>

\* The content is hashed in a temporary file. A stored one is not stored again.
PutStat(c, m) ==
    /\ req[c].op \in {"upload", "import"} /\ req[c].pc = "next" /\ m \in req[c].todo
    /\ IF media[m].stored THEN OnToNext(c, m) ELSE Goto(c, m, "move")
    /\ UNCHANGED <<store, files, requests, crashes>>

\* A mutant: the row is inserted before the file is in its place.
PutStoreRowFirst(c) ==
    LET m == req[c].content IN
    \/ /\ req[c].pc = "move"
       /\ media' = IF media[m].stored THEN media ELSE [media EXCEPT ![m] = Uploaded]
       /\ Goto(c, m, "insert")
       /\ UNCHANGED <<packs, packMedia, files, requests, crashes>>
    \/ /\ req[c].pc = "insert"
       /\ files' = files \cup {m}
       /\ OnToNext(c, m)
       /\ UNCHANGED <<store, requests, crashes>>

\* The file is renamed into its place, and then the row is inserted; the row
\* of a concurrent Put is kept.
PutStore(c) ==
    LET m == req[c].content IN
    \/ /\ req[c].pc = "move"
       /\ files' = files \cup {m}
       /\ Goto(c, m, "insert")
       /\ UNCHANGED <<store, requests, crashes>>
    \/ /\ req[c].pc = "insert"
       /\ media' = IF media[m].stored THEN media ELSE [media EXCEPT ![m] = Uploaded]
       /\ OnToNext(c, m)
       /\ UNCHANGED <<packs, packMedia, files, requests, crashes>>

\* Every content is stored or dropped: an import creates its pack.
FinishUpload(c) ==
    /\ req[c].op = "upload" /\ req[c].todo = {}
    /\ End(c) /\ UNCHANGED <<store, files, requests, crashes>>

FinishImport(c) ==
    /\ req[c].op = "import" /\ req[c].todo = {}
    /\ IF CheckMediaExist(MediaIDs(req[c].doc)) /\ FreshIds # {}
         THEN Insert(req[c].doc) ELSE UNCHANGED store
    /\ End(c) /\ UNCHANGED <<files, requests, crashes>>

-----------------------------------------------------------------------------
(* Delete, for a client and for every object Sweep has listed.               *)

BeginDelete(c, m) ==
    /\ Asked /\ media[m].stored
    /\ Begin(c, [Idle EXCEPT !.op = "delete", !.todo = {m}])
    /\ UNCHANGED <<store, files, crashes>>

\* The grace period of an object ends.
Age(m) ==
    /\ media[m].young
    /\ media' = [media EXCEPT ![m].young = FALSE]
    /\ UNCHANGED <<packs, packMedia, files, req, requests, crashes>>

Garbage == {m \in Contents : media[m].stored /\ media[m].refs = 0 /\ ~media[m].young}

Sweep ==
    /\ Garbage # {}
    /\ Begin(GC, [Idle EXCEPT !.op = "sweep", !.todo = Garbage])
    /\ UNCHANGED <<store, files, requests, crashes>>

DeleteLookup(c, m) ==
    /\ req[c].op \in {"delete", "sweep"} /\ req[c].pc = "next" /\ m \in req[c].todo
    /\ IF media[m].stored /\ media[m].refs = 0 THEN Goto(c, m, "row") ELSE OnToNext(c, m)
    /\ UNCHANGED <<store, files, requests, crashes>>

\* The row goes if nothing has come to refer to it, and then the file.
DeleteRow(c) ==
    LET m == req[c].content IN
    /\ req[c].pc = "row"
    /\ IF media[m].stored /\ media[m].refs = 0
         THEN media' = [media EXCEPT ![m] = NoRow] /\ Goto(c, m, "file")
         ELSE UNCHANGED media /\ OnToNext(c, m)
    /\ UNCHANGED <<packs, packMedia, files, requests, crashes>>

DeleteFile(c) ==
    LET m == req[c].content IN
    /\ req[c].pc = "file"
    /\ files' = files \ {m}
    /\ OnToNext(c, m)
    /\ UNCHANGED <<store, requests, crashes>>

FinishDelete(c) ==
    /\ req[c].op \in {"delete", "sweep"} /\ req[c].todo = {}
    /\ End(c) /\ UNCHANGED <<store, files, requests, crashes>>

\* The process dies and starts again: the requests are gone, and the
\* temporary files with them; the database and the directory stay.
Crash ==
    /\ crashes < MaxCrashes /\ crashes' = crashes + 1
    /\ req' = [c \in Procs |-> Idle]
    /\ UNCHANGED <<store, files, requests>>

-----------------------------------------------------------------------------

Collect == \E m \in Contents : DeleteLookup(GC, m)
GCNext == Sweep \/ Collect \/ DeleteRow(GC) \/ DeleteFile(GC) \/ FinishDelete(GC)

PackRequest ==
    \/ \E doc \in Bodies : CreatePack(doc)
    \/ \E p \in PackIds : DeletePack(p)
    \/ \E p \in PackIds, doc \in Bodies : UpdatePack(p, doc)
    \/ \E c \in Clients, p \in PackIds : BeginDuplicate(c, p)
    \/ \E c \in Clients, p \in PackIds, e \in Edits \cup {Reorder} : BeginEdit(c, p, e)
    \/ \E c \in Clients : FinishEdit(c) \/ FinishDuplicate(c)

MediaRequest ==
    \/ \E c \in Clients, doc \in Bodies : BeginImport(c, doc)
    \/ \E c \in Clients, m \in Contents :
          BeginUpload(c, m) \/ BeginDelete(c, m)
            \/ PutRefused(c, m) \/ PutStat(c, m) \/ DeleteLookup(c, m)
    \/ \E c \in Clients :
          PutStore(c) \/ FinishUpload(c) \/ FinishImport(c)
            \/ DeleteRow(c) \/ DeleteFile(c) \/ FinishDelete(c)

\* raced is kept from the moment a Put that found no row and a Delete that has
\* removed the row work on one content, until the Delete is over and the file
\* is there.
Putting(m) == \E c \in Procs : req[c].pc \in {"move", "insert"} /\ req[c].content = m
Deleting(m) == \E c \in Procs : req[c].pc = "file" /\ req[c].content = m
Record == raced' = {m \in Contents : \/ (Putting(m) /\ Deleting(m))'
                                     \/ m \in raced /\ (Deleting(m)' \/ m \notin files')}

Collector == GCNext /\ Record
Next ==
    /\ PackRequest \/ MediaRequest \/ GCNext \/ (\E m \in Contents : Age(m)) \/ Crash
    /\ Record

Spec == Init /\ [][Next]_vars
\* The collector runs from a ticker and nothing it does waits for a request.
FairSpec == Spec /\ WF_vars(Collector)

-----------------------------------------------------------------------------
(* Properties. *)

\* The reference counts are bookkeeping spread over three tables and a JSON
\* document. Whatever the order of creations, edits, copies, imports,
\* deletions, sweeps and crashes, pack_media lists exactly the media of the
\* stored documents, ref_count is the number of packs that refer to a media
\* object, and every object referred to has its row (repo.go addMediaRefs,
\* removeMediaRefs, diffRefs, checkMediaExist; media.Store.Delete).
ReferencesHold ==
    /\ packMedia = {r \in StoredPacks \X Contents : r[2] \in MediaIDs(packs[r[1]].doc)}
    /\ \A m \in Contents :
          /\ media[m].refs = Cardinality({p \in PackIds : <<p, m>> \in packMedia})
          /\ media[m].refs > 0 => media[m].stored

\* An edit that is accepted makes its own change to the document stored at that
\* moment, though it was computed on a copy read earlier.
Composes(c) ==
    LET p == req[c].pack IN
    /\ Applies(req[c].edit, packs[p].doc)
    /\ packs'[p].doc = Edited(req[c].edit, packs[p].doc)

EditAccepted(c) == req[c].op = "edit" /\ packs' # packs /\ req'[c].op # "edit"

\* Two clients that edit one pack through the nested routes do not undo each
\* other, whether they send no If-Match or a version that some answer has told
\* them by then, of the pack as it is read or of an older one (nested.go
\* mutatePack, repo.go Update).
EditsCompose ==
    [][\A c \in Clients :
          EditAccepted(c) /\ req[c].version <= req[c].read => Composes(c)]_vars

\* They do not whatever version they send (nested.go: "so concurrent edits never
\* overwrite each other").
EditsNeverOverwrite == [][\A c \in Clients : EditAccepted(c) => Composes(c)]_vars

\* An object no pack refers to is swept once its grace period is over, unless
\* a pack comes to refer to it, whatever requests and crashes come between
\* (store.go Sweep, main.go mediaGC).
GarbageIsCollected ==
    \A m \in Contents :
        media[m].stored /\ ~media[m].young /\ (\A p \in PackIds : <<p, m>> \notin packMedia)
          ~> ~media[m].stored \/ \E p \in PackIds : <<p, m>> \in packMedia

\* A row has its bytes, wherever the process dies in a Put, an import, a Delete
\* or a sweep, as long as no Put ran across a Delete of the same content: Put
\* renames the file before it inserts the row, and Delete removes the row
\* before the file (store.go Put, Delete).
BytesUnlessRaced == \A m \in Contents : media[m].stored /\ m \notin raced => m \in files

\* A row always has its bytes (store.go Delete: "never a row without bytes";
\* media.go Store: "Implementations must be safe for concurrent use").
RowsHaveBytes == \A m \in Contents : media[m].stored => m \in files
=============================================================================
