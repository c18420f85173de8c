-------------------------- MODULE PackStoreProofs --------------------------
(***************************************************************************)
(* The safety properties of PackStore, for every set of clients, packs,    *)
(* contents, questions and documents.  Counted says what the tables keep   *)
(* in step, Covered which contents may lack their file or their row while  *)
(* requests are at work, Edit what an edit under way knows of its pack.    *)
(***************************************************************************)
EXTENDS PackStore, FiniteSetTheorems, TLAPS

Refs(m) == {p \in PackIds : <<p, m>> \in packMedia}

Counted ==
    /\ \A p \in PackIds : packs[p].stored => packs[p].version # 0
    /\ \A p \in PackIds, m \in Contents :
          <<p, m>> \in packMedia <=> packs[p].stored /\ m \in MediaIDs(packs[p].doc)
    /\ \A m \in Contents :
          /\ IsFiniteSet(Refs(m)) /\ media[m].refs = Cardinality(Refs(m))
          /\ media[m].refs # 0 => media[m].stored

Inserting(m) == \E c \in Procs : req[c].pc = "insert" /\ req[c].content = m

Covered ==
    \A m \in Contents :
        m \notin raced =>
            /\ Inserting(m) \/ media[m].stored => m \in files
            /\ Deleting(m) => ~Putting(m) /\ ~media[m].stored

\* The version an edit has read has been the one of its pack; while it still is,
\* the document of the edit is the edited document of the pack.  The edit insists
\* on some version, not on that one perhaps.
Edit(r) ==
    LET pack == packs[r.pack] IN
    r.op = "edit" =>
        /\ r.version # 0
        /\ r.read # 0 /\ r.read <= pack.version
        /\ r.read = pack.version /\ pack.stored =>
              Applies(r.edit, pack.doc) /\ r.doc = Edited(r.edit, pack.doc)

\* A process that has left "next" works on a content.
AtWork == \A c \in Procs : req[c].pc # "next" => req[c].content \in Contents

IInv == TypeOK /\ AtWork /\ Counted /\ Covered /\ \A c \in Procs : Edit(req[c])
-----------------------------------------------------------------------------
(* The requests.                                                           *)

PackRows == [stored : BOOLEAN, version : Nat, doc : Docs]
MediaRows == [stored : BOOLEAN, refs : Nat, young : BOOLEAN]

\* The clients and the collector are the processes.
LEMMA ProcsHold == Clients \subseteq Procs /\ GC \in Procs
BY DEF Procs

\* A document shows contents, or Text.
LEMMA DocForm ==
    ASSUME NEW doc \in Docs
    PROVE  /\ DOMAIN doc \subseteq Questions /\ doc \in [DOMAIN doc -> Contents \cup {Text}]
           /\ MediaIDs(doc) \subseteq Contents
BY DEF Docs, MediaIDs

\* The document of no question shows no medium.
LEMMA NoDocIsDoc == NoDoc \in Docs /\ MediaIDs(NoDoc) = {}
BY DEF NoDoc, Docs, MediaIDs

\* An edit makes a document of a document.
LEMMA EditedIsDoc ==
    ASSUME NEW doc \in Docs, NEW e \in Edits \cup {Reorder}, Applies(e, doc)
    PROVE  Edited(e, doc) \in Docs
<1> DEFINE qs == IF e.kind = "add" THEN DOMAIN doc \cup {e.question}
                 ELSE IF e.kind = "delete" THEN DOMAIN doc \ {e.question}
                 ELSE DOMAIN doc
           new == [q \in qs |-> IF e.kind \in {"add", "update"} /\ q = e.question
                                  THEN e.content ELSE doc[q]]
<1>1. DOMAIN doc \subseteq Questions /\ doc \in [DOMAIN doc -> Contents \cup {Text}] BY DocForm
<1>2. /\ e.kind = "add" => e.question \in Questions
      /\ e.kind \in {"add", "update"} => e.content \in Contents
  BY DEF Edits, Reorder
<1>3. qs \in SUBSET Questions BY <1>1, <1>2
<1>4. ASSUME NEW q \in qs
      PROVE  new[q] \in Contents \cup {Text}
  BY <1>1, <1>2
<1>5. new \in [qs -> Contents \cup {Text}] BY <1>4
<1>6. new = Edited(e, doc) BY DEF Edited
<1> QED BY <1>3, <1>5, <1>6 DEF Docs

\* An idle process is a request that works on nothing.
LEMMA IdleForm ==
    ASSUME PackIds # {}
    PROVE  /\ Idle \in Request /\ Idle.op = "idle" /\ Idle.pc = "next"
           /\ Idle.todo = {} /\ Idle.content = Text /\ Idle.edit = NoEdit
BY NoDocIsDoc DEF Idle, Request

\* What a step of a process does to the requests.  A request works on one
\* content at a time; only an edit that begins brings what Edit speaks of.
SameEdit(r, s) ==
    s.op = "edit" => /\ r.op = "edit" /\ s.pack = r.pack /\ s.doc = r.doc
                     /\ s.read = r.read /\ s.version = r.version /\ s.edit = r.edit

SameWork(r, s) == s.pc \in {"insert", "file"} => r.pc = s.pc /\ r.content = s.content

\* A request begins at one process and the others go on.
LEMMA BeginReq ==
    ASSUME req \in [Procs -> Request], NEW c \in Procs, NEW r \in Request, Begin(c, r)
    PROVE  /\ req' \in [Procs -> Request] /\ req'[c] = r /\ req[c].op = "idle"
           /\ \A d \in Procs : d # c => req'[d] = req[d]
BY DEF Begin

\* A request ends at one process and the others go on.
LEMMA EndReq ==
    ASSUME req \in [Procs -> Request], NEW c \in Procs, End(c)
    PROVE  /\ req' \in [Procs -> Request] /\ req'[c] = Idle
           /\ \A d \in Procs : d # c => req'[d] = req[d]
<1>1. PackIds # {} BY DEF Request
<1> QED BY <1>1, IdleForm DEF End

\* The request at c moves to pc with content m and todo.
Moved(c, pc, m, todo) ==
    /\ req' \in [Procs -> Request]
    /\ req'[c].pc = pc /\ req'[c].content = m /\ req'[c].todo = todo
    /\ req'[c].op = req[c].op /\ req'[c].pack = req[c].pack /\ req'[c].doc = req[c].doc
    /\ req'[c].read = req[c].read /\ req'[c].version = req[c].version
    /\ req'[c].edit = req[c].edit
    /\ \A d \in Procs : d # c => req'[d] = req[d]

\* OnToNext drops the content at work.
LEMMA OnToNextReq ==
    ASSUME req \in [Procs -> Request], NEW c \in Procs, NEW m, OnToNext(c, m)
    PROVE  Moved(c, "next", Text, req[c].todo \ {m})
<1>1. req[c] \in Request OBVIOUS
<1>2. req' = [req EXCEPT ![c] = [req[c] EXCEPT !.pc = "next", !.content = Text,
                                              !.todo = req[c].todo \ {m}]]
  BY DEF OnToNext
<1>3. [req[c] EXCEPT !.pc = "next", !.content = Text, !.todo = req[c].todo \ {m}] \in Request
  BY <1>1 DEF Request
<1> QED BY <1>1, <1>2, <1>3 DEF Moved, Request

\* Goto takes a content to work on.
LEMMA GotoReq ==
    ASSUME req \in [Procs -> Request], NEW c \in Procs, NEW m \in Contents,
           NEW pc \in {"move", "insert", "row", "file"}, Goto(c, m, pc)
    PROVE  Moved(c, pc, m, req[c].todo)
<1>1. req[c] \in Request OBVIOUS
<1>2. req' = [req EXCEPT ![c] = [req[c] EXCEPT !.pc = pc, !.content = m]] BY DEF Goto
<1>3. [req[c] EXCEPT !.pc = pc, !.content = m] \in Request BY <1>1 DEF Request
<1> QED BY <1>1, <1>2, <1>3 DEF Moved, Request
-----------------------------------------------------------------------------
(* The transactions of the repository.                                     *)

Tables ==
    /\ packs \in [PackIds -> PackRows]
    /\ packMedia \subseteq PackIds \X Contents
    /\ media \in [Contents -> MediaRows]

\* A transaction on packs keeps the rows of media, but for their counts, and
\* gives every pack it changes a new version, unless it deletes it.
SameRows == \A m \in Contents : media'[m].stored = media[m].stored
Grow ==
    \A p \in PackIds :
        \/ packs'[p].version = packs[p].version /\ (packs'[p].stored => packs'[p] = packs[p])
        \/ packs'[p].version > packs[p].version

Commits == Tables' /\ Counted' /\ SameRows /\ Grow

\* A step that leaves the tables alone keeps what they keep.
LEMMA NothingCommits ==
    ASSUME Tables, Counted, UNCHANGED store
    PROVE  Commits
<1>1. UNCHANGED <<packs, packMedia, media>> BY DEF store
<1>2. Tables' BY <1>1 DEF Tables
<1>3. Counted' BY <1>1 DEF Counted, Refs
<1> QED BY <1>1, <1>2, <1>3 DEF Commits, SameRows, Grow

\* The counts follow when one pack comes to refer to added and ceases to refer
\* to removed.
LEMMA CountsFollow ==
    ASSUME Tables, NEW p \in PackIds, NEW m \in Contents, IsFiniteSet(Refs(m)),
           packMedia' \subseteq PackIds \X Contents,
           \A q \in PackIds : q # p => (<<q, m>> \in packMedia' <=> <<q, m>> \in packMedia)
    PROVE  /\ IsFiniteSet(Refs(m)')
           /\ Cardinality(Refs(m)) \in Nat
           /\ <<p, m>> \in packMedia /\ <<p, m>> \notin packMedia' =>
                 Cardinality(Refs(m)') = Cardinality(Refs(m)) - 1 /\ Cardinality(Refs(m)) # 0
           /\ <<p, m>> \notin packMedia /\ <<p, m>> \in packMedia' =>
                 Cardinality(Refs(m)') = Cardinality(Refs(m)) + 1
           /\ (<<p, m>> \in packMedia <=> <<p, m>> \in packMedia') =>
                 Cardinality(Refs(m)') = Cardinality(Refs(m))
<1> DEFINE A == Refs(m)
           B == Refs(m)'
<1>0. Cardinality(A) \in Nat BY FS_CardinalityType
<1>1. CASE <<p, m>> \in packMedia /\ <<p, m>> \notin packMedia'
  <2>1. B = A \ {p} /\ p \in A BY <1>1 DEF Refs
  <2>2. IsFiniteSet(B) /\ Cardinality(B) = Cardinality(A) - 1 BY <2>1, FS_RemoveElement
  <2>3. Cardinality(A) # 0 BY <2>1, FS_EmptySet
  <2> QED BY <1>0, <1>1, <2>2, <2>3
<1>2. CASE <<p, m>> \notin packMedia /\ <<p, m>> \in packMedia'
  <2>1. B = A \cup {p} /\ p \notin A BY <1>2 DEF Refs
  <2>2. IsFiniteSet(B) /\ Cardinality(B) = Cardinality(A) + 1 BY <2>1, FS_AddElement
  <2> QED BY <1>0, <1>2, <2>2
<1>3. CASE <<p, m>> \in packMedia <=> <<p, m>> \in packMedia'
  <2>1. B = A BY <1>3 DEF Refs
  <2> QED BY <1>0, <1>3, <2>1
<1> QED BY <1>1, <1>2, <1>3

\* addMediaRefs and removeMediaRefs on a row.
LEMMA AddsRefs ==
    ASSUME NEW rows \in [Contents -> MediaRows], NEW ids
    PROVE  /\ AddMediaRefs(rows, ids) \in [Contents -> MediaRows]
           /\ \A m \in Contents :
                 /\ AddMediaRefs(rows, ids)[m].stored = rows[m].stored
                 /\ AddMediaRefs(rows, ids)[m].refs = IF m \in ids THEN rows[m].refs + 1
                                                                   ELSE rows[m].refs
BY DEF AddMediaRefs, MediaRows

\* removeMediaRefs counts down to zero and not below.
LEMMA RemovesRefs ==
    ASSUME NEW rows \in [Contents -> MediaRows], NEW ids
    PROVE  /\ RemoveMediaRefs(rows, ids) \in [Contents -> MediaRows]
           /\ \A m \in Contents :
                 /\ RemoveMediaRefs(rows, ids)[m].stored = rows[m].stored
                 /\ RemoveMediaRefs(rows, ids)[m].refs = IF m \in ids /\ rows[m].refs > 0
                                                           THEN rows[m].refs - 1
                                                           ELSE rows[m].refs
<1> SUFFICES ASSUME NEW m \in Contents
             PROVE  LET row == RemoveMediaRefs(rows, ids)[m] IN
                    /\ row \in MediaRows
                    /\ row.stored = rows[m].stored
                    /\ row.refs = IF m \in ids /\ rows[m].refs > 0
                                    THEN rows[m].refs - 1 ELSE rows[m].refs
  BY DEF RemoveMediaRefs
<1>1. rows[m] \in MediaRows /\ rows[m].refs \in Nat BY DEF MediaRows
<1>2. CASE m \in ids /\ rows[m].refs > 0
  <2>1. RemoveMediaRefs(rows, ids)[m] = [rows[m] EXCEPT !.refs = rows[m].refs - 1]
    BY <1>2 DEF RemoveMediaRefs
  <2>2. rows[m].refs - 1 \in Nat BY <1>1, <1>2
  <2> QED BY <1>1, <1>2, <2>1, <2>2 DEF MediaRows
<1>3. CASE ~(m \in ids /\ rows[m].refs > 0) BY <1>1, <1>3 DEF RemoveMediaRefs
<1> QED BY <1>2, <1>3

\* A transaction on the pack p keeps what Counted says.
LEMMA TransactionCounts ==
    ASSUME Tables, Counted, Tables', SameRows, NEW p \in PackIds,
           \A q \in PackIds : q # p => packs'[q] = packs[q],
           packs'[p].stored => packs'[p].version # 0,
           \A q \in PackIds, m \in Contents :
              q # p => (<<q, m>> \in packMedia' <=> <<q, m>> \in packMedia),
           \A m \in Contents :
              /\ <<p, m>> \in packMedia' <=> packs'[p].stored /\ m \in MediaIDs(packs'[p].doc)
              /\ <<p, m>> \in packMedia' /\ <<p, m>> \notin packMedia => media[m].stored
              /\ media'[m].refs =
                   IF <<p, m>> \in packMedia' /\ <<p, m>> \notin packMedia THEN media[m].refs + 1
                   ELSE IF <<p, m>> \notin packMedia' /\ <<p, m>> \in packMedia /\ media[m].refs > 0
                        THEN media[m].refs - 1 ELSE media[m].refs
    PROVE  Counted'
<1>1. \A q \in PackIds : packs'[q].stored => packs'[q].version # 0 BY DEF Counted
<1>2. ASSUME NEW q \in PackIds, NEW m \in Contents
      PROVE  <<q, m>> \in packMedia' <=> packs'[q].stored /\ m \in MediaIDs(packs'[q].doc)
  <2>1. CASE q = p BY <2>1
  <2>2. CASE q # p BY <2>2 DEF Counted
  <2> QED BY <2>1, <2>2
<1>3. ASSUME NEW m \in Contents
      PROVE  /\ IsFiniteSet(Refs(m)') /\ media'[m].refs = Cardinality(Refs(m)')
             /\ media'[m].refs # 0 => media'[m].stored
  <2> DEFINE n == Cardinality(Refs(m))
             k == Cardinality(Refs(m)')
  <2>1. /\ IsFiniteSet(Refs(m)) /\ media[m].refs = n
        /\ media[m].refs # 0 => media[m].stored
    BY DEF Counted
  <2>2. packMedia' \subseteq PackIds \X Contents BY DEF Tables
  <2>3. /\ IsFiniteSet(Refs(m)') /\ n \in Nat
        /\ <<p, m>> \in packMedia /\ <<p, m>> \notin packMedia' => k = n - 1 /\ n # 0
        /\ <<p, m>> \notin packMedia /\ <<p, m>> \in packMedia' => k = n + 1
        /\ (<<p, m>> \in packMedia <=> <<p, m>> \in packMedia') => k = n
    BY <2>1, <2>2, CountsFollow
  <2>4. /\ <<p, m>> \in packMedia' /\ <<p, m>> \notin packMedia => media[m].stored
        /\ media'[m].refs =
             IF <<p, m>> \in packMedia' /\ <<p, m>> \notin packMedia THEN media[m].refs + 1
             ELSE IF <<p, m>> \notin packMedia' /\ <<p, m>> \in packMedia /\ media[m].refs > 0
                  THEN media[m].refs - 1 ELSE media[m].refs
    OBVIOUS
  <2>5. media'[m].stored = media[m].stored BY DEF SameRows
  <2> HIDE DEF n, k
  <2>6. media'[m].refs = k BY <2>1, <2>3, <2>4
  <2>7. media'[m].refs # 0 => media[m].refs # 0 \/ media[m].stored
    BY <2>4
  <2> QED BY <2>1, <2>3, <2>5, <2>6, <2>7 DEF k
<1> QED BY <1>1, <1>2, <1>3 DEF Counted

\* Create commits: the pack is a new one, so nothing refers to media for it yet.
LEMMA InsertCommits ==
    ASSUME Tables, Counted, NEW doc \in Docs, Insert(doc)
    PROVE  Commits
<1>1. PICK p \in FreshIds :
        /\ CheckMediaExist(MediaIDs(doc))
        /\ packs' = [packs EXCEPT ![p] = [stored |-> TRUE, version |-> 1, doc |-> doc]]
        /\ packMedia' = packMedia \cup ({p} \X MediaIDs(doc))
        /\ media' = AddMediaRefs(media, MediaIDs(doc))
  BY DEF Insert
<1>2. p \in PackIds /\ packs[p].version = 0 BY DEF FreshIds
<1>3. ~packs[p].stored BY <1>2 DEF Counted
<1>4. \A m \in Contents : <<p, m>> \notin packMedia BY <1>2, <1>3 DEF Counted
<1>5. MediaIDs(doc) \subseteq Contents BY DocForm
<1>6. [stored |-> TRUE, version |-> 1, doc |-> doc] \in PackRows BY DEF PackRows
<1>7. /\ media' \in [Contents -> MediaRows] /\ SameRows
      /\ \A m \in Contents : media'[m].refs = IF m \in MediaIDs(doc) THEN media[m].refs + 1
                                                                     ELSE media[m].refs
  BY <1>1, AddsRefs DEF Tables, SameRows
<1>8. packs' \in [PackIds -> PackRows] BY <1>1, <1>2, <1>6 DEF Tables
<1>9. packMedia' \subseteq PackIds \X Contents BY <1>1, <1>2, <1>5 DEF Tables
<1>10. Tables' BY <1>7, <1>8, <1>9 DEF Tables
<1>11. packs'[p] = [stored |-> TRUE, version |-> 1, doc |-> doc] BY <1>1, <1>2 DEF Tables
<1>12. \A q \in PackIds : q # p => packs'[q] = packs[q] BY <1>1 DEF Tables
<1>13. \A q \in PackIds, m \in Contents :
          <<q, m>> \in packMedia' <=> <<q, m>> \in packMedia \/ (q = p /\ m \in MediaIDs(doc))
  BY <1>1
<1>14. \A m \in MediaIDs(doc) : media[m].stored BY <1>1 DEF CheckMediaExist
<1>15. Counted'
  <2>1. \A m \in Contents :
          /\ <<p, m>> \in packMedia' <=> packs'[p].stored /\ m \in MediaIDs(packs'[p].doc)
          /\ <<p, m>> \in packMedia' /\ <<p, m>> \notin packMedia => media[m].stored
          /\ media'[m].refs =
               IF <<p, m>> \in packMedia' /\ <<p, m>> \notin packMedia THEN media[m].refs + 1
               ELSE IF <<p, m>> \notin packMedia' /\ <<p, m>> \in packMedia /\ media[m].refs > 0
                    THEN media[m].refs - 1 ELSE media[m].refs
    BY <1>2, <1>4, <1>7, <1>11, <1>13, <1>14
  <2>2. packs'[p].version # 0 BY <1>11
  <2>3. \A q \in PackIds, m \in Contents :
           q # p => (<<q, m>> \in packMedia' <=> <<q, m>> \in packMedia)
    BY <1>13
  <2> QED BY <1>2, <1>7, <1>10, <1>12, <2>1, <2>2, <2>3, TransactionCounts
<1>16. Grow BY <1>2, <1>11, <1>12 DEF Grow
<1> QED BY <1>7, <1>10, <1>15, <1>16 DEF Commits

\* The row of a pack whose document is replaced.
Replaced(row, v, doc) == [row EXCEPT !.version = v, !.doc = doc]

LEMMA ReplacedRow ==
    ASSUME NEW old \in PackRows, NEW v \in Nat, NEW doc \in Docs
    PROVE  /\ Replaced(old, v, doc) \in PackRows
           /\ Replaced(old, v, doc).doc = doc /\ Replaced(old, v, doc).version = v
           /\ Replaced(old, v, doc).stored = old.stored
<1>1. Replaced(old, v, doc) \in PackRows BY DEF PackRows, Replaced
<1>2. Replaced(old, v, doc).doc = doc BY DEF PackRows, Replaced
<1>3. Replaced(old, v, doc).stored = old.stored BY DEF PackRows, Replaced
<1>4. Replaced(old, v, doc).version = v BY DEF PackRows, Replaced
<1> QED BY <1>1, <1>2, <1>3, <1>4

\* Update commits: the media the old document showed and the new one does not
\* lose a reference, the others gain one.
LEMMA ReplaceCommits ==
    ASSUME Tables, Counted, NEW p \in PackIds, NEW doc \in Docs, NEW expected,
           Replaceable(p, doc, expected), Replace(p, doc)
    PROVE  Commits
<1> DEFINE added == MediaIDs(doc) \ MediaRefs(p)
           removed == MediaRefs(p) \ MediaIDs(doc)
           old == packs[p]
           mid == RemoveMediaRefs(media, removed)
<1>1. /\ packs' = [packs EXCEPT ![p] = [old EXCEPT !.version = old.version + 1, !.doc = doc]]
      /\ packMedia' = (packMedia \ ({p} \X removed)) \cup ({p} \X added)
      /\ media' = AddMediaRefs(mid, added)
  BY DEF Replace
<1>2. old.stored /\ \A m \in added : media[m].stored BY DEF Replaceable, CheckMediaExist
<1>3. old \in PackRows BY DEF Tables
<1>4. old.version \in Nat /\ old.version + 1 \in Nat BY <1>3 DEF PackRows
<1>5. packs'[p] = Replaced(old, old.version + 1, doc) BY <1>1 DEF Tables, Replaced
<1>6. /\ packs'[p] \in PackRows
      /\ packs'[p].doc = doc /\ packs'[p].stored = old.stored
      /\ packs'[p].version = old.version + 1
  <2> DEFINE v == old.version + 1
             row == Replaced(old, v, doc)
  <2>1. old \in PackRows /\ v \in Nat /\ packs'[p] = row /\ doc \in Docs BY <1>3, <1>4, <1>5
  <2> HIDE DEF old, v
  <2>2. row \in PackRows BY <2>1, ReplacedRow
  <2>3. row.doc = doc BY <2>1, ReplacedRow
  <2>4. row.version = v BY <2>1, ReplacedRow
  <2>5. row.stored = old.stored BY <2>1, ReplacedRow
  <2> HIDE DEF row
  <2> QED BY <2>1, <2>2, <2>3, <2>4, <2>5 DEF v
<1>7. old.stored BY <1>2
<1>8. \A q \in PackIds : q # p => packs'[q] = packs[q] BY <1>1 DEF Tables
<1>9. packs' \in [PackIds -> PackRows]
  <2>1. packs' = [packs EXCEPT ![p] = packs'[p]] BY <1>1 DEF Tables
  <2> HIDE <1>1
  <2> QED BY <1>6, <2>1 DEF Tables
<1>10. MediaIDs(doc) \subseteq Contents BY DocForm
<1>11. added \subseteq Contents /\ removed \subseteq Contents BY <1>10 DEF MediaRefs
<1>12. packMedia' \subseteq PackIds \X Contents BY <1>1, <1>11 DEF Tables
<1>13. /\ mid \in [Contents -> MediaRows]
       /\ \A m \in Contents :
             /\ mid[m].stored = media[m].stored
             /\ mid[m].refs = IF m \in removed /\ media[m].refs > 0
                                THEN media[m].refs - 1 ELSE media[m].refs
  BY RemovesRefs DEF Tables
<1>14. /\ media' \in [Contents -> MediaRows]
       /\ \A m \in Contents :
             /\ media'[m].stored = mid[m].stored
             /\ media'[m].refs = IF m \in added THEN mid[m].refs + 1 ELSE mid[m].refs
  <2> HIDE DEF mid
  <2> QED BY <1>1, <1>13, AddsRefs
<1>15. SameRows BY <1>13, <1>14 DEF SameRows
<1>16. Tables' BY <1>9, <1>12, <1>14 DEF Tables
<1>17. \A q \in PackIds, m \in Contents :
          <<q, m>> \in packMedia' <=>
            \/ <<q, m>> \in packMedia /\ ~(q = p /\ m \in removed)
            \/ q = p /\ m \in added
  BY <1>1
<1>18. \A m \in Contents :
          /\ m \in added <=> m \in MediaIDs(doc) /\ <<p, m>> \notin packMedia
          /\ m \in removed <=> m \notin MediaIDs(doc) /\ <<p, m>> \in packMedia
  BY DEF MediaRefs
<1>19. \A m \in Contents : <<p, m>> \in packMedia' <=> m \in MediaIDs(doc)
  BY <1>17, <1>18
<1>20. packs'[p].doc = doc /\ packs'[p].stored /\ packs'[p].version = old.version + 1
  BY <1>6, <1>7
<1>21. Counted'
  <2> HIDE DEF added, removed, mid, old
  <2>1. ASSUME NEW m \in Contents
        PROVE  /\ <<p, m>> \in packMedia' <=> packs'[p].stored /\ m \in MediaIDs(packs'[p].doc)
               /\ <<p, m>> \in packMedia' /\ <<p, m>> \notin packMedia => media[m].stored
               /\ media'[m].refs =
                    IF <<p, m>> \in packMedia' /\ <<p, m>> \notin packMedia THEN media[m].refs + 1
                    ELSE IF <<p, m>> \notin packMedia' /\ <<p, m>> \in packMedia /\ media[m].refs > 0
                         THEN media[m].refs - 1 ELSE media[m].refs
    <3>1. <<p, m>> \in packMedia' <=> packs'[p].stored /\ m \in MediaIDs(packs'[p].doc)
      BY <1>19, <1>20
    <3>2. /\ m \in added <=> <<p, m>> \in packMedia' /\ <<p, m>> \notin packMedia
          /\ m \in removed <=> <<p, m>> \notin packMedia' /\ <<p, m>> \in packMedia
      BY <1>18, <1>19
    <3>3. m \in added => media[m].stored BY <1>2
    <3>4. /\ mid[m].refs = IF m \in removed /\ media[m].refs > 0
                            THEN media[m].refs - 1 ELSE media[m].refs
          /\ media'[m].refs = IF m \in added THEN mid[m].refs + 1 ELSE mid[m].refs
      BY <1>13, <1>14
    <3> QED BY <3>1, <3>2, <3>3, <3>4
  <2>2. packs'[p].version # 0 BY <1>4, <1>20
  <2>3. \A q \in PackIds, m \in Contents :
           q # p => (<<q, m>> \in packMedia' <=> <<q, m>> \in packMedia)
    BY <1>17
  <2> QED BY <1>8, <1>15, <1>16, <2>1, <2>2, <2>3, TransactionCounts
<1>22. Grow BY <1>4, <1>8, <1>20 DEF Grow
<1> QED BY <1>15, <1>16, <1>21, <1>22 DEF Commits
\* Delete commits: every medium of the pack loses a reference.
LEMMA DeleteCommits ==
    ASSUME Tables, Counted, NEW p \in PackIds, DeletePack(p)
    PROVE  Commits
<1> DEFINE old == packs[p]
<1>1. /\ media' = RemoveMediaRefs(media, MediaRefs(p))
      /\ packMedia' = {r \in packMedia : r[1] # p}
      /\ packs' = [packs EXCEPT ![p] = [old EXCEPT !.stored = FALSE, !.doc = NoDoc]]
  BY DEF DeletePack
<1>2. old \in PackRows /\ old.version \in Nat BY DEF Tables, PackRows
<1>3. NoDoc \in Docs BY NoDocIsDoc
<1>4. packs'[p] = [old EXCEPT !.stored = FALSE, !.doc = NoDoc] BY <1>1 DEF Tables
<1>5. packs'[p] \in PackRows BY <1>2, <1>3, <1>4 DEF PackRows
<1>6. ~packs'[p].stored BY <1>2, <1>4 DEF PackRows
<1>7. packs'[p].version = old.version BY <1>2, <1>4 DEF PackRows
<1>8. \A q \in PackIds : q # p => packs'[q] = packs[q] BY <1>1 DEF Tables
<1>9. packs' \in [PackIds -> PackRows]
  <2>1. packs' = [packs EXCEPT ![p] = packs'[p]] BY <1>1 DEF Tables
  <2> QED BY <1>5, <2>1 DEF Tables
<1>10. packMedia' \subseteq PackIds \X Contents BY <1>1 DEF Tables
<1>11. \A q \in PackIds, m \in Contents :
          <<q, m>> \in packMedia' <=> <<q, m>> \in packMedia /\ q # p
  BY <1>1
<1>12. \A m \in Contents : m \in MediaRefs(p) <=> <<p, m>> \in packMedia BY DEF MediaRefs
<1>13. /\ media' \in [Contents -> MediaRows] /\ SameRows
       /\ \A m \in Contents :
             media'[m].refs = IF m \in MediaRefs(p) /\ media[m].refs > 0
                                THEN media[m].refs - 1 ELSE media[m].refs
  BY <1>1, RemovesRefs DEF Tables, SameRows
<1>14. Tables' BY <1>9, <1>10, <1>13 DEF Tables
<1>15. Counted'
  <2>1. \A m \in Contents :
          /\ <<p, m>> \in packMedia' <=> packs'[p].stored /\ m \in MediaIDs(packs'[p].doc)
          /\ <<p, m>> \in packMedia' /\ <<p, m>> \notin packMedia => media[m].stored
          /\ media'[m].refs =
               IF <<p, m>> \in packMedia' /\ <<p, m>> \notin packMedia THEN media[m].refs + 1
               ELSE IF <<p, m>> \notin packMedia' /\ <<p, m>> \in packMedia /\ media[m].refs > 0
                    THEN media[m].refs - 1 ELSE media[m].refs
    BY <1>6, <1>11, <1>12, <1>13
  <2>2. \A q \in PackIds, m \in Contents :
           q # p => (<<q, m>> \in packMedia' <=> <<q, m>> \in packMedia)
    BY <1>11
  <2> QED BY <1>6, <1>8, <1>13, <1>14, <2>1, <2>2, TransactionCounts
<1>16. Grow
  <2> HIDE DEF old
  <2>1. packs'[p].version = packs[p].version BY <1>7 DEF old
  <2> QED BY <1>6, <1>8, <2>1 DEF Grow
<1> QED BY <1>13, <1>14, <1>15, <1>16 DEF Commits
-----------------------------------------------------------------------------
(* The steps.                                                              *)

\* What a step may not do to the request r that becomes s, unless it is one of
\* those that Covered and Edit are about.
Ordinary(r, s) == SameEdit(r, s) /\ SameWork(r, s)

Requests == req \in [Procs -> Request] /\ AtWork
Ordinarily == Requests' /\ \A c \in Procs : Ordinary(req[c], req'[c])
SameFiles == files' = files

\* A step without a request is an ordinary one,
LEMMA RestReq ==
    ASSUME Requests, UNCHANGED req
    PROVE  Ordinarily
BY DEF Ordinarily, Ordinary, SameEdit, SameWork, Requests, AtWork

\* so is one that begins a request other than an edit,
LEMMA BeginOrdinarily ==
    ASSUME Requests, NEW c \in Procs, NEW r \in Request, Begin(c, r), r.op # "edit", r.pc = "next"
    PROVE  Ordinarily
<1>1. /\ req' \in [Procs -> Request] /\ req'[c] = r
      /\ \A d \in Procs : d # c => req'[d] = req[d]
  BY BeginReq DEF Requests
<1> QED BY <1>1 DEF Ordinarily, Ordinary, SameEdit, SameWork, Requests, AtWork

\* and one that ends a request.
LEMMA EndOrdinarily ==
    ASSUME Requests, NEW c \in Procs, End(c)
    PROVE  Ordinarily
<1>1. /\ req' \in [Procs -> Request] /\ req'[c] = Idle
      /\ \A d \in Procs : d # c => req'[d] = req[d]
  BY EndReq DEF Requests
<1>2. PackIds # {} BY DEF Requests, Request
<1>3. Idle.op = "idle" /\ Idle.pc = "next" BY <1>2, IdleForm
<1> QED BY <1>1, <1>3 DEF Ordinarily, Ordinary, SameEdit, SameWork, Requests, AtWork

\* A request that is moved keeps what it edits; it comes to work on a content
\* only if it is moved to "insert" or "file".
LEMMA MovedOrdinarily ==
    ASSUME Requests, NEW c \in Procs, NEW pc \in {"next", "move", "row"}, NEW m, NEW todo,
           pc # "next" => m \in Contents, Moved(c, pc, m, todo)
    PROVE  Ordinarily
BY DEF Moved, Ordinarily, Ordinary, SameEdit, SameWork, Requests, AtWork

\* Whatever a request is moved to, it keeps what it edits.
LEMMA MovedKeepsEdits ==
    ASSUME Requests, NEW c \in Procs, NEW pc, NEW m, NEW todo,
           pc # "next" => m \in Contents, Moved(c, pc, m, todo)
    PROVE  Requests' /\ \A d \in Procs : SameEdit(req[d], req'[d])
<1>1. Requests' BY DEF Moved, Requests, AtWork
<1>2. ASSUME NEW d \in Procs
      PROVE  SameEdit(req[d], req'[d])
  BY DEF Moved, SameEdit
<1> QED BY <1>1, <1>2

\* Covered stands when no file, no row and no storing or deleting process is new.
LEMMA CoveredStands ==
    ASSUME Covered, SameRows, SameFiles, Record, \A c \in Procs : SameWork(req[c], req'[c])
    PROVE  Covered'
<1>1. SUFFICES ASSUME NEW m \in Contents, m \notin raced'
               PROVE  /\ Inserting(m)' \/ media'[m].stored => m \in files'
                      /\ Deleting(m)' => ~Putting(m)' /\ ~media'[m].stored
  BY DEF Covered
<1>2. Inserting(m)' => Inserting(m) BY DEF Inserting, SameWork
<1>3. Deleting(m)' => Deleting(m) BY DEF Deleting, SameWork
<1>4. m \notin raced \/ (~Deleting(m)' /\ m \in files') BY <1>1 DEF Record
<1>5. ~(Putting(m)' /\ Deleting(m)') BY <1>1 DEF Record
<1>6. media'[m].stored <=> media[m].stored BY DEF SameRows
<1> QED BY <1>2, <1>3, <1>4, <1>5, <1>6 DEF Covered, SameFiles

\* An edit under way stands whatever the transactions of the others do to its
\* pack: a new version overtakes it, a deletion leaves nothing to write to.
LEMMA EditsStand ==
    ASSUME Tables, Requests, Tables', Grow, \A c \in Procs : Edit(req[c]),
           Requests', \A c \in Procs : SameEdit(req[c], req'[c])
    PROVE  \A c \in Procs : Edit(req[c])'
<1> SUFFICES ASSUME NEW c \in Procs, req'[c].op = "edit"
             PROVE  LET r == req'[c]
                        pack == packs'[r.pack]
                    IN  /\ r.version # 0
                        /\ r.read # 0 /\ r.read <= pack.version
                        /\ r.read = pack.version /\ pack.stored =>
                              Applies(r.edit, pack.doc) /\ r.doc = Edited(r.edit, pack.doc)
  BY DEF Edit
<1> DEFINE r == req[c]
           old == packs[r.pack]
           new == packs'[r.pack]
<1>1. /\ r.op = "edit" /\ req'[c].pack = r.pack /\ req'[c].doc = r.doc
      /\ req'[c].read = r.read /\ req'[c].version = r.version /\ req'[c].edit = r.edit
  BY DEF SameEdit
<1>2. /\ r.version # 0 /\ r.read # 0 /\ r.read <= old.version
      /\ r.read = old.version /\ old.stored =>
            Applies(r.edit, old.doc) /\ r.doc = Edited(r.edit, old.doc)
  BY <1>1 DEF Edit
<1>3. r.pack \in PackIds /\ r.read \in Nat BY DEF Requests, Request
<1>4. old.version \in Nat /\ new.version \in Nat BY <1>3 DEF Tables, PackRows
<1>5. \/ new.version = old.version /\ (new.stored => new = old)
      \/ new.version > old.version
  BY <1>3 DEF Grow
<1>6. r.version # 0 /\ r.read # 0 /\ r.read <= new.version BY <1>2, <1>3, <1>4, <1>5
<1>7. ASSUME r.read = new.version, new.stored
      PROVE  Applies(r.edit, new.doc) /\ r.doc = Edited(r.edit, new.doc)
  <2>1. r.read = old.version /\ new = old BY <1>2, <1>3, <1>4, <1>5, <1>7
  <2> QED BY <1>2, <1>7, <2>1
<1> HIDE DEF r, old, new
<1> QED BY <1>1, <1>6, <1>7 DEF r, new

\* Most steps commit one transaction or none and touch no file.
Sound == Tables /\ Requests /\ Counted /\ Covered /\ \A c \in Procs : Edit(req[c])

\* Such a step keeps all of Sound.
LEMMA HarmlessStep ==
    ASSUME Sound, Commits, SameFiles, Ordinarily, Record
    PROVE  Sound'
<1>1. Tables' /\ Counted' /\ SameRows /\ Grow /\ Requests' BY DEF Commits, Ordinarily
<1>2. \A c \in Procs : SameEdit(req[c], req'[c]) /\ SameWork(req[c], req'[c])
  BY DEF Ordinarily, Ordinary
<1>3. Covered' BY <1>1, <1>2, CoveredStands DEF Sound
<1>4. \A c \in Procs : Edit(req[c])' BY <1>1, <1>2, EditsStand DEF Sound
<1>5. (\A c \in Procs : Edit(req[c]))' BY <1>4 DEF Edit
<1> QED BY <1>1, <1>3, <1>5 DEF Sound

\* The requests about packs.
LEMMA PackSteps ==
    ASSUME Sound, Record, NEW p \in PackIds, NEW doc \in Docs,
           CreatePack(doc) \/ UpdatePack(p, doc) \/ DeletePack(p)
    PROVE  Sound'
<1>1. Tables /\ Counted /\ Requests BY DEF Sound
<1>2. Commits
  <2>1. CASE CreatePack(doc) BY <1>1, <2>1, InsertCommits DEF CreatePack
  <2>2. CASE UpdatePack(p, doc) BY <1>1, <2>2, ReplaceCommits DEF UpdatePack
  <2>3. CASE DeletePack(p) BY <1>1, <2>3, DeleteCommits
  <2> QED BY <2>1, <2>2, <2>3
<1>3. SameFiles /\ UNCHANGED req BY DEF CreatePack, UpdatePack, DeletePack, SameFiles
<1> QED BY <1>1, <1>2, <1>3, RestReq, HarmlessStep

\* A request that begins and is not an edit.
LEMMA BeginSteps ==
    ASSUME Sound, Record, UNCHANGED store, SameFiles, NEW c \in Procs,
           NEW r \in Request, Begin(c, r), r.op # "edit", r.pc = "next"
    PROVE  Sound'
BY NothingCommits, BeginOrdinarily, HarmlessStep DEF Sound

\* A copy begins with the document it read.
LEMMA BeginDuplicateStep ==
    ASSUME Sound, Record, NEW c \in Procs, NEW p \in PackIds, BeginDuplicate(c, p)
    PROVE  Sound'
<1> DEFINE r == [Idle EXCEPT !.op = "copy", !.doc = packs[p].doc]
<1>1. Idle \in Request /\ Idle.op = "idle" /\ Idle.pc = "next" BY IdleForm
<1>2. packs[p].doc \in Docs BY DEF Sound, Tables, PackRows
<1>3. r \in Request /\ r.op # "edit" /\ r.pc = "next" BY <1>1, <1>2 DEF Request
<1>4. Begin(c, r) /\ UNCHANGED store /\ SameFiles BY DEF BeginDuplicate, SameFiles
<1> HIDE DEF r
<1> QED BY <1>3, <1>4, BeginSteps

\* An import begins with the media its archive carries.
LEMMA BeginImportStep ==
    ASSUME Sound, Record, NEW c \in Procs, NEW doc \in Docs, BeginImport(c, doc)
    PROVE  Sound'
<1> DEFINE r == [Idle EXCEPT !.op = "import", !.todo = MediaIDs(doc), !.doc = doc]
<1>1. PackIds # {} BY ProcsHold DEF Sound, Requests, Request
<1>2. Idle \in Request /\ Idle.op = "idle" /\ Idle.pc = "next" BY <1>1, IdleForm
<1>3. MediaIDs(doc) \subseteq Contents BY DocForm
<1>4. r \in Request /\ r.op # "edit" /\ r.pc = "next" BY <1>2, <1>3 DEF Request
<1>5. Begin(c, r) /\ UNCHANGED store /\ SameFiles BY DEF BeginImport, SameFiles
<1> HIDE DEF r
<1> QED BY <1>4, <1>5, BeginSteps

\* An upload or a deletion begins with one content.
LEMMA BeginMediaSteps ==
    ASSUME Sound, Record, NEW c \in Procs, NEW m \in Contents, BeginUpload(c, m) \/ BeginDelete(c, m)
    PROVE  Sound'
<1> DEFINE r(op) == [Idle EXCEPT !.op = op, !.todo = {m}]
<1>1. PackIds # {} BY ProcsHold DEF Sound, Requests, Request
<1>2. Idle \in Request /\ Idle.op = "idle" /\ Idle.pc = "next" BY <1>1, IdleForm
<1>3. \A op \in {"upload", "delete"} : r(op) \in Request /\ r(op).op # "edit" /\ r(op).pc = "next"
  BY <1>2 DEF Request
<1>4. UNCHANGED store /\ SameFiles BY DEF BeginUpload, BeginDelete, SameFiles
<1>5. Begin(c, r("upload")) \/ Begin(c, r("delete")) BY DEF BeginUpload, BeginDelete
<1> HIDE DEF r
<1> QED BY <1>3, <1>4, <1>5, BeginSteps

\* A sweep begins with the garbage of that moment.
LEMMA SweepStep ==
    ASSUME Sound, Record, Sweep
    PROVE  Sound'
<1> DEFINE r == [Idle EXCEPT !.op = "sweep", !.todo = Garbage]
<1>1. PackIds # {} BY ProcsHold DEF Sound, Requests, Request
<1>2. Idle \in Request /\ Idle.op = "idle" /\ Idle.pc = "next" BY <1>1, IdleForm
<1>3. Garbage \subseteq Contents BY DEF Garbage
<1>4. r \in Request /\ r.op # "edit" /\ r.pc = "next" BY <1>2, <1>3 DEF Request
<1>5. Begin(GC, r) /\ UNCHANGED store /\ SameFiles BY DEF Sweep, SameFiles
<1> HIDE DEF r
<1> QED BY <1>4, <1>5, ProcsHold, BeginSteps

\* An edit takes with it the version it read, and one to insist on.
LEMMA BeginEditStep ==
    ASSUME Sound, Record, NEW c \in Procs, NEW p \in PackIds, NEW e \in Edits \cup {Reorder},
           BeginEdit(c, p, e)
    PROVE  Sound'
<1> DEFINE doc == packs[p].doc
           version == packs[p].version
<1>1. packs[p] \in PackRows BY DEF Sound, Tables
<1>2. doc \in Docs /\ version \in Nat BY <1>1 DEF PackRows
<1>3. Idle \in Request /\ Idle.op = "idle" /\ Idle.pc = "next" BY IdleForm
<1>4. packs[p].stored /\ Applies(e, doc) BY DEF BeginEdit
<1>5. version # 0 BY <1>4 DEF Sound, Counted
<1>6. PICK ifMatch \in IfMatches :
        Begin(c, [Idle EXCEPT !.op = "edit", !.pack = p, !.edit = e, !.doc = Edited(e, doc),
                              !.read = version, !.version = Expected(p, ifMatch)])
  BY DEF BeginEdit
<1>21. ifMatch \in Nat BY Bounds DEF IfMatches
<1> DEFINE w == Expected(p, ifMatch)
           new == Edited(e, doc)
           r == [Idle EXCEPT !.op = "edit", !.pack = p, !.edit = e, !.doc = new,
                             !.read = version, !.version = w]
<1>7. w \in Nat /\ w # 0 BY <1>2, <1>5, <1>21 DEF Expected
<1>8. new \in Docs BY <1>2, <1>4, EditedIsDoc
<1> HIDE DEF doc, new, w, version
<1>9. /\ r \in Request /\ r.op = "edit" /\ r.pc = "next" /\ r.pack = p /\ r.edit = e
      /\ r.doc = new /\ r.read = version /\ r.version = w
  BY <1>2, <1>3, <1>7, <1>8 DEF Request
<1>10. Begin(c, r) BY <1>6 DEF new, w, doc, version
<1> HIDE DEF r
<1>11. UNCHANGED store /\ SameFiles BY DEF BeginEdit, SameFiles
<1>12. Commits BY <1>11, NothingCommits DEF Sound
<1>13. Tables' /\ Counted' /\ SameRows /\ Grow BY <1>12 DEF Commits
<1>14. /\ req' \in [Procs -> Request] /\ req'[c] = r
       /\ \A d \in Procs : d # c => req'[d] = req[d]
  BY <1>9, <1>10, BeginReq DEF Sound, Requests
<1>15. Requests' BY <1>9, <1>14 DEF Sound, Requests, AtWork
<1>16. \A d \in Procs : SameWork(req[d], req'[d]) BY <1>9, <1>14 DEF SameWork
<1>17. Covered' BY <1>11, <1>13, <1>16, CoveredStands DEF Sound
<1>18. packs' = packs BY <1>11 DEF store
<1>19. ASSUME NEW d \in Procs
       PROVE  Edit(req[d])'
  <2>1. CASE d = c
    <3>1. req'[d] = r /\ packs'[r.pack] = packs[p] BY <1>9, <1>14, <1>18, <2>1
    <3>2. /\ r.version # 0 /\ r.read # 0 /\ r.read <= packs'[r.pack].version
          /\ Applies(r.edit, packs'[r.pack].doc)
          /\ r.doc = Edited(r.edit, packs'[r.pack].doc)
      <4>1. packs'[r.pack].version = version /\ packs'[r.pack].doc = doc BY <3>1 DEF doc, version
      <4>2. Applies(e, doc) /\ new = Edited(e, doc) BY <1>4 DEF doc, new
      <4> QED BY <1>2, <1>5, <1>7, <1>9, <4>1, <4>2
    <3> QED BY <3>1, <3>2 DEF Edit
  <2>2. CASE d # c BY <1>14, <1>18, <2>2 DEF Sound, Edit
  <2> QED BY <2>1, <2>2
<1>20. (\A d \in Procs : Edit(req[d]))' BY <1>19 DEF Edit
<1> QED BY <1>13, <1>15, <1>17, <1>20 DEF Sound

\* A request that ends, with or without a transaction.
LEMMA Ends ==
    ASSUME Sound, Record, NEW c \in Procs,
           \/ FinishEdit(c) \/ FinishDuplicate(c)
           \/ FinishUpload(c) \/ FinishImport(c) \/ FinishDelete(c)
    PROVE  Sound'
<1>1. Tables /\ Counted /\ Requests BY DEF Sound
<1>2. SameFiles /\ End(c)
  BY DEF FinishEdit, FinishDuplicate, FinishUpload, FinishImport, FinishDelete, SameFiles
<1>3. req[c].doc \in Docs /\ req[c].pack \in PackIds BY <1>1 DEF Requests, Request
<1>4. Commits
  <2>1. CASE UNCHANGED store BY <1>1, <2>1, NothingCommits
  <2>2. CASE Insert(req[c].doc) BY <1>1, <1>3, <2>2, InsertCommits
  <2>3. CASE /\ Replaceable(req[c].pack, req[c].doc, req[c].version)
             /\ Replace(req[c].pack, req[c].doc)
    BY <1>1, <1>3, <2>3, ReplaceCommits
  <2> QED
    BY <2>1, <2>2, <2>3 DEF FinishEdit, FinishDuplicate, FinishUpload, FinishImport, FinishDelete
<1> QED BY <1>1, <1>2, <1>4, EndOrdinarily, HarmlessStep
\* A refused content disappears from the document of the import.
LEMMA PutRefusedStep ==
    ASSUME Sound, Record, NEW c \in Procs, NEW m \in Contents, PutRefused(c, m)
    PROVE  Sound'
<1> DEFINE r == req[c]
           doc == [q \in DOMAIN r.doc |-> IF r.doc[q] = m THEN Text ELSE r.doc[q]]
           s == [r EXCEPT !.todo = r.todo \ {m}, !.doc = doc]
<1>1. Tables /\ Counted /\ Requests BY DEF Sound
<1>2. SameFiles /\ UNCHANGED store /\ r.op \in {"upload", "import"} /\ r.pc = "next"
  BY DEF PutRefused, SameFiles
<1>3. req' = [req EXCEPT ![c] = s] BY DEF PutRefused
<1>4. r \in Request BY <1>1 DEF Requests
<1>5. r.doc \in Docs BY <1>4 DEF Request
<1>6. DOMAIN r.doc \subseteq Questions /\ r.doc \in [DOMAIN r.doc -> Contents \cup {Text}]
  BY <1>5, DocForm
<1>7. doc \in Docs BY <1>6 DEF Docs
<1> HIDE DEF r, doc
<1>8. s \in Request /\ s.op = r.op /\ s.pc = r.pc BY <1>4, <1>7 DEF Request
<1> HIDE DEF s
<1>9. /\ req' \in [Procs -> Request] /\ req'[c] = s
      /\ \A d \in Procs : d # c => req'[d] = req[d]
  BY <1>1, <1>3, <1>8 DEF Requests
<1>10. Requests' BY <1>1, <1>2, <1>8, <1>9 DEF Requests, AtWork
<1>11. Ordinarily BY <1>2, <1>8, <1>9, <1>10 DEF Ordinarily, Ordinary, SameEdit, SameWork
<1> QED BY <1>1, <1>2, <1>11, NothingCommits, HarmlessStep

\* The steps that look and do not store or delete.
LEMMA Looks ==
    ASSUME Sound, Record, NEW c \in Procs, NEW m \in Contents, PutStat(c, m) \/ DeleteLookup(c, m)
    PROVE  Sound'
<1>1. Tables /\ Counted /\ Requests /\ req \in [Procs -> Request] BY DEF Sound, Requests
<1>2. SameFiles /\ UNCHANGED store BY DEF PutStat, DeleteLookup, SameFiles
<1>3. Ordinarily
  <2>1. CASE OnToNext(c, m) BY <1>1, <2>1, OnToNextReq, MovedOrdinarily
  <2>2. CASE Goto(c, m, "move") BY <1>1, <2>2, GotoReq, MovedOrdinarily
  <2>3. CASE Goto(c, m, "row") BY <1>1, <2>3, GotoReq, MovedOrdinarily
  <2> QED BY <2>1, <2>2, <2>3 DEF PutStat, DeleteLookup
<1> QED BY <1>1, <1>2, <1>3, NothingCommits, HarmlessStep

\* Storing a row, deleting one or ageing one leaves the counts as they are.
LEMMA RowSteps ==
    ASSUME Tables, Counted, UNCHANGED <<packs, packMedia>>, NEW m \in Contents, NEW row \in MediaRows,
           media' = [media EXCEPT ![m] = row],
           row.refs = media[m].refs, row.refs # 0 => row.stored
    PROVE  /\ Tables' /\ Counted' /\ Grow
           /\ media'[m] = row /\ \A n \in Contents : n # m => media'[n] = media[n]
<1>1. Tables' BY DEF Tables
<1>2. media'[m] = row /\ \A n \in Contents : n # m => media'[n] = media[n] BY DEF Tables
<1>3. \A n \in Contents : Refs(n)' = Refs(n) BY DEF Refs
<1>4. \A n \in Contents : /\ media'[n].refs = media[n].refs
                          /\ media'[n].refs # 0 => media'[n].stored
  BY <1>2 DEF Counted
<1>5. Counted' BY <1>3, <1>4 DEF Counted
<1> QED BY <1>1, <1>2, <1>5 DEF Grow

\* The end of a grace period changes no count.
LEMMA AgeStep ==
    ASSUME Sound, Record, NEW m \in Contents, Age(m)
    PROVE  Sound'
<1> DEFINE row == [media[m] EXCEPT !.young = FALSE]
<1>1. Tables /\ Counted /\ Requests BY DEF Sound
<1>2. media[m] \in MediaRows BY <1>1 DEF Tables
<1>3. row \in MediaRows BY <1>2 DEF MediaRows
<1>4. row.refs = media[m].refs BY <1>2 DEF MediaRows
<1>5. row.stored = media[m].stored BY <1>2 DEF MediaRows
<1>6. row.refs # 0 => row.stored BY <1>1, <1>4, <1>5 DEF Counted
<1>7. UNCHANGED <<packs, packMedia, files, req>> /\ media' = [media EXCEPT ![m] = row] BY DEF Age
<1> HIDE DEF row
<1>8. /\ Tables' /\ Counted' /\ Grow
      /\ media'[m] = row /\ \A n \in Contents : n # m => media'[n] = media[n]
  BY <1>1, <1>3, <1>4, <1>6, <1>7, RowSteps
<1>9. SameRows BY <1>5, <1>8 DEF SameRows
<1>10. Commits /\ SameFiles BY <1>7, <1>8, <1>9 DEF Commits, SameFiles
<1> QED BY <1>1, <1>7, <1>10, RestReq, HarmlessStep

\* The process dies: no request is left to work on anything.
LEMMA CrashStep ==
    ASSUME Sound, Record, Crash
    PROVE  Sound'
<1>1. Tables /\ Counted /\ req \in [Procs -> Request] BY DEF Sound, Requests
<1>2. SameFiles /\ UNCHANGED store /\ req' = [c \in Procs |-> Idle] BY DEF Crash, SameFiles
<1>3. PackIds # {} BY <1>1, ProcsHold DEF Request
<1>4. Idle \in Request /\ Idle.op = "idle" /\ Idle.pc = "next" BY <1>3, IdleForm
<1>5. Requests' BY <1>2, <1>4 DEF Requests, AtWork
<1>6. Ordinarily BY <1>2, <1>4, <1>5 DEF Ordinarily, Ordinary, SameEdit, SameWork
<1> QED BY <1>1, <1>2, <1>6, NothingCommits, HarmlessStep
\* What is left to show of Covered when a process stores or deletes m.
LEMMA CoveredIf ==
    ASSUME Covered, Record,
           \A n \in Contents : n \notin raced /\ n \notin raced' =>
              /\ Inserting(n)' \/ media'[n].stored => n \in files'
              /\ Deleting(n)' => ~media'[n].stored,
           \A n \in Contents : n \in raced /\ n \notin raced' /\ ~Deleting(n)' => n \in files'
    PROVE  Covered'
<1> SUFFICES ASSUME NEW n \in Contents, n \notin raced'
             PROVE  /\ Inserting(n)' \/ media'[n].stored => n \in files'
                    /\ Deleting(n)' => ~Putting(n)' /\ ~media'[n].stored
  BY DEF Covered
<1>1. ~(Putting(n)' /\ Deleting(n)') BY DEF Record
<1>2. n \notin raced \/ (~Deleting(n)' /\ n \in files') BY DEF Record
<1> QED BY <1>1, <1>2

\* Putting, storing and deleting processes after the process c has moved.
LEMMA MovedProcs ==
    ASSUME NEW c \in Procs, NEW pc, NEW m, NEW todo, Moved(c, pc, m, todo)
    PROVE  \A n \in Contents :
              /\ Inserting(n)' => Inserting(n) \/ (pc = "insert" /\ n = m)
              /\ Deleting(n)' => Deleting(n) \/ (pc = "file" /\ n = m)
BY DEF Moved, Inserting, Deleting

\* The file is in its place before the row is inserted.
LEMMA PutStoreStep ==
    ASSUME Sound, Record, NEW c \in Procs, PutStore(c)
    PROVE  Sound'
<1> DEFINE m == req[c].content
<1>1. /\ Tables /\ Counted /\ Requests /\ Covered /\ req \in [Procs -> Request]
      /\ \A d \in Procs : Edit(req[d])
  BY DEF Sound, Requests
<1>2. m \in Contents BY <1>1 DEF PutStore, Requests, AtWork
<1>3. CASE req[c].pc = "move"
  <2>1. files' = files \cup {m} /\ Goto(c, m, "insert") /\ UNCHANGED store
    BY <1>3 DEF PutStore
  <2>2. Moved(c, "insert", m, req[c].todo) BY <1>1, <1>2, <2>1, GotoReq
  <2> HIDE DEF m
  <2>3. Requests' /\ \A d \in Procs : SameEdit(req[d], req'[d])
    BY <1>1, <1>2, <2>2, MovedKeepsEdits
  <2>4. Tables' /\ Counted' /\ SameRows /\ Grow BY <1>1, <2>1, NothingCommits DEF Commits
  <2>5. Covered'
    <3>1. \A n \in Contents : /\ Inserting(n)' => Inserting(n) \/ n = m
                              /\ Deleting(n)' => Deleting(n)
      BY <2>2, MovedProcs
    <3>2. \A n \in Contents : n \notin raced =>
             /\ Inserting(n)' \/ media'[n].stored => n \in files'
             /\ Deleting(n)' => ~media'[n].stored
      BY <1>1, <2>1, <2>4, <3>1 DEF Covered, SameRows
    <3>3. \A n \in Contents : n \in raced /\ n \notin raced' /\ ~Deleting(n)' => n \in files'
      BY DEF Record
    <3> QED BY <1>1, <3>2, <3>3, CoveredIf
  <2> QED BY <1>1, <2>3, <2>4, <2>5, EditsStand DEF Sound
<1>4. CASE req[c].pc = "insert"
  <2>1. /\ media' = IF media[m].stored THEN media ELSE [media EXCEPT ![m] = Uploaded]
        /\ OnToNext(c, m) /\ UNCHANGED <<packs, packMedia, files>>
    BY <1>4 DEF PutStore
  <2>2. Moved(c, "next", Text, req[c].todo \ {m}) BY <1>1, <2>1, OnToNextReq
  <2>3. Inserting(m) /\ Putting(m) BY <1>4 DEF Inserting, Putting
  <2> HIDE DEF m
  <2>4. Requests' /\ \A d \in Procs : SameEdit(req[d], req'[d])
    BY <1>1, <2>2, MovedKeepsEdits
  <2>5. /\ Tables' /\ Counted' /\ Grow
        /\ \A n \in Contents : n # m => media'[n].stored = media[n].stored
    <3>1. CASE media[m].stored
      <4>1. UNCHANGED store BY <2>1, <3>1 DEF store
      <4> QED BY <1>1, <4>1, NothingCommits DEF Commits, SameRows
    <3>2. CASE ~media[m].stored
      <4>1. Uploaded \in MediaRows /\ Uploaded.refs = 0 /\ Uploaded.stored BY DEF Uploaded, MediaRows
      <4>2. media[m].refs = 0 BY <1>1, <1>2, <3>2 DEF Counted
      <4>3. media' = [media EXCEPT ![m] = Uploaded] BY <2>1, <3>2
      <4>4. Uploaded.refs = media[m].refs /\ (Uploaded.refs # 0 => Uploaded.stored)
        BY <4>1, <4>2
      <4>5. /\ Tables' /\ Counted' /\ Grow
            /\ \A n \in Contents : n # m => media'[n] = media[n]
        BY <1>1, <1>2, <2>1, <4>1, <4>3, <4>4, RowSteps
      <4> QED BY <4>5
    <3> QED BY <3>1, <3>2
  <2>6. Covered'
    <3>1. \A n \in Contents : /\ Inserting(n)' => Inserting(n)
                              /\ Deleting(n)' => Deleting(n)
      BY <2>2, MovedProcs
    <3>2. ASSUME NEW n \in Contents, n \notin raced
          PROVE  /\ Inserting(n)' \/ media'[n].stored => n \in files'
                 /\ Deleting(n)' => ~media'[n].stored
      <4>1. CASE n = m BY <1>1, <2>1, <2>3, <3>1, <3>2, <4>1 DEF Covered
      <4>2. CASE n # m BY <1>1, <2>1, <2>5, <3>1, <3>2, <4>2 DEF Covered
      <4> QED BY <4>1, <4>2
    <3>3. \A n \in Contents : n \in raced /\ n \notin raced' /\ ~Deleting(n)' => n \in files'
      BY DEF Record
    <3> QED BY <1>1, <3>2, <3>3, CoveredIf
  <2> QED BY <1>1, <2>4, <2>5, <2>6, EditsStand DEF Sound
<1> QED BY <1>3, <1>4 DEF PutStore

\* The row goes before the file.
LEMMA DeleteRowStep ==
    ASSUME Sound, Record, NEW c \in Procs, DeleteRow(c)
    PROVE  Sound'
<1> DEFINE m == req[c].content
<1>1. /\ Tables /\ Counted /\ Requests /\ Covered /\ req \in [Procs -> Request]
      /\ \A d \in Procs : Edit(req[d])
  BY DEF Sound, Requests
<1>2. m \in Contents BY <1>1 DEF DeleteRow, Requests, AtWork
<1>3. UNCHANGED <<packs, packMedia, files>> BY DEF DeleteRow
<1>4. CASE UNCHANGED media /\ OnToNext(c, m)
  <2>1. Moved(c, "next", Text, req[c].todo \ {m}) BY <1>1, <1>4, OnToNextReq
  <2>2. Ordinarily BY <1>1, <2>1, MovedOrdinarily
  <2>3. UNCHANGED store /\ SameFiles BY <1>3, <1>4 DEF store, SameFiles
  <2> QED BY <1>1, <2>2, <2>3, NothingCommits, HarmlessStep
<1>5. CASE media[m].refs = 0 /\ media' = [media EXCEPT ![m] = NoRow] /\ Goto(c, m, "file")
  <2>1. Moved(c, "file", m, req[c].todo) BY <1>1, <1>2, <1>5, GotoReq
  <2> HIDE DEF m
  <2>2. Requests' /\ \A d \in Procs : SameEdit(req[d], req'[d])
    BY <1>1, <1>2, <2>1, MovedKeepsEdits
  <2>3. NoRow \in MediaRows /\ NoRow.refs = 0 /\ ~NoRow.stored BY DEF NoRow, MediaRows
  <2>4. /\ Tables' /\ Counted' /\ Grow
        /\ media'[m] = NoRow /\ \A n \in Contents : n # m => media'[n] = media[n]
    BY <1>1, <1>2, <1>3, <1>5, <2>3, RowSteps
  <2>5. Covered'
    <3>1. \A n \in Contents : /\ Inserting(n)' => Inserting(n)
                              /\ Deleting(n)' => Deleting(n) \/ n = m
      BY <2>1, MovedProcs
    <3>2. ASSUME NEW n \in Contents, n \notin raced
          PROVE  /\ Inserting(n)' \/ media'[n].stored => n \in files'
                 /\ Deleting(n)' => ~media'[n].stored
      <4>1. CASE n = m BY <1>1, <1>3, <2>3, <2>4, <3>1, <3>2, <4>1 DEF Covered
      <4>2. CASE n # m BY <1>1, <1>3, <2>4, <3>1, <3>2, <4>2 DEF Covered
      <4> QED BY <4>1, <4>2
    <3>3. \A n \in Contents : n \in raced /\ n \notin raced' /\ ~Deleting(n)' => n \in files'
      BY DEF Record
    <3> QED BY <1>1, <3>2, <3>3, CoveredIf
  <2> QED BY <1>1, <2>2, <2>4, <2>5, EditsStand DEF Sound
<1> QED BY <1>4, <1>5 DEF DeleteRow

\* The file goes last; a Put across it is recorded as raced.
LEMMA DeleteFileStep ==
    ASSUME Sound, Record, NEW c \in Procs, DeleteFile(c)
    PROVE  Sound'
<1> DEFINE m == req[c].content
<1>1. /\ Tables /\ Counted /\ Requests /\ Covered /\ req \in [Procs -> Request]
      /\ \A d \in Procs : Edit(req[d])
  BY DEF Sound, Requests
<1>2. m \in Contents BY <1>1 DEF DeleteFile, Requests, AtWork
<1>3. files' = files \ {m} /\ OnToNext(c, m) /\ UNCHANGED store BY DEF DeleteFile
<1>4. Moved(c, "next", Text, req[c].todo \ {m}) BY <1>1, <1>3, OnToNextReq
<1>5. Deleting(m) BY DEF DeleteFile, Deleting
<1> HIDE DEF m
<1>6. Requests' /\ \A d \in Procs : SameEdit(req[d], req'[d])
  BY <1>1, <1>4, MovedKeepsEdits
<1>7. Tables' /\ Counted' /\ SameRows /\ Grow BY <1>1, <1>3, NothingCommits DEF Commits
<1>8. Covered'
  <2>1. \A n \in Contents : /\ Inserting(n)' => Inserting(n)
                            /\ Deleting(n)' => Deleting(n)
    BY <1>4, MovedProcs
  <2>2. \A n \in Contents : Inserting(n) => Putting(n) BY DEF Inserting, Putting
  <2>3. ASSUME NEW n \in Contents, n \notin raced
        PROVE  /\ Inserting(n)' \/ media'[n].stored => n \in files'
               /\ Deleting(n)' => ~media'[n].stored
    <3>1. media'[n].stored = media[n].stored BY <1>7 DEF SameRows
    <3>2. CASE n = m BY <1>1, <1>5, <2>1, <2>2, <2>3, <3>1, <3>2 DEF Covered
    <3>3. CASE n # m BY <1>1, <1>3, <2>1, <2>3, <3>1, <3>3 DEF Covered
    <3> QED BY <3>2, <3>3
  <2>4. \A n \in Contents : n \in raced /\ n \notin raced' /\ ~Deleting(n)' => n \in files'
    BY DEF Record
  <2> QED BY <1>1, <2>3, <2>4, CoveredIf
<1> QED BY <1>1, <1>6, <1>7, <1>8, EditsStand DEF Sound-----------------------------------------------------------------------------
(* The specification.                                                      *)

\* The database an earlier run left is sound.
LEMMA InitSound == Init => Sound
<1> SUFFICES ASSUME Init PROVE Sound OBVIOUS
<1>1. PICK p \in PackIds, doc \in Bodies :
        packs \in { [i \in PackIds |-> NoPack],
                   [i \in PackIds |-> IF i = p THEN [stored |-> TRUE, version |-> 1, doc |-> doc]
                                              ELSE NoPack] }
  BY DEF Init
<1>2. doc \in Docs BY BodiesAreDocs
<1>3. NoPack \in PackRows /\ ~NoPack.stored BY NoDocIsDoc DEF NoPack, PackRows
<1>4. [stored |-> TRUE, version |-> 1, doc |-> doc] \in PackRows BY <1>2 DEF PackRows
<1>5. packs \in [PackIds -> PackRows] BY <1>1, <1>3, <1>4
<1>6. \A q \in PackIds : packs[q].stored => q = p /\ packs[q].version # 0 BY <1>1, <1>3
<1>7. packMedia = {r \in PackIds \X Contents : r[2] \in MediaIDs(packs[r[1]].doc)}
  BY DEF Init
<1>8. \A q \in PackIds : ~packs[q].stored => packs[q] = NoPack BY <1>1
<1>9. NoPack.doc = NoDoc /\ MediaIDs(NoDoc) = {} BY NoDocIsDoc DEF NoPack
<1>10. \A q \in PackIds, m \in Contents :
          <<q, m>> \in packMedia <=> packs[q].stored /\ m \in MediaIDs(packs[q].doc)
  BY <1>7, <1>8, <1>9
<1>11. /\ files = {r[2] : r \in packMedia}
       /\ media = [m \in Contents |-> IF m \in files THEN [stored |-> TRUE, refs |-> 1, young |-> FALSE]
                                                   ELSE NoRow]
       /\ req = [c \in Procs |-> Idle]
  BY DEF Init
<1>12. \A m \in Contents : m \in files <=> <<p, m>> \in packMedia
  BY <1>6, <1>7, <1>10, <1>11
<1>13. NoRow \in MediaRows /\ NoRow.refs = 0 /\ ~NoRow.stored BY DEF NoRow, MediaRows
<1>14. Tables BY <1>5, <1>7, <1>11, <1>13 DEF Tables, MediaRows
<1>15. Counted
  <2>1. ASSUME NEW m \in Contents
        PROVE  /\ IsFiniteSet(Refs(m)) /\ media[m].refs = Cardinality(Refs(m))
               /\ media[m].refs # 0 => media[m].stored
    <3>1. CASE m \in files
      <4>1. Refs(m) = {p} BY <1>6, <1>10, <1>12, <3>1 DEF Refs
      <4>2. IsFiniteSet(Refs(m)) /\ Cardinality(Refs(m)) = 1 BY <4>1, FS_Singleton
      <4>3. media[m].refs = 1 /\ media[m].stored BY <1>11, <3>1
      <4> QED BY <4>2, <4>3
    <3>2. CASE m \notin files
      <4>1. Refs(m) = {} BY <1>6, <1>10, <1>12, <3>2 DEF Refs
      <4>2. IsFiniteSet(Refs(m)) /\ Cardinality(Refs(m)) = 0 BY <4>1, FS_EmptySet
      <4>3. media[m].refs = 0 BY <1>11, <1>13, <3>2
      <4> QED BY <4>2, <4>3
    <3> QED BY <3>1, <3>2
  <2> QED BY <1>6, <1>10, <2>1 DEF Counted
<1>16. Idle \in Request /\ Idle.op = "idle" /\ Idle.pc = "next" BY <1>1, IdleForm
<1>17. Requests BY <1>11, <1>16 DEF Requests, AtWork
<1>18. \A m \in Contents : ~Inserting(m) /\ ~Deleting(m) BY <1>11, <1>16 DEF Inserting, Deleting
<1>19. Covered BY <1>11, <1>13, <1>18 DEF Covered
<1>20. \A c \in Procs : Edit(req[c]) BY <1>11, <1>16 DEF Edit
<1> QED BY <1>14, <1>15, <1>17, <1>19, <1>20 DEF Sound

\* Every step keeps Sound.
LEMMA NextSound == Sound /\ [Next]_vars => Sound'
<1> SUFFICES ASSUME Sound, [Next]_vars PROVE Sound' OBVIOUS
<1>1. CASE UNCHANGED vars
  <2>1. UNCHANGED <<packs, packMedia, media, files, req, raced>> BY <1>1 DEF vars
  <2>2. Tables' /\ Requests' BY <2>1 DEF Sound, Tables, Requests, AtWork
  <2>3. Counted' BY <2>1 DEF Sound, Counted, Refs
  <2>4. Covered' BY <2>1 DEF Sound, Covered, Inserting, Putting, Deleting
  <2>5. (\A c \in Procs : Edit(req[c]))' BY <2>1 DEF Sound, Edit
  <2> QED BY <2>2, <2>3, <2>4, <2>5 DEF Sound
<1>2. CASE Next
  <2>1. Record BY <1>2 DEF Next
  <2>2. Bodies \subseteq Docs /\ Clients \subseteq Procs /\ GC \in Procs BY BodiesAreDocs, ProcsHold
  <2>3. PackIds # {} /\ NoDoc \in Docs BY <2>2, NoDocIsDoc DEF Sound, Requests, Request
  <2>4. CASE PackRequest
    <3>1. CASE \E doc \in Bodies : CreatePack(doc) BY <2>1, <2>2, <2>3, <3>1, PackSteps
    <3>2. CASE \E p \in PackIds : DeletePack(p) BY <2>1, <2>3, <3>2, PackSteps
    <3>3. CASE \E p \in PackIds, doc \in Bodies : UpdatePack(p, doc)
      BY <2>1, <2>2, <3>3, PackSteps
    <3>4. CASE \E c \in Clients, p \in PackIds : BeginDuplicate(c, p)
      BY <2>1, <2>2, <3>4, BeginDuplicateStep
    <3>5. CASE \E c \in Clients, p \in PackIds, e \in Edits \cup {Reorder} : BeginEdit(c, p, e)
      BY <2>1, <2>2, <3>5, BeginEditStep
    <3>6. CASE \E c \in Clients : FinishEdit(c) \/ FinishDuplicate(c)
      BY <2>1, <2>2, <3>6, Ends
    <3> QED BY <2>4, <3>1, <3>2, <3>3, <3>4, <3>5, <3>6 DEF PackRequest
  <2>5. CASE MediaRequest
    <3>1. CASE \E c \in Clients, doc \in Bodies : BeginImport(c, doc)
      BY <2>1, <2>2, <3>1, BeginImportStep
    <3>2. ASSUME NEW c \in Clients, NEW m \in Contents,
                 \/ BeginUpload(c, m) \/ BeginDelete(c, m)
                 \/ PutRefused(c, m) \/ PutStat(c, m) \/ DeleteLookup(c, m)
          PROVE  Sound'
      BY <2>1, <2>2, <3>2, BeginMediaSteps, PutRefusedStep, Looks
    <3>3. ASSUME NEW c \in Clients,
                 \/ PutStore(c) \/ FinishUpload(c) \/ FinishImport(c)
                 \/ DeleteRow(c) \/ DeleteFile(c) \/ FinishDelete(c)
          PROVE  Sound'
      BY <2>1, <2>2, <3>3, PutStoreStep, Ends, DeleteRowStep, DeleteFileStep
    <3> QED BY <2>5, <3>1, <3>2, <3>3 DEF MediaRequest
  <2>6. CASE GCNext
    <3>1. CASE Sweep BY <2>1, <3>1, SweepStep
    <3>2. CASE Collect BY <2>1, <2>2, <3>2, Looks DEF Collect
    <3>3. CASE DeleteRow(GC) \/ DeleteFile(GC) \/ FinishDelete(GC)
      BY <2>1, <2>2, <3>3, DeleteRowStep, DeleteFileStep, Ends
    <3> QED BY <2>6, <3>1, <3>2, <3>3 DEF GCNext
  <2>7. CASE \E m \in Contents : Age(m) BY <2>1, <2>7, AgeStep
  <2>8. CASE Crash BY <2>1, <2>8, CrashStep
  <2> QED BY <1>2, <2>4, <2>5, <2>6, <2>7, <2>8 DEF Next
<1> QED BY <1>1, <1>2

\* The files are of contents, and the bounds count.
Counts == requests \in Nat /\ crashes \in Nat

\* Files are only written for contents that a request works on.
LEMMA NextCounts ==
    ASSUME Counts, files \subseteq Contents, Requests, Next
    PROVE  Counts' /\ files' \subseteq Contents /\ raced' \subseteq Contents
<1>1. \A c \in Procs : req[c].pc # "next" => req[c].content \in Contents BY DEF Requests, AtWork
<1>2. Clients \subseteq Procs /\ GC \in Procs BY ProcsHold
<1>3. raced' \subseteq Contents BY DEF Next, Record
<1>4. CASE PackRequest
  <2>1. files' = files /\ crashes' = crashes /\ requests' \in {requests, requests + 1}
    BY <1>4 DEF PackRequest, CreatePack, DeletePack, UpdatePack, BeginDuplicate, BeginEdit,
                FinishEdit, FinishDuplicate, Asked
  <2> QED BY <1>3, <2>1 DEF Counts
<1>5. CASE MediaRequest
  <2>1. crashes' = crashes /\ requests' \in {requests, requests + 1}
    BY <1>5 DEF MediaRequest, BeginImport, BeginUpload, BeginDelete, PutRefused, PutStat,
                DeleteLookup, PutStore, FinishUpload, FinishImport, DeleteRow, DeleteFile,
                FinishDelete, Asked
  <2>2. files' \subseteq Contents
    <3>1. CASE \E c \in Clients : PutStore(c) BY <1>1, <1>2, <3>1 DEF PutStore
    <3>2. CASE \E c \in Clients : DeleteFile(c) BY <3>2 DEF DeleteFile
    <3>3. CASE UNCHANGED files BY <3>3
    <3> QED BY <1>5, <3>1, <3>2, <3>3
          DEF MediaRequest, BeginImport, BeginUpload, BeginDelete, PutRefused, PutStat,
              DeleteLookup, FinishUpload, FinishImport, DeleteRow, FinishDelete
  <2> QED BY <1>3, <2>1, <2>2 DEF Counts
<1>6. CASE GCNext
  <2>1. crashes' = crashes /\ requests' = requests
    BY <1>6 DEF GCNext, Sweep, Collect, DeleteLookup, DeleteRow, DeleteFile, FinishDelete
  <2>2. files' \subseteq Contents
    BY <1>6 DEF GCNext, Sweep, Collect, DeleteLookup, DeleteRow, DeleteFile, FinishDelete
  <2> QED BY <1>3, <2>1, <2>2 DEF Counts
<1>7. CASE (\E m \in Contents : Age(m)) \/ Crash BY <1>3, <1>7 DEF Age, Crash, Counts
<1> QED BY <1>4, <1>5, <1>6, <1>7 DEF Next

\* IInv regrouped, as the steps are proved.
LEMMA IInvParts ==
    IInv <=> Sound /\ Counts /\ files \subseteq Contents /\ raced \subseteq Contents
BY DEF IInv, TypeOK, Sound, Tables, Requests, Counts, PackRows, MediaRows

\* IInv holds at first,
LEMMA IInvInit == Init => IInv
<1> SUFFICES ASSUME Init PROVE IInv OBVIOUS
<1>1. Sound BY InitSound
<1>2. Counts /\ raced \subseteq Contents BY DEF Init, Counts
<1>3. files \subseteq Contents
  <2>1. packMedia \subseteq PackIds \X Contents /\ files = {r[2] : r \in packMedia}
    BY <1>1 DEF Init, Sound, Tables
  <2> QED BY <2>1
<1> QED BY <1>1, <1>2, <1>3, IInvParts

\* and every step keeps it.
LEMMA IInvNext == IInv /\ [Next]_vars => IInv'
<1> SUFFICES ASSUME IInv, [Next]_vars PROVE IInv' OBVIOUS
<1>1. Sound /\ Counts /\ files \subseteq Contents /\ raced \subseteq Contents BY IInvParts
<1>2. Sound' BY <1>1, NextSound
<1>3. Counts' /\ files' \subseteq Contents /\ raced' \subseteq Contents
  <2>1. CASE Next BY <1>1, <2>1, NextCounts DEF Sound
  <2>2. CASE UNCHANGED vars BY <1>1, <2>2 DEF vars, Counts
  <2> QED BY <2>1, <2>2
<1>4. (Sound /\ Counts /\ files \subseteq Contents /\ raced \subseteq Contents)' BY <1>2, <1>3
<1>5. (IInv <=> Sound /\ Counts /\ files \subseteq Contents /\ raced \subseteq Contents)'
  BY IInvParts, PTL
<1> QED BY <1>4, <1>5

\* IInv is an inductive invariant.
THEOREM Invariant == Spec => []IInv
<1>1. Init => IInv BY IInvInit
<1>2. IInv /\ [Next]_vars => IInv' BY IInvNext
<1> QED BY <1>1, <1>2, PTL DEF Spec

\* Every variable keeps to its type.
THEOREM TypeCorrect == Spec => []TypeOK
<1>1. IInv => TypeOK BY DEF IInv
<1> QED BY <1>1, Invariant, PTL

\* Whatever the number of packs and contents, the reference counts, pack_media
\* and the stored documents agree, and every object referred to has its row
\* (repo.go addMediaRefs, removeMediaRefs, diffRefs, checkMediaExist).
THEOREM ReferencesAlwaysHold == Spec => []ReferencesHold
<1>1. IInv => ReferencesHold
  <2> SUFFICES ASSUME IInv PROVE ReferencesHold OBVIOUS
  <2>1. Counted /\ Tables BY IInvParts DEF Sound
  <2>2. packMedia = {r \in StoredPacks \X Contents : r[2] \in MediaIDs(packs[r[1]].doc)}
    BY <2>1 DEF Counted, Tables, StoredPacks
  <2>3. ASSUME NEW m \in Contents
        PROVE  /\ media[m].refs = Cardinality({p \in PackIds : <<p, m>> \in packMedia})
               /\ media[m].refs > 0 => media[m].stored
    <3>1. media[m].refs = Cardinality(Refs(m)) /\ (media[m].refs # 0 => media[m].stored)
      BY <2>1 DEF Counted
    <3> QED BY <3>1 DEF Refs
  <2> QED BY <2>2, <2>3 DEF ReferencesHold
<1> QED BY <1>1, Invariant, PTL

\* A row has its bytes wherever the process dies, unless a Put ran across a
\* Delete of the same content (store.go Put, Delete).
THEOREM RowsKeepBytes == Spec => []BytesUnlessRaced
<1>1. IInv => BytesUnlessRaced BY DEF IInv, Covered, BytesUnlessRaced
<1> QED BY <1>1, Invariant, PTL

\* An edit that is accepted makes its own change to the document stored at that
\* moment, for every number of clients that edit one pack without If-Match or
\* with a version told by then (nested.go mutatePack).
THEOREM EditsDoCompose == Spec => EditsCompose
<1>1. ASSUME IInv, [Next]_vars, NEW c \in Clients
      PROVE  EditAccepted(c) /\ req[c].version <= req[c].read => Composes(c)
  <2> SUFFICES ASSUME req[c].op = "edit", packs' # packs, req'[c].op # "edit",
                      req[c].version <= req[c].read
               PROVE  Composes(c)
    BY DEF EditAccepted
  <2>1. /\ Tables /\ Requests /\ Edit(req[c]) /\ Clients \subseteq Procs /\ c \in Procs
        /\ req \in [Procs -> Request]
    BY <1>1, IInvParts, ProcsHold DEF Sound, Requests
  <2>2. PackRequest
    <3>1. Next BY <1>1 DEF vars
    <3>2. ~MediaRequest \/ FinishImport(c) \/ \E d \in Clients : FinishImport(d) /\ d # c
      BY DEF MediaRequest, BeginImport, BeginUpload, BeginDelete, PutRefused, PutStat,
             DeleteLookup, PutStore, FinishUpload, FinishImport, DeleteRow, DeleteFile,
             FinishDelete, store
    <3>3. ~FinishImport(c) BY DEF FinishImport
    <3>4. \A d \in Clients : FinishImport(d) /\ d # c => req'[c] = req[c]
      BY <2>1, EndReq DEF FinishImport
    <3>5. ~GCNext
      BY DEF GCNext, Sweep, Collect, DeleteLookup, DeleteRow, DeleteFile, FinishDelete, store
    <3>6. ~Crash /\ ~\E m \in Contents : Age(m) BY DEF Crash, Age, store
    <3> QED BY <3>1, <3>2, <3>3, <3>4, <3>5, <3>6 DEF Next
  <2>3. FinishEdit(c)
    <3>1. ASSUME NEW d \in Clients, FinishEdit(d) \/ FinishDuplicate(d), d # c
          PROVE  FALSE
      BY <2>1, <3>1, EndReq DEF FinishEdit, FinishDuplicate
    <3>2. ~FinishDuplicate(c) BY DEF FinishDuplicate
    <3>3. ~UNCHANGED req OBVIOUS
    <3> QED BY <2>2, <3>1, <3>2, <3>3
          DEF PackRequest, CreatePack, DeletePack, UpdatePack, BeginDuplicate, BeginEdit, store
  <2> DEFINE r == req[c]
             old == packs[r.pack]
  <2>4. Replaceable(r.pack, r.doc, r.version) /\ Replace(r.pack, r.doc)
    BY <2>3 DEF FinishEdit, store
  <2>5. /\ r.version # 0 /\ r.read <= old.version
        /\ r.read = old.version /\ old.stored =>
              Applies(r.edit, old.doc) /\ r.doc = Edited(r.edit, old.doc)
    BY <2>1 DEF Edit
  <2>7. /\ r.pack \in PackIds /\ r.doc \in Docs /\ r.version \in Nat /\ r.read \in Nat
        /\ old.version \in Nat
    BY <2>1 DEF Request, Tables, PackRows
  <2>9. old.stored /\ r.read = old.version
    <3>1. old.stored /\ r.version = old.version BY <2>4, <2>5 DEF Replaceable
    <3>2. r.version <= r.read OBVIOUS
    <3> HIDE DEF r, old
    <3> QED BY <2>5, <2>7, <3>1, <3>2
  <2>6. Applies(r.edit, old.doc) /\ r.doc = Edited(r.edit, old.doc)
    BY <2>5, <2>9
  <2>8. packs'[r.pack].doc = r.doc
    <3>1. packs' = [packs EXCEPT ![r.pack] = Replaced(old, old.version + 1, r.doc)]
      BY <2>4 DEF Replace, Replaced
    <3>2. packs'[r.pack] = Replaced(old, old.version + 1, r.doc) BY <2>1, <2>7, <3>1 DEF Tables
    <3>3. old \in PackRows /\ old.version + 1 \in Nat BY <2>1, <2>7 DEF Tables, PackRows
    <3> HIDE DEF r, old
    <3> QED BY <2>7, <3>2, <3>3, ReplacedRow
  <2> QED BY <2>6, <2>8 DEF Composes
<1>2. IInv /\ [Next]_vars =>
        [\A c \in Clients :
            EditAccepted(c) /\ req[c].version <= req[c].read => Composes(c)]_vars
  BY <1>1
<1> QED BY <1>2, Invariant, PTL DEF Spec, EditsCompose
=============================================================================
