------------------------------ MODULE Ingestion ------------------------------
(***************************************************************************)
(* Documents of one organization: the record in MySQL (documents and their  *)
(* chunk rows) and the vectors in Chroma, written by ingest_document with   *)
(* no transaction across the two.  A request reads its snapshot, and then   *)
(* holds what it writes: the unique key of a document it adds, the chunk    *)
(* rows of one it replaces.  Any step may be the last: the embedder, the    *)
(* store or the database fails, or the process dies; MySQL rolls back and   *)
(* Chroma does not.                                                         *)
(***************************************************************************)
EXTENDS Chunking

CONSTANTS Names,        \* external ids
          Texts,        \* what is ingested
          Callers,
          MaxFailures   \* bound on failed requests

VARIABLES docs,      \* the document of each name, as committed
          index,     \* the entries of the organization's collection
          minted,    \* the names for which public ids were minted, in order
          tx,        \* the open request of each caller
          torn,      \* history: public ids whose request failed after it touched the index
          answered,  \* history: whether the last ingestion of a name to end succeeded
          failures

documentVars == <<docs, index, minted, tx, torn, answered, failures>>

Publics == 1 .. Len(minted)
NoDocument == [pub |-> 0, content |-> <<>>, count |-> 0]
NoTx == [stage |-> "none"]

Count(text) == Len(ChunkText(text))

\* What upsert stores of a text: one entry for each chunk, named by the document
\* and the chunk's ordinal.
Entries(p, text) ==
    {[pub |-> p, ordinal |-> i, text |-> ChunkText(text)[i].text] : i \in DOMAIN ChunkText(text)}

IndexOf(p) == {v \in index : v.pub = p}

DocumentInit ==
    /\ docs = [n \in Names |-> NoDocument]
    /\ index = {} /\ minted = <<>>
    /\ tx = [c \in Callers |-> NoTx]
    /\ torn = {} /\ answered = [n \in Names |-> FALSE] /\ failures = 0

-----------------------------------------------------------------------------

Exists(name) == docs[name].pub # 0
Unchanged(name, text) == Exists(name) /\ docs[name].content = text

At(c, stage) == tx[c].stage = stage

\* Mutant: requests for one document do not wait for each other.
HoldsNothing(d, name) == FALSE

\* The rows that an open request keeps locked: its chunk rows from the delete
\* on, and the unique key of a document it has added.
Holds(d, name) ==
    /\ tx[d] # NoTx /\ tx[d].name = name
    /\ At(d, "replaced") \/ At(d, "deleted") \/ At(d, "landed") \/ tx[d].added

Free(c, name) == \A d \in Callers \ {c} : ~ Holds(d, name)

\* The content hash is compared first: a match returns at once.
AnswerUnchanged(c, name, text) ==
    /\ tx[c] = NoTx
    /\ Unchanged(name, text)
    /\ answered' = [answered EXCEPT ![name] = TRUE]
    /\ UNCHANGED <<docs, index, minted, tx, torn, failures>>

BeginIngestion(c, name, text) ==
    /\ tx[c] = NoTx
    /\ ChunkText(text) # <<>>
    /\ ~ Unchanged(name, text)
    /\ tx' = [tx EXCEPT ![c] =
                [stage |-> "read", name |-> name, content |-> text, added |-> FALSE,
                 pub |-> docs[name].pub, count |-> docs[name].count]]
    /\ UNCHANGED <<docs, index, minted, torn, answered, failures>>

\* The first ingestion of a name inserts the document at once, for the public id
\* is part of every chunk's identity.
AddDocument(c) ==
    /\ At(c, "read") /\ tx[c].pub = 0
    /\ Free(c, tx[c].name) /\ ~ Exists(tx[c].name)
    /\ minted' = Append(minted, tx[c].name)
    /\ tx' = [tx EXCEPT ![c].pub = Len(minted'), ![c].added = TRUE]
    /\ UNCHANGED <<docs, index, torn, answered, failures>>

\* Another request added it since the snapshot: the unique key refuses.
CollideOnAdd(c) ==
    /\ At(c, "read") /\ tx[c].pub = 0
    /\ Exists(tx[c].name)
    /\ tx' = [tx EXCEPT ![c] = NoTx]
    /\ UNCHANGED <<docs, index, minted, torn, answered, failures>>

\* The text is embedded, and then the chunk rows are deleted, which waits for a
\* request that holds them, and inserted again.
ReplaceChunks(c) ==
    /\ At(c, "read") /\ tx[c].pub # 0
    /\ Free(c, tx[c].name)
    /\ tx' = [tx EXCEPT ![c].stage = "replaced"]
    /\ UNCHANGED <<docs, index, minted, torn, answered, failures>>

\* Mutant: only stable ids keep a revision apart from the one before it.
AllRemain(p) == index

Remaining(p) == index \ IndexOf(p)

DeleteVectors(c) ==
    /\ At(c, "replaced")
    /\ index' = Remaining(tx[c].pub)
    /\ tx' = [tx EXCEPT ![c].stage = "deleted"]
    /\ UNCHANGED <<docs, minted, torn, answered, failures>>

UpsertVectors(c) ==
    /\ At(c, "deleted")
    /\ LET new == Entries(tx[c].pub, tx[c].content)
           kept == {v \in index : \A w \in new : w.pub # v.pub \/ w.ordinal # v.ordinal}
       IN  index' = kept \cup new
    /\ tx' = [tx EXCEPT ![c].stage = "landed"]
    /\ UNCHANGED <<docs, minted, torn, answered, failures>>

\* The count is written only if it differs from the one the snapshot had.
CommitIngestion(c) ==
    /\ At(c, "landed")
    /\ LET t == tx[c]
           count == IF Count(t.content) # t.count THEN Count(t.content) ELSE docs[t.name].count
       IN  /\ docs' = [docs EXCEPT ![t.name] =
                         [pub |-> t.pub, content |-> t.content, count |-> count]]
           /\ torn' = torn \ {t.pub}
           /\ answered' = [answered EXCEPT ![t.name] = TRUE]
    /\ tx' = [tx EXCEPT ![c] = NoTx]
    /\ UNCHANGED <<index, minted, failures>>

FailIngestion(c) ==
    /\ tx[c] # NoTx /\ failures < MaxFailures
    /\ failures' = failures + 1
    /\ torn' = IF At(c, "deleted") \/ At(c, "landed") THEN torn \cup {tx[c].pub} ELSE torn
    /\ answered' = [answered EXCEPT ![tx[c].name] = FALSE]
    /\ tx' = [tx EXCEPT ![c] = NoTx]
    /\ UNCHANGED <<docs, index, minted>>

IngestionStep(c) ==
    \/ \E n \in Names, text \in Texts : AnswerUnchanged(c, n, text) \/ BeginIngestion(c, n, text)
    \/ AddDocument(c) \/ CollideOnAdd(c) \/ ReplaceChunks(c)
    \/ DeleteVectors(c) \/ UpsertVectors(c) \/ CommitIngestion(c) \/ FailIngestion(c)

DocumentNext == \E c \in Callers : IngestionStep(c)

DocumentSpec == DocumentInit /\ [][DocumentNext]_documentVars

-----------------------------------------------------------------------------
(* Properties *)

Touching(p) == \E c \in Callers : (At(c, "deleted") \/ At(c, "landed")) /\ tx[c].pub = p

\* The index holds exactly the chunks of the recorded document, and nothing of a
\* document that was never recorded, unless a request is between its delete and
\* its commit, or failed there; and a commit mends what a failure tore. So it is
\* whichever requests race and whatever their snapshots said.
IndexFollowsRecord ==
    \A p \in Publics :
      p \notin torn /\ ~ Touching(p) =>
        LET d == docs[minted[p]]
        IN  IndexOf(p) = IF d.pub = p THEN Entries(p, d.content) ELSE {}

\* A query never finds chunks of two revisions of one document, whatever failed
\* and whoever else was ingesting it: "this is what prevents duplicates and stale
\* chunks".
OneRevisionIndexed == \A p \in Publics : \E text \in Texts : IndexOf(p) \subseteq Entries(p, text)

\* The docstring of ingest_document: after a failure "the index is a derived
\* thing, so the next ingestion corrects it".
NextIngestionCorrects ==
    \A n \in Names :
      answered[n] /\ (\A c \in Callers : tx[c] = NoTx) =>
        UNION {IndexOf(p) : p \in {q \in Publics : minted[q] = n}}
          = Entries(docs[n].pub, docs[n].content)
=============================================================================
