--------------------------- MODULE IngestionProofs ---------------------------
(***************************************************************************)
(* Index and record agree, for any names, texts and callers, and however   *)
(* a text is cut into chunks; and how ChunkText cuts one, for any text and *)
(* any widths: no short phrase is lost between two chunks.                 *)
(***************************************************************************)
EXTENDS Ingestion, SequenceTheorems, WellFoundedInduction, TLAPS

-----------------------------------------------------------------------------
(* Documents, whatever ChunkText makes of their texts                        *)

Counts == {0} \cup {Count(text) : text \in Texts}

OpenTx ==
    [stage : {"read", "replaced", "deleted", "landed"}, name : Names, content : Texts,
     added : BOOLEAN, pub : Nat, count : Counts]

DocumentTypeOK ==
    /\ docs \in [Names -> [pub : Nat, content : Texts \cup {<<>>}, count : Counts]]
    /\ minted \in Seq(Names)
    /\ tx \in [Callers -> {NoTx} \cup OpenTx]
    /\ \A v \in index : v.pub \in Publics

Holding(c) == tx[c] # NoTx /\ Holds(c, tx[c].name)

\* The rows of a document are locked by one request at a time.
Exclusive ==
    \A c, d \in Callers : Holding(c) /\ Holding(d) /\ tx[c].name = tx[d].name => c = d

\* A public id belongs to the name it was minted for.
PubsAreNamed ==
    /\ \A n \in Names : docs[n].pub # 0 => docs[n].pub \in Publics /\ minted[docs[n].pub] = n
    /\ \A c \in Callers :
         /\ tx[c] # NoTx /\ tx[c].pub # 0
              => tx[c].pub \in Publics /\ minted[tx[c].pub] = tx[c].name
         /\ tx[c] # NoTx /\ (tx[c].stage # "read" \/ tx[c].added) => tx[c].pub # 0

\* A request works on the recorded document, or on one it has added itself while
\* none is recorded: a document, once recorded, keeps its public id.
OneDocument ==
    \A c \in Callers :
      tx[c] # NoTx /\ tx[c].pub # 0
        => docs[tx[c].name].pub = (IF tx[c].added THEN 0 ELSE tx[c].pub)

\* What the index holds of the document that a request is in the middle of.
HalfDone ==
    \A c \in Callers :
      /\ At(c, "deleted") => IndexOf(tx[c].pub) = {}
      /\ At(c, "landed") => IndexOf(tx[c].pub) = Entries(tx[c].pub, tx[c].content)

IInv ==
    /\ DocumentTypeOK /\ Exclusive /\ PubsAreNamed /\ OneDocument /\ HalfDone
    /\ IndexFollowsRecord /\ OneRevisionIndexed

-----------------------------------------------------------------------------

\* The entries of a document carry its public id (UpsertVectors).
LEMMA EntriesAreOfDocument ==
    ASSUME NEW p, NEW text, NEW v \in Entries(p, text)
    PROVE  v.pub = p
BY DEF Entries

\* A request with a stage is open, and has the fields of an open request.
LEMMA OpenRequests ==
    ASSUME DocumentTypeOK, NEW c \in Callers
    PROVE  /\ tx[c] # NoTx => tx[c] \in OpenTx
           /\ tx[c].stage # "none" <=> tx[c] # NoTx
BY DEF DocumentTypeOK, OpenTx, NoTx

\* Two requests that are past their lock never work on one document.
LEMMA Apart ==
    ASSUME IInv, NEW c \in Callers, NEW d \in Callers, c # d, Holding(c), Holding(d)
    PROVE  tx[c].pub # tx[d].pub
<1>1. tx[c] \in OpenTx /\ tx[d] \in OpenTx /\ tx[c].pub # 0 /\ tx[d].pub # 0
  BY OpenRequests DEF IInv, Holding, Holds, At, PubsAreNamed, OpenTx
<1> QED
  BY <1>1 DEF IInv, PubsAreNamed, Exclusive, Holding

LEMMA InitInv == DocumentInit => IInv
<1> SUFFICES ASSUME DocumentInit PROVE IInv
  OBVIOUS
<1>1. minted = <<>> /\ Len(minted) = 0 /\ Publics = {} /\ index = {} /\ \A c \in Callers : tx[c] = NoTx
  BY DEF DocumentInit, Publics
<1>2. DocumentTypeOK
  BY <1>1 DEF DocumentInit, DocumentTypeOK, NoDocument, Counts
<1>3. Exclusive /\ OneDocument /\ HalfDone
  BY <1>1 DEF Exclusive, OneDocument, HalfDone, Holding, At, NoTx
<1>4. PubsAreNamed
  BY <1>1 DEF PubsAreNamed, DocumentInit, NoDocument
<1>5. IndexFollowsRecord /\ OneRevisionIndexed
  BY <1>1 DEF IndexFollowsRecord, OneRevisionIndexed
<1> QED
  BY <1>2, <1>3, <1>4, <1>5 DEF IInv

-----------------------------------------------------------------------------
(* Each step of a request *)

\* A match of the content hash changes no row and no vector.
LEMMA AnswerInv ==
    ASSUME IInv, NEW c \in Callers, NEW n \in Names, NEW text \in Texts, AnswerUnchanged(c, n, text)
    PROVE  IInv'
<1> USE DEF AnswerUnchanged
<1>1. DocumentTypeOK'
  BY DEF IInv, DocumentTypeOK, Publics
<1>2. Exclusive' /\ OneDocument' /\ HalfDone'
  BY DEF IInv, Exclusive, OneDocument, HalfDone, Holding, Holds, At, IndexOf
<1>3. PubsAreNamed'
  BY DEF IInv, PubsAreNamed, Publics
<1>4. IndexFollowsRecord' /\ OneRevisionIndexed'
  BY DEF IInv, IndexFollowsRecord, OneRevisionIndexed, IndexOf, Publics, Touching, At
<1> QED
  BY <1>1, <1>2, <1>3, <1>4 DEF IInv

\* A new request has read the record, and locks nothing yet.
LEMMA BeginInv ==
    ASSUME IInv, NEW c \in Callers, NEW n \in Names, NEW text \in Texts, BeginIngestion(c, n, text)
    PROVE  IInv'
<1> DEFINE t == [stage |-> "read", name |-> n, content |-> text, added |-> FALSE,
                 pub |-> docs[n].pub, count |-> docs[n].count]
<1>1. /\ tx[c] = NoTx /\ tx' = [tx EXCEPT ![c] = t]
      /\ UNCHANGED <<docs, index, minted, torn, answered, failures>>
  BY DEF BeginIngestion
<1>2. tx \in [Callers -> {NoTx} \cup OpenTx] /\ docs[n] \in [pub : Nat, content : Texts \cup {<<>>}, count : Counts]
  BY DEF IInv, DocumentTypeOK
<1>3. t \in OpenTx /\ tx'[c] = t /\ \A d \in Callers \ {c} : tx'[d] = tx[d]
  BY <1>1, <1>2 DEF OpenTx
<1> HIDE DEF t
<1>4. t.stage = "read" /\ t.name = n /\ t.pub = docs[n].pub /\ t.added = FALSE
  BY DEF t
<1>5. DocumentTypeOK'
  BY <1>1, <1>2, <1>3 DEF IInv, DocumentTypeOK, Publics
<1>6. Exclusive'
  <2>1. ~ Holding(c)' /\ \A d \in Callers \ {c} : Holding(d)' <=> Holding(d)
    BY <1>3, <1>4 DEF Holding, Holds, At
  <2> QED
    BY <1>3, <2>1 DEF IInv, Exclusive
<1>7. PubsAreNamed' /\ OneDocument'
  BY <1>1, <1>3, <1>4 DEF IInv, PubsAreNamed, OneDocument, Publics
<1>8. HalfDone'
  BY <1>1, <1>3, <1>4 DEF IInv, HalfDone, At, IndexOf
<1>9. \A p \in Publics : Touching(p)' <=> Touching(p)
  BY <1>1, <1>3, <1>4 DEF Touching, At, NoTx
<1>10. IndexFollowsRecord' /\ OneRevisionIndexed'
  BY <1>1, <1>9 DEF IInv, IndexFollowsRecord, OneRevisionIndexed, IndexOf, Publics
<1> QED
  BY <1>5, <1>6, <1>7, <1>8, <1>10 DEF IInv

\* A refusal, a failure or a crash ends the request; what it had torn is noted.
LEMMA EndInv ==
    ASSUME IInv, NEW c \in Callers, tx' = [tx EXCEPT ![c] = NoTx],
           UNCHANGED <<docs, index, minted>>,
           torn \subseteq torn',
           At(c, "deleted") \/ At(c, "landed") => tx[c].pub \in torn'
    PROVE  IInv'
<1>1. tx \in [Callers -> {NoTx} \cup OpenTx]
  BY DEF IInv, DocumentTypeOK
<1>2. tx'[c] = NoTx /\ \A d \in Callers \ {c} : tx'[d] = tx[d]
  BY <1>1
<1>3. DocumentTypeOK'
  BY <1>1, <1>2 DEF IInv, DocumentTypeOK, Publics
<1>4. Exclusive'
  <2>1. ~ Holding(c)' /\ \A d \in Callers \ {c} : Holding(d)' <=> Holding(d)
    BY <1>2 DEF Holding, Holds, At
  <2> QED
    BY <1>2, <2>1 DEF IInv, Exclusive
<1>5. PubsAreNamed' /\ OneDocument'
  BY <1>2 DEF IInv, PubsAreNamed, OneDocument, Publics
<1>6. HalfDone'
  BY <1>2 DEF IInv, HalfDone, At, IndexOf, NoTx
<1>7. ASSUME NEW p, p \notin torn', ~ Touching(p)'  PROVE ~ Touching(p)
  BY <1>2, <1>7 DEF Touching, At
<1>8. IndexFollowsRecord' /\ OneRevisionIndexed'
  BY <1>7 DEF IInv, IndexFollowsRecord, OneRevisionIndexed, IndexOf, Publics
<1> QED
  BY <1>3, <1>4, <1>5, <1>6, <1>8 DEF IInv

\* A new document has a public id that nothing in the index carries, and its
\* unique key is locked.
LEMMA AddInv ==
    ASSUME IInv, NEW c \in Callers, AddDocument(c)
    PROVE  IInv'
<1>0. PICK name, new : name = tx[c].name /\ new = Len(minted) + 1
  OBVIOUS
<1>1. tx[c] \in OpenTx /\ tx[c].stage = "read" /\ name \in Names /\ minted \in Seq(Names)
  BY <1>0, OpenRequests DEF IInv, AddDocument, At, DocumentTypeOK, OpenTx
<1>2. /\ minted' = Append(minted, name) /\ docs' = docs /\ index' = index /\ torn' = torn
      /\ docs[name].pub = 0 /\ Free(c, name)
  BY <1>0 DEF AddDocument, Exists
<1>3. /\ Len(minted') = new /\ minted' \in Seq(Names) /\ new \in Nat /\ new \notin Publics
      /\ Publics' = Publics \cup {new} /\ minted'[new] = name
      /\ \A p \in Publics : p \in Nat /\ p # 0 /\ minted'[p] = minted[p]
  BY <1>0, <1>1, <1>2 DEF Publics
<1>4. /\ tx' \in [Callers -> {NoTx} \cup OpenTx] /\ tx'[c] \in OpenTx /\ tx'[c] # NoTx
      /\ tx'[c].stage = "read" /\ tx'[c].name = name
      /\ tx'[c].pub = new /\ tx'[c].added = TRUE
      /\ \A d \in Callers \ {c} : tx'[d] = tx[d]
  <2>1. tx \in [Callers -> {NoTx} \cup OpenTx]
    BY DEF IInv, DocumentTypeOK
  <2>2. tx' = [tx EXCEPT ![c] = [tx[c] EXCEPT !.pub = new, !.added = TRUE]]
    BY <1>0, <1>1, <1>3, <2>1 DEF AddDocument, OpenTx
  <2> QED
    BY <1>0, <1>1, <1>3, <2>1, <2>2 DEF OpenTx, NoTx
<1>5. DocumentTypeOK'
  BY <1>2, <1>3, <1>4 DEF IInv, DocumentTypeOK
<1>6. Exclusive'
  <2>1. \A d \in Callers \ {c} : Holding(d)' <=> Holding(d)
    BY <1>4 DEF Holding, Holds, At
  <2>2. \A d \in Callers \ {c} : Holding(d) => tx[d].name # name
    BY <1>2 DEF Free, Holding
  <2> QED
    BY <1>4, <2>1, <2>2 DEF IInv, Exclusive
<1>7. PubsAreNamed'
  <2>1. \A n \in Names : docs'[n].pub # 0 => docs'[n].pub \in Publics' /\ minted'[docs'[n].pub] = n
    BY <1>2, <1>3 DEF IInv, PubsAreNamed
  <2>2. ASSUME NEW d \in Callers, tx'[d] # NoTx
        PROVE  /\ tx'[d].pub # 0 => tx'[d].pub \in Publics' /\ minted'[tx'[d].pub] = tx'[d].name
               /\ tx'[d].stage # "read" \/ tx'[d].added => tx'[d].pub # 0
    <3>1. CASE d = c
      BY <1>3, <1>4, <3>1 DEF Publics
    <3>2. CASE d # c
      BY <1>3, <1>4, <2>2, <3>2 DEF IInv, PubsAreNamed
    <3> QED
      BY <3>1, <3>2
  <2> QED
    BY <2>1, <2>2 DEF PubsAreNamed
<1>8. OneDocument'
  BY <1>1, <1>2, <1>3, <1>4 DEF IInv, OneDocument
<1>9. HalfDone'
  BY <1>2, <1>4 DEF IInv, HalfDone, At, IndexOf
<1>10. \A p \in Publics : Touching(p)' <=> Touching(p)
  BY <1>1, <1>4 DEF Touching, At
<1>11. IndexOf(new)' = {} /\ \A p \in Publics : IndexOf(p)' = IndexOf(p)
  BY <1>2, <1>3 DEF IInv, DocumentTypeOK, IndexOf
<1>12. IndexFollowsRecord'
  <2>1. ASSUME NEW p \in Publics, p \notin torn', ~ Touching(p)'
        PROVE  IndexOf(p)' = IF docs'[minted'[p]].pub = p THEN Entries(p, docs'[minted'[p]].content) ELSE {}
    <3>1. ~ Touching(p) /\ IndexOf(p)' = IndexOf(p) /\ p \notin torn
      BY <1>2, <1>10, <1>11, <2>1
    <3>2. IndexOf(p) = IF docs[minted[p]].pub = p THEN Entries(p, docs[minted[p]].content) ELSE {}
      BY <3>1 DEF IInv, IndexFollowsRecord
    <3>3. docs'[minted'[p]] = docs[minted[p]]
      BY <1>2, <1>3
    <3> QED
      BY <3>1, <3>2, <3>3
  <2>2. docs'[minted'[new]].pub # new
    BY <1>1, <1>2, <1>3 DEF Publics
  <2> QED
    BY <1>3, <1>11, <2>1, <2>2 DEF IndexFollowsRecord
<1>13. OneRevisionIndexed'
  <2>1. tx[c].content \in Texts
    BY <1>1 DEF OpenTx
  <2> QED
    BY <1>3, <1>11, <2>1 DEF IInv, OneRevisionIndexed
<1> QED
  BY <1>5, <1>6, <1>7, <1>8, <1>9, <1>12, <1>13 DEF IInv

\* A request that moves on to a stage keeps its document; the others keep theirs.
LEMMA MoveOn ==
    ASSUME DocumentTypeOK, NEW c \in Callers, tx[c] # NoTx,
           NEW stage \in {"replaced", "deleted", "landed"}, tx' = [tx EXCEPT ![c].stage = stage]
    PROVE  /\ tx' \in [Callers -> {NoTx} \cup OpenTx] /\ tx'[c] # NoTx
           /\ tx[c] \in OpenTx /\ tx'[c] \in OpenTx
           /\ tx'[c].stage = stage /\ tx'[c].name = tx[c].name /\ tx'[c].pub = tx[c].pub
           /\ tx'[c].added = tx[c].added /\ tx'[c].content = tx[c].content
           /\ \A d \in Callers \ {c} : tx'[d] = tx[d]
BY OpenRequests DEF DocumentTypeOK, OpenTx, NoTx

\* A request that has its locks may move on: nothing changes about who works on
\* what.
LEMMA MoveOnKeeps ==
    ASSUME IInv, NEW c \in Callers, tx[c] # NoTx, tx[c].pub # 0,
           NEW stage \in {"replaced", "deleted", "landed"}, tx' = [tx EXCEPT ![c].stage = stage],
           Free(c, tx[c].name), UNCHANGED <<docs, minted>>
    PROVE  Exclusive' /\ PubsAreNamed' /\ OneDocument'
<1>1. /\ tx'[c].stage = stage /\ tx'[c].name = tx[c].name /\ tx'[c].pub = tx[c].pub
      /\ tx'[c].added = tx[c].added /\ tx'[c] # NoTx
      /\ \A d \in Callers \ {c} : tx'[d] = tx[d]
  BY MoveOn DEF IInv
<1>2. \A d \in Callers \ {c} : Holding(d)' <=> Holding(d)
  BY <1>1 DEF Holding, Holds, At
<1>3. \A d \in Callers \ {c} : Holding(d) => tx[d].name # tx[c].name
  BY DEF Free, Holding
<1>4. Exclusive'
  BY <1>1, <1>2, <1>3 DEF IInv, Exclusive
<1>5. PubsAreNamed' /\ OneDocument'
  BY <1>1 DEF IInv, PubsAreNamed, OneDocument, Publics
<1> QED
  BY <1>4, <1>5

\* A request that holds its rows is alone with them.
LEMMA HolderIsFree ==
    ASSUME IInv, NEW c \in Callers, Holding(c)
    PROVE  Free(c, tx[c].name)
BY DEF IInv, Exclusive, Holding, Free, Holds

\* Deleting the chunk rows waits for whoever holds them; the index stays.
LEMMA ReplaceInv ==
    ASSUME IInv, NEW c \in Callers, ReplaceChunks(c)
    PROVE  IInv'
<1>1. /\ tx[c].stage = "read" /\ tx[c] # NoTx /\ tx[c].pub # 0 /\ Free(c, tx[c].name)
      /\ tx' = [tx EXCEPT ![c].stage = "replaced"]
      /\ UNCHANGED <<docs, index, minted, torn>>
  BY DEF ReplaceChunks, At, NoTx
<1>2. /\ tx' \in [Callers -> {NoTx} \cup OpenTx] /\ tx'[c].stage = "replaced"
      /\ \A d \in Callers \ {c} : tx'[d] = tx[d]
  BY <1>1, MoveOn DEF IInv
<1>3. DocumentTypeOK'
  BY <1>1, <1>2 DEF IInv, DocumentTypeOK, Publics
<1>4. Exclusive' /\ PubsAreNamed' /\ OneDocument'
  BY <1>1, MoveOnKeeps
<1>5. HalfDone'
  BY <1>1, <1>2 DEF IInv, HalfDone, At, IndexOf
<1>6. \A p \in Publics : Touching(p)' <=> Touching(p)
  BY <1>1, <1>2 DEF Touching, At
<1>7. IndexFollowsRecord' /\ OneRevisionIndexed'
  BY <1>1, <1>6 DEF IInv, IndexFollowsRecord, OneRevisionIndexed, IndexOf, Publics
<1> QED
  BY <1>3, <1>4, <1>5, <1>7 DEF IInv

\* The delete empties one document's entries and no other's.
LEMMA DeleteInv ==
    ASSUME IInv, NEW c \in Callers, DeleteVectors(c)
    PROVE  IInv'
<1>0. PICK p : p = tx[c].pub
  OBVIOUS
<1>1. /\ tx[c].stage = "replaced" /\ tx[c] # NoTx /\ Holding(c)
      /\ tx' = [tx EXCEPT ![c].stage = "deleted"]
      /\ index' = index \ IndexOf(p)
      /\ UNCHANGED <<docs, minted, torn>>
  BY <1>0, OpenRequests DEF IInv, DeleteVectors, At, NoTx, Holding, Holds, Remaining
<1>2. p # 0
  BY <1>0, <1>1 DEF IInv, PubsAreNamed
<1>3. /\ tx' \in [Callers -> {NoTx} \cup OpenTx] /\ tx'[c].stage = "deleted" /\ tx'[c].pub = p
      /\ \A d \in Callers \ {c} : tx'[d] = tx[d]
  BY <1>0, <1>1, MoveOn DEF IInv
<1>4. IndexOf(p)' = {} /\ (\A q : q # p => IndexOf(q)' = IndexOf(q))
  BY <1>1, <1>3 DEF IndexOf
<1>5. \A q : IndexOf(q)' \subseteq IndexOf(q)
  BY <1>1 DEF IndexOf
<1>6. DocumentTypeOK'
  BY <1>1, <1>3 DEF IInv, DocumentTypeOK, Publics
<1>7. Exclusive' /\ PubsAreNamed' /\ OneDocument'
  BY <1>0, <1>1, <1>2, HolderIsFree, MoveOnKeeps
<1>8. HalfDone'
  <2>1. ASSUME NEW d \in Callers, d # c, tx[d].stage = "landed"  PROVE tx[d].pub # p
    <3>1. Holding(d)
      BY <2>1, OpenRequests DEF IInv, Holding, Holds, At
    <3> QED
      BY <1>0, <1>1, <2>1, <3>1, Apart
  <2>2. ASSUME NEW d \in Callers, NEW q, q = tx'[d].pub
        PROVE  /\ tx'[d].stage = "deleted" => IndexOf(q)' = {}
               /\ tx'[d].stage = "landed" => IndexOf(q)' = Entries(q, tx'[d].content)
    <3>1. CASE d = c
      BY <1>3, <1>4, <2>2, <3>1
    <3>2. CASE d # c
      BY <1>3, <1>4, <1>5, <2>1, <2>2, <3>2 DEF IInv, HalfDone, At
    <3> QED
      BY <3>1, <3>2
  <2> QED
    BY <2>2 DEF HalfDone, At, IndexOf
<1>9. \A q : q # p /\ ~ Touching(q)' => ~ Touching(q)
  BY <1>0, <1>1, <1>3 DEF Touching, At
<1>10. Touching(p)'
  BY <1>3 DEF Touching, At
<1>11. IndexFollowsRecord'
  BY <1>1, <1>4, <1>9, <1>10 DEF IInv, IndexFollowsRecord, Publics
<1>12. OneRevisionIndexed'
  BY <1>1, <1>5 DEF IInv, OneRevisionIndexed, Publics
<1> QED
  BY <1>6, <1>7, <1>8, <1>11, <1>12 DEF IInv

\* What is upserted lands beside the other documents' entries, in the place that
\* the delete has emptied.
LEMMA UpsertInv ==
    ASSUME IInv, NEW c \in Callers, UpsertVectors(c)
    PROVE  IInv'
<1>0. PICK p, text : p = tx[c].pub /\ text = tx[c].content
  OBVIOUS
<1>1. /\ tx[c].stage = "deleted" /\ tx[c] # NoTx /\ Holding(c)
      /\ tx' = [tx EXCEPT ![c].stage = "landed"]
      /\ UNCHANGED <<docs, minted, torn>>
  BY OpenRequests DEF IInv, UpsertVectors, At, NoTx, Holding, Holds
<1>2. p # 0 /\ p \in Publics /\ IndexOf(p) = {}
  BY <1>0, <1>1 DEF IInv, PubsAreNamed, HalfDone, At
<1>3. /\ tx' \in [Callers -> {NoTx} \cup OpenTx] /\ tx'[c].stage = "landed"
      /\ tx'[c].pub = p /\ tx'[c].content = text /\ text \in Texts
      /\ \A d \in Callers \ {c} : tx'[d] = tx[d]
  BY <1>0, <1>1, MoveOn DEF IInv, OpenTx
<1>4. \A v \in Entries(p, text) : v.pub = p
  BY EntriesAreOfDocument
<1>5. index' = index \cup Entries(p, text)
  <2>1. \A v \in index : v.pub # p
    BY <1>2 DEF IndexOf
  <2>2. index' = {v \in index : \A w \in Entries(p, text) : w.pub # v.pub \/ w.ordinal # v.ordinal}
                   \cup Entries(p, text)
    BY <1>0 DEF UpsertVectors
  <2> QED
    BY <1>4, <2>1, <2>2
<1>6. IndexOf(p)' = Entries(p, text) /\ (\A q : q # p => IndexOf(q)' = IndexOf(q))
  BY <1>2, <1>4, <1>5 DEF IndexOf
<1>7. DocumentTypeOK'
  BY <1>1, <1>2, <1>3, <1>4, <1>5 DEF IInv, DocumentTypeOK, Publics
<1>8. Exclusive' /\ PubsAreNamed' /\ OneDocument'
  BY <1>0, <1>1, <1>2, HolderIsFree, MoveOnKeeps
<1>9. HalfDone'
  <2>1. ASSUME NEW d \in Callers, d # c, tx[d].stage \in {"deleted", "landed"}
        PROVE  tx[d].pub # p
    <3>1. Holding(d)
      BY <2>1, OpenRequests DEF IInv, Holding, Holds, At
    <3> QED
      BY <1>0, <1>1, <2>1, <3>1, Apart
  <2>2. ASSUME NEW d \in Callers, NEW q, q = tx'[d].pub
        PROVE  /\ tx'[d].stage = "deleted" => IndexOf(q)' = {}
               /\ tx'[d].stage = "landed" => IndexOf(q)' = Entries(q, tx'[d].content)
    <3>1. CASE d = c
      BY <1>3, <1>6, <2>2, <3>1
    <3>2. CASE d # c
      BY <1>3, <1>6, <2>1, <2>2, <3>2 DEF IInv, HalfDone, At
    <3> QED
      BY <3>1, <3>2
  <2> QED
    BY <2>2 DEF HalfDone, At, IndexOf
<1>10. \A q : Touching(q)' <=> Touching(q)
  BY <1>0, <1>1, <1>3 DEF Touching, At
<1>11. Touching(p)'
  BY <1>3 DEF Touching, At
<1>12. IndexFollowsRecord'
  BY <1>1, <1>6, <1>10, <1>11 DEF IInv, IndexFollowsRecord, Publics
<1>13. OneRevisionIndexed'
  BY <1>1, <1>3, <1>6 DEF IInv, OneRevisionIndexed, Publics
<1> QED
  BY <1>7, <1>8, <1>9, <1>12, <1>13 DEF IInv

\* A commit records what the index already holds; no other document of the name
\* has entries to lose, for the name has kept its public id.
LEMMA CommitInv ==
    ASSUME IInv, NEW c \in Callers, CommitIngestion(c)
    PROVE  IInv'
<1>0. PICK p, n, text : p = tx[c].pub /\ n = tx[c].name /\ text = tx[c].content
  OBVIOUS
<1>1. /\ tx[c].stage = "landed" /\ tx[c] # NoTx /\ tx[c] \in OpenTx /\ Holding(c)
      /\ n \in Names /\ text \in Texts /\ p \in Nat
  BY <1>0, OpenRequests DEF IInv, CommitIngestion, At, NoTx, Holding, Holds, OpenTx
<1>2. PICK count \in Counts : docs' = [docs EXCEPT ![n] = [pub |-> p, content |-> text, count |-> count]]
  <2>1. Count(text) \in Counts /\ docs[n].count \in Counts
    BY <1>1 DEF IInv, DocumentTypeOK, Counts
  <2> QED
    BY <1>0, <2>1 DEF CommitIngestion
<1>3. tx' = [tx EXCEPT ![c] = NoTx] /\ torn' = torn \ {p} /\ UNCHANGED <<index, minted>>
  BY <1>0 DEF CommitIngestion
<1>4. p # 0 /\ p \in Publics /\ minted[p] = n /\ docs[n].pub \in {0, p}
  BY <1>0, <1>1 DEF IInv, PubsAreNamed, OneDocument
<1>5. /\ docs' \in [Names -> [pub : Nat, content : Texts \cup {<<>>}, count : Counts]]
      /\ docs'[n].pub = p /\ docs'[n].content = text
      /\ \A m \in Names \ {n} : docs'[m] = docs[m]
  BY <1>1, <1>2 DEF IInv, DocumentTypeOK
<1>6. /\ tx' \in [Callers -> {NoTx} \cup OpenTx] /\ tx'[c] = NoTx
      /\ \A d \in Callers \ {c} : tx'[d] = tx[d]
  BY <1>3 DEF IInv, DocumentTypeOK
<1>7. DocumentTypeOK'
  BY <1>3, <1>5, <1>6 DEF IInv, DocumentTypeOK, Publics
<1>8. Exclusive'
  <2>1. ~ Holding(c)' /\ \A d \in Callers \ {c} : Holding(d)' <=> Holding(d)
    BY <1>6 DEF Holding, Holds, At
  <2> QED
    BY <1>6, <2>1 DEF IInv, Exclusive
<1>9. PubsAreNamed'
  <2>1. \A m \in Names : docs'[m].pub # 0 => docs'[m].pub \in Publics /\ minted[docs'[m].pub] = m
    BY <1>4, <1>5 DEF IInv, PubsAreNamed
  <2> QED
    BY <1>3, <1>6, <2>1 DEF IInv, PubsAreNamed, Publics
<1>10. OneDocument'
  <2> SUFFICES ASSUME NEW d \in Callers, tx'[d] # NoTx, tx'[d].pub # 0
               PROVE  docs'[tx'[d].name].pub = (IF tx'[d].added THEN 0 ELSE tx'[d].pub)
    BY DEF OneDocument
  <2>1. /\ d # c /\ tx'[d] = tx[d] /\ tx[d] # NoTx /\ tx[d] \in OpenTx
        /\ docs[tx[d].name].pub = (IF tx[d].added THEN 0 ELSE tx[d].pub)
    BY <1>6, OpenRequests DEF IInv, OneDocument
  <2>2. CASE tx[d].name = n
    <3>1. ~ tx[d].added
      BY <1>0, <1>1, <2>1, <2>2 DEF IInv, Exclusive, Holding, Holds
    <3> QED
      BY <1>4, <1>5, <2>1, <2>2, <3>1
  <2>3. CASE tx[d].name # n
    BY <1>5, <2>1, <2>3 DEF OpenTx
  <2> QED
    BY <2>2, <2>3
<1>11. HalfDone'
  BY <1>3, <1>6 DEF IInv, HalfDone, At, IndexOf, NoTx
<1>12. \A q : IndexOf(q)' = IndexOf(q)
  BY <1>3 DEF IndexOf
<1>13. IndexFollowsRecord'
  <2> SUFFICES ASSUME NEW q \in Publics, q \notin torn', ~ Touching(q)'
               PROVE  IndexOf(q) = IF docs'[minted[q]].pub = q
                                   THEN Entries(q, docs'[minted[q]].content) ELSE {}
    BY <1>3, <1>12 DEF IndexFollowsRecord, Publics
  <2>1. CASE q = p
    BY <1>0, <1>1, <1>4, <1>5, <2>1 DEF IInv, HalfDone, At
  <2>2. CASE q # p
    <3>1. q \notin torn /\ ~ Touching(q)
      BY <1>0, <1>3, <1>6, <2>2 DEF Touching, At
    <3>2. IndexOf(q) = IF docs[minted[q]].pub = q THEN Entries(q, docs[minted[q]].content) ELSE {}
      BY <3>1 DEF IInv, IndexFollowsRecord
    <3>3. minted[q] \in Names /\ q # 0
      BY DEF IInv, DocumentTypeOK, Publics
    <3> QED
      BY <1>4, <1>5, <2>2, <3>2, <3>3
  <2> QED
    BY <2>1, <2>2
<1>14. OneRevisionIndexed'
  BY <1>3, <1>12 DEF IInv, OneRevisionIndexed, Publics
<1> QED
  BY <1>7, <1>8, <1>9, <1>10, <1>11, <1>13, <1>14 DEF IInv

-----------------------------------------------------------------------------

\* Every step of every request keeps the invariant.
LEMMA NextInv == IInv /\ [DocumentNext]_documentVars => IInv'
<1> SUFFICES ASSUME IInv, [DocumentNext]_documentVars PROVE IInv'
  OBVIOUS
<1>1. CASE UNCHANGED documentVars
  BY <1>1 DEF documentVars, IInv, DocumentTypeOK, Exclusive, PubsAreNamed, OneDocument, HalfDone,
     IndexFollowsRecord, OneRevisionIndexed, Holding, Holds, At, Touching, Publics, IndexOf
<1>2. ASSUME NEW c \in Callers, IngestionStep(c) PROVE IInv'
  <2>1. CASE \E n \in Names, text \in Texts : AnswerUnchanged(c, n, text) \/ BeginIngestion(c, n, text)
    BY <2>1, AnswerInv, BeginInv
  <2>2. CASE AddDocument(c)
    BY <2>2, AddInv
  <2>3. CASE CollideOnAdd(c)
    BY <2>3, EndInv DEF CollideOnAdd, At
  <2>4. CASE ReplaceChunks(c)
    BY <2>4, ReplaceInv
  <2>5. CASE DeleteVectors(c)
    BY <2>5, DeleteInv
  <2>6. CASE UpsertVectors(c)
    BY <2>6, UpsertInv
  <2>7. CASE CommitIngestion(c)
    BY <2>7, CommitInv
  <2>8. CASE FailIngestion(c)
    BY <2>8, EndInv DEF FailIngestion
  <2> QED
    BY <1>2, <2>1, <2>2, <2>3, <2>4, <2>5, <2>6, <2>7, <2>8 DEF IngestionStep
<1> QED
  BY <1>1, <1>2 DEF DocumentNext

\* The strengthened invariant holds of every execution of the ingestions.
THEOREM IngestionInvariant == DocumentSpec => []IInv
<1>1. DocumentInit => IInv
  BY InitInv
<1>2. IInv /\ [DocumentNext]_documentVars => IInv'
  BY NextInv
<1> QED
  BY <1>1, <1>2, PTL DEF DocumentSpec

\* Whichever requests for whichever documents race, fail or crash, the index
\* holds exactly the chunks of the recorded document wherever no request is in
\* the middle of it or failed there (ingest_document's order of writes).
THEOREM IndexFollowsRecordAlways == DocumentSpec => []IndexFollowsRecord
<1>1. IInv => IndexFollowsRecord
  BY DEF IInv
<1> QED
  BY <1>1, IngestionInvariant, PTL

\* And it never holds chunks of two revisions of one document, not even after a
\* failure: the delete of every entry comes before the upsert.
THEOREM OneRevisionAlways == DocumentSpec => []OneRevisionIndexed
<1>1. IInv => OneRevisionIndexed
  BY DEF IInv
<1> QED
  BY <1>1, IngestionInvariant, PTL

-----------------------------------------------------------------------------
(* What a recursion defines                                                  *)

LEMMA FirstOf ==
    ASSUME NEW T, T \subseteq Nat, T # {}
    PROVE  \E n \in T : \A k \in T : n <= k
<1>1. PICK n \in T : \A k \in T : ~ (<<k, n>> \in OpToRel(<, Nat))
  BY NatLessThanWellFounded, WFMin
<1>2. \A k \in T : ~ (k < n)
  BY <1>1 DEF OpToRel
<1>3. \A k \in T : k \in Nat /\ n \in Nat
  OBVIOUS
<1> QED  BY <1>2, <1>3

LEMMA CutIs ==
    ASSUME NEW T, NEW t \in Seq(T), NEW i \in 1 .. Len(t), NEW j \in 1 .. Len(t), i <= j
    PROVE  /\ SubSeq(t, i, j) \in Seq(T) /\ Len(SubSeq(t, i, j)) = j - i + 1
           /\ \A n \in 1 .. Len(SubSeq(t, i, j)) : SubSeq(t, i, j)[n] = t[i + n - 1]
  OBVIOUS

\* A recursion over S with values in V whose measure m falls until it stops.
IsRecursion(S, V, Stop, m, base, step, next) ==
    /\ V # {} /\ m \in [S -> Nat] /\ base \in [S -> V]
    /\ step \in [S \X V -> V] /\ next \in [S -> S]
    /\ \A x \in S \ Stop : m[next[x]] < m[x]

\* f obeys a recursion at x: a base where it stops, elsewhere a step on what f is at
\* the next place.
ObeysAt(f, x, Stop, base, step, next) ==
    f[x] = IF x \in Stop THEN base[x] ELSE step[<<x, f[next[x]]>>]

Obeys(f, S, Stop, base, step, next) ==
    \A x \in S : ObeysAt(f, x, Stop, base, step, next)

\* It obeys where the measure is below k.
ObeysBelow(f, k, S, m, Stop, base, step, next) ==
    \A x \in S : m[x] < k => ObeysAt(f, x, Stop, base, step, next)

LEMMA ObeysOneMore ==
    ASSUME NEW S, NEW V, NEW Stop, NEW m, NEW base, NEW step, NEW next,
           IsRecursion(S, V, Stop, m, base, step, next),
           NEW k \in Nat, NEW f \in [S -> V],
           ObeysBelow(f, k, S, m, Stop, base, step, next)
    PROVE  \E g \in [S -> V] : ObeysBelow(g, k + 1, S, m, Stop, base, step, next)
<1>0. /\ V # {} /\ m \in [S -> Nat] /\ base \in [S -> V]
      /\ step \in [S \X V -> V] /\ next \in [S -> S]
      /\ \A x \in S \ Stop : m[next[x]] < m[x]
  BY DEF IsRecursion
<1> DEFINE g == [x \in S |-> IF m[x] < k THEN f[x]
                             ELSE IF x \in Stop THEN base[x] ELSE step[<<x, f[next[x]]>>]]
<1>1. g \in [S -> V]
  BY <1>0
<1>2. ASSUME NEW x \in S, m[x] < k + 1  PROVE ObeysAt(g, x, Stop, base, step, next)
  <2>1. x \notin Stop => m[next[x]] < k
    BY <1>0, <1>2
  <2>2. x \notin Stop => g[next[x]] = f[next[x]]
    BY <1>0, <2>1
  <2>3. CASE m[x] < k
    <3>1. ObeysAt(f, x, Stop, base, step, next) /\ g[x] = f[x]
      BY <1>0, <2>3 DEF ObeysBelow
    <3> QED  BY <2>2, <3>1 DEF ObeysAt
  <2>4. CASE ~ m[x] < k
    <3>1. g[x] = IF x \in Stop THEN base[x] ELSE step[<<x, f[next[x]]>>]
      BY <1>0, <2>4
    <3> QED  BY <2>2, <3>1 DEF ObeysAt
  <2> QED  BY <2>3, <2>4
<1> QED  BY <1>1, <1>2 DEF ObeysBelow

LEMMA ObeysUpTo ==
    ASSUME NEW S, NEW V, NEW Stop, NEW m, NEW base, NEW step, NEW next,
           IsRecursion(S, V, Stop, m, base, step, next),
           NEW k \in Nat
    PROVE  \E f \in [S -> V] : ObeysBelow(f, k, S, m, Stop, base, step, next)
<1>0. /\ V # {} /\ m \in [S -> Nat] /\ base \in [S -> V]
      /\ step \in [S \X V -> V] /\ next \in [S -> S]
      /\ \A x \in S \ Stop : m[next[x]] < m[x]
  BY DEF IsRecursion
<1> DEFINE P(j) == \E f \in [S -> V] : ObeysBelow(f, j, S, m, Stop, base, step, next)
           T == {j \in Nat : ~ P(j)}
<1>1. SUFFICES ASSUME T # {}  PROVE FALSE
  OBVIOUS
<1>2. PICK j \in T : \A i \in T : j <= i
  BY <1>1, FirstOf
<1>3. j \in Nat /\ ~ P(j) /\ \A i \in Nat : i < j => P(i)
  BY <1>2
<1>4. CASE j = 0
  <2>1. ObeysBelow(base, 0, S, m, Stop, base, step, next)
    BY <1>0 DEF ObeysBelow
  <2> QED  BY <1>0, <1>3, <1>4, <2>1
<1>5. CASE j # 0
  <2>1. j - 1 \in Nat /\ j - 1 < j /\ (j - 1) + 1 = j
    BY <1>3, <1>5
  <2>2. P(j - 1)
    BY <1>3, <2>1
  <2> HIDE DEF P, T
  <2> DEFINE i == j - 1
  <2>3. i \in Nat /\ P(i) /\ i + 1 = j
    BY <2>1, <2>2
  <2> HIDE DEF i
  <2>4. P(i + 1)
    BY <2>3, ObeysOneMore DEF P
  <2> QED  BY <1>3, <2>3, <2>4
<1> QED  BY <1>4, <1>5

LEMMA ObeysAlike ==
    ASSUME NEW S, NEW V, NEW Stop, NEW m, NEW base, NEW step, NEW next,
           IsRecursion(S, V, Stop, m, base, step, next),
           NEW k \in Nat, NEW f, ObeysBelow(f, k, S, m, Stop, base, step, next),
           NEW l \in Nat, NEW g, ObeysBelow(g, l, S, m, Stop, base, step, next),
           NEW x \in S, m[x] < k, m[x] < l
    PROVE  f[x] = g[x]
<1>0. /\ V # {} /\ m \in [S -> Nat] /\ base \in [S -> V]
      /\ step \in [S \X V -> V] /\ next \in [S -> S]
      /\ \A z \in S \ Stop : m[next[z]] < m[z]
  BY DEF IsRecursion
<1> DEFINE T == {n \in Nat : n < k /\ n < l /\ \E y \in S : m[y] = n /\ f[y] # g[y]}
<1>1. SUFFICES ASSUME T # {}  PROVE FALSE
  <2>1. ASSUME f[x] # g[x]  PROVE m[x] \in T
    BY <1>0, <2>1
  <2> QED  BY <1>1, <2>1
<1>2. PICK n \in T : \A i \in T : n <= i
  BY <1>1, FirstOf
<1>3. PICK y \in S : m[y] = n /\ f[y] # g[y]
  BY <1>2
<1>4. n \in Nat /\ n < k /\ n < l
  BY <1>2
<1>5. ObeysAt(f, y, Stop, base, step, next) /\ ObeysAt(g, y, Stop, base, step, next)
  BY <1>3, <1>4 DEF ObeysBelow
<1>6. y \notin Stop
  BY <1>3, <1>5 DEF ObeysAt
<1>7. f[next[y]] # g[next[y]]
  BY <1>3, <1>5, <1>6 DEF ObeysAt
<1>8. next[y] \in S /\ m[next[y]] \in Nat /\ m[next[y]] < n
  BY <1>0, <1>3, <1>6
<1>9. m[next[y]] \in T
  BY <1>4, <1>7, <1>8
<1> QED  BY <1>2, <1>8, <1>9

\* A recursion whose measure falls has a function that obeys it.
LEMMA RecursionIsDefined ==
    ASSUME NEW S, NEW V, NEW Stop, NEW m, NEW base, NEW step, NEW next,
           IsRecursion(S, V, Stop, m, base, step, next)
    PROVE  \E f \in [S -> V] : Obeys(f, S, Stop, base, step, next)
<1>0. /\ V # {} /\ m \in [S -> Nat] /\ base \in [S -> V]
      /\ step \in [S \X V -> V] /\ next \in [S -> S]
      /\ \A x \in S \ Stop : m[next[x]] < m[x]
  BY DEF IsRecursion
<1> DEFINE below(k) == CHOOSE f \in [S -> V] : ObeysBelow(f, k, S, m, Stop, base, step, next)
           F == [x \in S |-> below(m[x] + 1)[x]]
<1>1. ASSUME NEW k \in Nat
      PROVE  below(k) \in [S -> V] /\ ObeysBelow(below(k), k, S, m, Stop, base, step, next)
  BY ObeysUpTo
<1> HIDE DEF below
<1>2. F \in [S -> V]
  BY <1>0, <1>1
<1>3. ASSUME NEW x \in S  PROVE ObeysAt(F, x, Stop, base, step, next)
  <2> DEFINE k == m[x] + 1
  <2>1. k \in Nat /\ m[x] \in Nat /\ m[x] < k
    BY <1>0
  <2>2. ObeysAt(below(k), x, Stop, base, step, next) /\ F[x] = below(k)[x]
    BY <1>1, <2>1 DEF ObeysBelow
  <2>3. CASE x \in Stop
    BY <2>2, <2>3 DEF ObeysAt
  <2>4. CASE x \notin Stop
    <3> DEFINE y == next[x]
               l == m[y] + 1
    <3>1. y \in S /\ l \in Nat /\ m[y] < l /\ m[y] < k
      BY <1>0, <2>1, <2>4
    <3>2. F[y] = below(l)[y]
      BY <3>1
    <3> HIDE DEF k, l, y
    <3>3. below(k)[y] = below(l)[y]
      <4> DEFINE f == below(k)
                 g == below(l)
      <4>1. /\ ObeysBelow(f, k, S, m, Stop, base, step, next)
            /\ ObeysBelow(g, l, S, m, Stop, base, step, next)
        BY <1>1, <2>1, <3>1
      <4> HIDE DEF f, g, F
      <4>2. f[y] = g[y]
        BY <2>1, <3>1, <4>1, ObeysAlike
      <4> QED  BY <4>2 DEF f, g
    <3> QED  BY <2>2, <2>4, <3>2, <3>3 DEF ObeysAt, y
  <2> QED  BY <2>3, <2>4
<1> QED  BY <1>2, <1>3 DEF Obeys

-----------------------------------------------------------------------------
(* What is cut out of a text, and what strip leaves of it *)

\* A phrase at the places i to j of a text, that begins and ends with a letter.
Lies(phrase, t, i, j) ==
    /\ i \in 1 .. Len(t) /\ j \in 1 .. Len(t) /\ i <= j
    /\ phrase = SubSeq(t, i, j)
    /\ t[i] \notin White /\ t[j] \notin White

LEMMA CutKeeps ==
    ASSUME NEW T, NEW t \in Seq(T), NEW phrase, NEW i, NEW j, Lies(phrase, t, i, j),
           NEW lo \in 1 .. i, NEW hi \in j .. Len(t)
    PROVE  /\ SubSeq(t, lo, hi) \in Seq(T)
           /\ Lies(phrase, SubSeq(t, lo, hi), i - lo + 1, j - lo + 1)
<1> DEFINE u == SubSeq(t, lo, hi)
           k == i - lo + 1
           l == j - lo + 1
<1>1. /\ i \in 1 .. Len(t) /\ j \in 1 .. Len(t) /\ i <= j /\ phrase = SubSeq(t, i, j)
      /\ t[i] \notin White /\ t[j] \notin White
  BY DEF Lies
<1>2. /\ lo \in 1 .. Len(t) /\ hi \in 1 .. Len(t) /\ lo <= hi
  BY <1>1
<1>3. u \in Seq(T) /\ Len(u) = hi - lo + 1 /\ \A n \in 1 .. Len(u) : u[n] = t[lo + n - 1]
  BY <1>2
<1>4. k \in 1 .. Len(u) /\ l \in 1 .. Len(u) /\ k <= l
  BY <1>1, <1>2, <1>3
<1>5. u[k] = t[i] /\ u[l] = t[j]
  BY <1>1, <1>2, <1>3, <1>4
<1>6. phrase = SubSeq(u, k, l)
  <2> HIDE DEF u
  <2> DEFINE v == SubSeq(u, k, l)
  <2>1. phrase \in Seq(T) /\ Len(phrase) = j - i + 1 /\ \A n \in 1 .. Len(phrase) : phrase[n] = t[i + n - 1]
    BY <1>1
  <2>2. v \in Seq(T) /\ Len(v) = l - k + 1 /\ \A n \in 1 .. Len(v) : v[n] = u[k + n - 1]
    <3> HIDE DEF k, l
    <3>1. u \in Seq(T)
      BY <1>3
    <3> QED  BY <1>4, <3>1, CutIs
  <2> HIDE DEF v
  <2>3. Len(v) = Len(phrase)
    BY <1>1, <1>2, <2>1, <2>2
  <2>4. ASSUME NEW n \in 1 .. Len(phrase)  PROVE v[n] = phrase[n]
    <3>1. k + n - 1 \in 1 .. Len(u) /\ lo + (k + n - 1) - 1 = i + n - 1
      BY <1>1, <1>2, <1>3, <2>1
    <3> QED  BY <1>3, <2>1, <2>2, <2>3, <3>1
  <2>5. v = phrase
    <3> HIDE DEF k, l
    <3> QED  BY <2>1, <2>2, <2>3, <2>4
  <2> QED  BY <2>5 DEF v
<1> HIDE DEF u, k, l
<1>7. Lies(phrase, u, k, l)
  BY <1>1, <1>4, <1>5, <1>6 DEF Lies
<1> QED  BY <1>3, <1>7 DEF u, k, l

LEMMA StripKeeps ==
    ASSUME NEW T, NEW t \in Seq(T), NEW phrase, NEW i, NEW j, Lies(phrase, t, i, j)
    PROVE  /\ Strip(t) \in Seq(T) /\ Strip(t) # <<>>
           /\ \E k, l \in 1 .. Len(Strip(t)) : Lies(phrase, Strip(t), k, l) /\ l - k = j - i
<1> DEFINE kept == {n \in DOMAIN t : t[n] \notin White}
           lo == CHOOSE n \in kept : \A m \in kept : n <= m
           hi == CHOOSE n \in kept : \A m \in kept : m <= n
<1>1. i \in kept /\ j \in kept /\ kept \subseteq Nat /\ kept \subseteq 1 .. Len(t) /\ i <= j
  BY DEF Lies
<1>2. Strip(t) = SubSeq(t, lo, hi)
  BY <1>1 DEF Strip
<1>3. lo \in kept /\ \A m \in kept : lo <= m
  <2>1. \E n \in kept : \A m \in kept : n <= m
    BY <1>1, FirstOf
  <2> QED  BY <2>1
<1>4. hi \in kept /\ \A m \in kept : m <= hi
  <2> DEFINE gaps == {Len(t) - n : n \in kept}
  <2>1. gaps \subseteq Nat /\ gaps # {}
    BY <1>1
  <2>2. PICK g \in gaps : \A h \in gaps : g <= h
    <3> HIDE DEF gaps
    <3> QED  BY <2>1, FirstOf
  <2>3. PICK n \in kept : g = Len(t) - n
    BY <2>2
  <2>4. \A m \in kept : m <= n
    <3> TAKE m \in kept
    <3>1. g <= Len(t) - m
      BY <2>2
    <3>2. m \in Nat /\ n \in Nat
      BY <1>1
    <3> QED  BY <2>3, <3>1, <3>2
  <2> QED  BY <2>4
<1> HIDE DEF kept, lo, hi
<1>5. lo \in 1 .. i /\ hi \in j .. Len(t)
  BY <1>1, <1>3, <1>4
<1>6. /\ Strip(t) \in Seq(T)
      /\ Lies(phrase, Strip(t), i - lo + 1, j - lo + 1)
  BY <1>2, <1>5, CutKeeps
<1>7. (j - lo + 1) - (i - lo + 1) = j - i
  BY <1>1, <1>5
<1>8. Strip(t) # <<>>
  BY <1>6 DEF Lies
<1>9. i - lo + 1 \in 1 .. Len(Strip(t)) /\ j - lo + 1 \in 1 .. Len(Strip(t))
  BY <1>6 DEF Lies
<1> QED  BY <1>6, <1>7, <1>8, <1>9

LEMMA LiesWithin ==
    ASSUME NEW T, NEW chunk, chunk.text \in Seq(T), NEW phrase, NEW i, NEW j,
           Lies(phrase, chunk.text, i, j)
    PROVE  Within(phrase, chunk)
<1> DEFINE t == chunk.text
<1>1. t \in Seq(T) /\ Lies(phrase, t, i, j)
  OBVIOUS
<1> HIDE DEF t
<1>2. i \in 1 .. Len(t) /\ j \in 1 .. Len(t) /\ i <= j /\ phrase = SubSeq(t, i, j)
  BY <1>1 DEF Lies
<1>3. Len(phrase) = j - i + 1
  BY <1>1, <1>2
<1>4. i - 1 \in 0 .. Len(t) - Len(phrase) /\ (i - 1) + 1 = i /\ (i - 1) + Len(phrase) = j
  BY <1>1, <1>2, <1>3
<1>5. Slice(t, i - 1, (i - 1) + Len(phrase)) = phrase
  BY <1>2, <1>4 DEF Slice
<1> QED  BY <1>4, <1>5 DEF Within, t

-----------------------------------------------------------------------------
(* The windows: where they end, where the next begins, and what none misses *)

LEMMA BoundaryIs ==
    ASSUME NEW T, NEW s \in Seq(T), NEW x \in 0 .. Len(s)
    PROVE  /\ Boundary(s, x) \in x .. Len(s)
           /\ Boundary(s, x) # Len(s) =>
                /\ NextStart(x, Boundary(s, x)) = Boundary(s, x) - ChunkOverlap
                /\ NextStart(x, Boundary(s, x)) \in 0 .. Len(s)
                /\ x < NextStart(x, Boundary(s, x))
<1> DEFINE hard == Hard(s, x)
           snaps == Snaps(s, x)
           end == Boundary(s, x)
<1>1. /\ ChunkSize \in Nat /\ ChunkOverlap \in Nat /\ SnapWindow \in Nat
      /\ ChunkOverlap + SnapWindow < ChunkSize /\ Len(s) \in Nat /\ x \in Nat /\ x <= Len(s)
  BY ChunkingAssumption
<1>2. hard \in x .. Len(s) /\ (hard # Len(s) => hard = x + ChunkSize)
  BY <1>1 DEF Hard
<1>3. snaps \subseteq (hard - SnapWindow) .. (hard - 1)
  BY DEF Snaps
<1>4. snaps # {} => \E i \in snaps : \A j \in snaps : j <= i
  <2> SUFFICES ASSUME snaps # {}  PROVE \E i \in snaps : \A j \in snaps : j <= i
    OBVIOUS
  <2> DEFINE gaps == {hard - i : i \in snaps}
  <2> HIDE DEF hard, snaps
  <2>1. gaps \subseteq Nat /\ gaps # {}
    <3>1. hard \in Nat
      BY <1>1, <1>2
    <3>2. ASSUME NEW i \in snaps  PROVE hard - i \in Nat
      <4>1. i \in (hard - SnapWindow) .. (hard - 1)
        BY <1>3
      <4> QED  BY <1>1, <3>1, <4>1
    <3> QED  BY <3>2
  <2>2. PICK g \in gaps : \A h \in gaps : g <= h
    <3> HIDE DEF gaps
    <3> QED  BY <2>1, FirstOf
  <2>3. PICK i \in snaps : g = hard - i
    BY <2>2
  <2>4. \A j \in snaps : j <= i
    <3> TAKE j \in snaps
    <3>1. g <= hard - j
      BY <2>2
    <3>2. i \in Int /\ j \in Int /\ hard \in Int
      BY <1>1, <1>2, <1>3
    <3> QED  BY <2>3, <3>1, <3>2
  <2> QED  BY <2>4
<1>5. end = hard \/ (end \in snaps /\ hard # Len(s))
  <2>1. CASE hard = Len(s) \/ snaps = {}
    BY <2>1 DEF Boundary
  <2>2. CASE ~ (hard = Len(s) \/ snaps = {})
    <3>1. end = CHOOSE i \in snaps : \A j \in snaps : j <= i
      BY <2>2 DEF Boundary
    <3> QED  BY <1>4, <2>2, <3>1
  <2> QED  BY <2>1, <2>2
<1>6. \A i \in snaps : x < i
  BY DEF Snaps
<1> HIDE DEF hard, snaps, end
<1>7. end \in x .. Len(s) /\ (end # Len(s) => x + ChunkOverlap < end)
  <2>1. CASE end = hard
    BY <1>1, <1>2, <2>1
  <2>2. CASE end \in snaps /\ hard # Len(s)
    <3>1. hard = x + ChunkSize /\ hard <= Len(s) /\ x < end
      BY <1>1, <1>2, <1>6, <2>2
    <3>2. hard - SnapWindow <= end /\ end <= hard - 1 /\ end \in Int
      BY <1>1, <1>2, <1>3, <2>2
    <3> QED  BY <1>1, <3>1, <3>2
  <2> QED  BY <1>5, <2>1, <2>2
<1>8. ASSUME end # Len(s)
      PROVE  /\ NextStart(x, end) = end - ChunkOverlap
             /\ NextStart(x, end) \in 0 .. Len(s) /\ x < NextStart(x, end)
  <2>1. end - ChunkOverlap > x /\ end \in Nat /\ end <= Len(s)
    BY <1>1, <1>7, <1>8
  <2>2. NextStart(x, end) = end - ChunkOverlap
    BY <2>1 DEF NextStart
  <2> QED  BY <1>1, <2>1, <2>2
<1> QED  BY <1>7, <1>8 DEF end

\* What the loop makes of one start.
Here(s, start) ==
    IF Strip(Slice(s, start, Boundary(s, start))) = <<>> THEN <<>>
    ELSE <<[start |-> start, end |-> Boundary(s, start)]>>

Windows == [start : Nat, end : Nat]

\* What the loop makes from a start on: windows in order, one for every phrase.
WindowsAreSound(s, x, ws) ==
    /\ ws \in Seq(Windows)
    /\ \A n \in 1 .. Len(ws) :
         x <= ws[n].start /\ ws[n].start <= ws[n].end /\ ws[n].end <= Len(s)
    /\ \A m, n \in 1 .. Len(ws) : m < n => ws[m].start < ws[n].start
    /\ \A p, q \in 1 .. Len(s) :
         Lies(SubSeq(s, p, q), s, p, q) /\ x < p /\ q - p < ChunkOverlap =>
           \E n \in 1 .. Len(ws) : ws[n].start < p /\ q <= ws[n].end

LEMMA HereIs ==
    ASSUME NEW T, NEW s \in Seq(T), NEW x \in 0 .. Len(s)
    PROVE  LET w == [start |-> x, end |-> Boundary(s, x)]
           IN  /\ w \in Windows
               /\ Here(s, x) = <<>> \/ Here(s, x) = <<w>>
               /\ \A p, q \in 1 .. Len(s) :
                    Lies(SubSeq(s, p, q), s, p, q) /\ x < p /\ q <= Boundary(s, x) => Here(s, x) = <<w>>
<1> DEFINE w == [start |-> x, end |-> Boundary(s, x)]
           end == Boundary(s, x)
<1>1. end \in x .. Len(s)
  BY BoundaryIs
<1>2. w \in Windows
  BY <1>1 DEF Windows
<1>3. ASSUME NEW p \in 1 .. Len(s), NEW q \in 1 .. Len(s), Lies(SubSeq(s, p, q), s, p, q), x < p, q <= end
      PROVE  Here(s, x) = <<w>>
  <2>1. x + 1 \in 1 .. p /\ end \in q .. Len(s)
    <3> HIDE DEF end
    <3> QED  BY <1>1, <1>3
  <2> DEFINE u == Slice(s, x, end)
             phrase == SubSeq(s, p, q)
             i == p - (x + 1) + 1
             j == q - (x + 1) + 1
  <2>2. u = SubSeq(s, x + 1, end)
    BY DEF Slice
  <2>3. Lies(phrase, s, p, q)
    BY <1>3
  <2> HIDE DEF end, u, phrase
  <2>4. u \in Seq(T) /\ Lies(phrase, u, i, j)
    BY <2>1, <2>2, <2>3, CutKeeps
  <2> HIDE DEF i, j
  <2>5. Strip(u) # <<>>
    BY <2>4, StripKeeps
  <2> QED  BY <2>5 DEF Here, u, end
<1>4. Here(s, x) = <<>> \/ Here(s, x) = <<w>>
  BY DEF Here
<1> QED  BY <1>2, <1>3, <1>4

LEMMA WindowsStop ==
    ASSUME NEW T, NEW s \in Seq(T), NEW x \in 0 .. Len(s), Boundary(s, x) = Len(s)
    PROVE  WindowsAreSound(s, x, Here(s, x))
<1> DEFINE w == [start |-> x, end |-> Len(s)]
           ws == Here(s, x)
<1>1. /\ w \in Windows /\ (ws = <<>> \/ ws = <<w>>)
      /\ \A p, q \in 1 .. Len(s) :
           Lies(SubSeq(s, p, q), s, p, q) /\ x < p /\ q <= Len(s) => ws = <<w>>
  BY HereIs
<1>2. x \in Nat /\ Len(s) \in Nat /\ x <= Len(s) /\ w.start = x /\ w.end = Len(s)
  OBVIOUS
<1> HIDE DEF w, ws
<1>3. ws \in Seq(Windows)
  <2>1. CASE ws = <<>>
    BY <2>1
  <2>2. CASE ws = <<w>>
    BY <1>1, <2>2
  <2> QED  BY <1>1, <2>1, <2>2
<1>4. \A n \in 1 .. Len(ws) : n = 1 /\ ws[n] = w
  <2>1. CASE ws = <<>>
    BY <2>1
  <2>2. CASE ws = <<w>>
    BY <2>2
  <2> QED  BY <1>1, <2>1, <2>2
<1>5. ASSUME NEW p \in 1 .. Len(s), NEW q \in 1 .. Len(s), Lies(SubSeq(s, p, q), s, p, q), x < p
      PROVE  \E n \in 1 .. Len(ws) : ws[n].start < p /\ q <= ws[n].end
  <2>1. ws = <<w>>
    BY <1>1, <1>5
  <2>2. 1 \in 1 .. Len(ws) /\ ws[1] = w
    BY <2>1
  <2> QED  BY <1>2, <1>5, <2>2
<1>6. /\ \A n \in 1 .. Len(ws) :
         x <= ws[n].start /\ ws[n].start <= ws[n].end /\ ws[n].end <= Len(s)
      /\ \A m, n \in 1 .. Len(ws) : m < n => ws[m].start < ws[n].start
  <2>1. ASSUME NEW n \in 1 .. Len(ws)
        PROVE  x <= ws[n].start /\ ws[n].start <= ws[n].end /\ ws[n].end <= Len(s)
    BY <1>2, <1>4
  <2>2. ASSUME NEW m \in 1 .. Len(ws), NEW n \in 1 .. Len(ws), m < n  PROVE FALSE
    BY <1>4, <2>2
  <2> QED  BY <2>1, <2>2
<1>7. WindowsAreSound(s, x, ws)
  BY <1>3, <1>5, <1>6 DEF WindowsAreSound
<1> QED  BY <1>7 DEF ws

LEMMA WindowsGoOn ==
    ASSUME NEW T, NEW s \in Seq(T), NEW x \in 0 .. Len(s), Boundary(s, x) # Len(s),
           NEW rest, WindowsAreSound(s, NextStart(x, Boundary(s, x)), rest)
    PROVE  WindowsAreSound(s, x, Here(s, x) \o rest)
<1> DEFINE end == Boundary(s, x)
           next == NextStart(x, end)
           w == [start |-> x, end |-> end]
           here == Here(s, x)
           ws == here \o rest
<1>1. /\ w \in Windows /\ (here = <<>> \/ here = <<w>>)
      /\ \A p, q \in 1 .. Len(s) :
           Lies(SubSeq(s, p, q), s, p, q) /\ x < p /\ q <= end => here = <<w>>
  BY HereIs
<1>2. /\ x \in Nat /\ Len(s) \in Nat /\ end \in x .. Len(s) /\ ChunkOverlap \in Nat
      /\ next = end - ChunkOverlap /\ next \in 0 .. Len(s) /\ x < next
      /\ w.start = x /\ w.end = end
  BY BoundaryIs, ChunkingAssumption
<1>3. /\ rest \in Seq(Windows)
      /\ \A n \in 1 .. Len(rest) :
           next <= rest[n].start /\ rest[n].start <= rest[n].end /\ rest[n].end <= Len(s)
      /\ \A m, n \in 1 .. Len(rest) : m < n => rest[m].start < rest[n].start
      /\ \A p, q \in 1 .. Len(s) :
           Lies(SubSeq(s, p, q), s, p, q) /\ next < p /\ q - p < ChunkOverlap =>
             \E n \in 1 .. Len(rest) : rest[n].start < p /\ q <= rest[n].end
  BY DEF WindowsAreSound
<1>4. \A n \in 1 .. Len(rest) : rest[n].start \in Nat /\ rest[n].end \in Nat
  <2>1. \A n \in 1 .. Len(rest) : rest[n] \in Windows
    BY <1>3, ElementOfSeq
  <2> QED  BY <2>1 DEF Windows
<1> HIDE DEF end, next, w, here
<1>5. CASE here = <<>>
  <2>1. ws = rest
    BY <1>3, <1>5
  <2> HIDE DEF ws
  <2>2. ASSUME NEW n \in 1 .. Len(rest)  PROVE x <= rest[n].start
    BY <1>2, <1>3, <1>4
  <2>3. ASSUME NEW p \in 1 .. Len(s), NEW q \in 1 .. Len(s), Lies(SubSeq(s, p, q), s, p, q), x < p,
               q - p < ChunkOverlap
        PROVE  next < p
    <3>1. ~ (q <= end)
      BY <1>1, <1>5, <2>3
    <3> QED  BY <1>2, <2>3, <3>1
  <2>4. WindowsAreSound(s, x, rest)
    BY <1>3, <2>2, <2>3 DEF WindowsAreSound
  <2> QED  BY <2>1, <2>4 DEF ws, here
<1>6. CASE here = <<w>>
  <2>1. /\ ws \in Seq(Windows) /\ Len(ws) = Len(rest) + 1 /\ ws[1] = w
        /\ \A n \in 1 .. Len(rest) : ws[n + 1] = rest[n]
    BY <1>1, <1>3, <1>6
  <2> HIDE DEF ws
  <2>0. Len(rest) \in Nat
    BY <1>3
  <2>2. ASSUME NEW n \in 1 .. Len(ws)
        PROVE  (n = 1 /\ ws[n] = w) \/ (n - 1 \in 1 .. Len(rest) /\ ws[n] = rest[n - 1])
    <3>1. CASE n = 1
      BY <2>1, <3>1
    <3>2. CASE n # 1
      <4>1. n - 1 \in 1 .. Len(rest) /\ (n - 1) + 1 = n
        BY <2>0, <2>1, <3>2
      <4> QED  BY <2>1, <4>1
    <3> QED  BY <3>1, <3>2
  <2>3. ASSUME NEW n \in 1 .. Len(ws)
        PROVE  x <= ws[n].start /\ ws[n].start <= ws[n].end /\ ws[n].end <= Len(s)
    <3>1. CASE ws[n] = w
      BY <1>2, <3>1
    <3>2. CASE n - 1 \in 1 .. Len(rest) /\ ws[n] = rest[n - 1]
      BY <1>2, <1>3, <1>4, <3>2
    <3> QED  BY <2>2, <3>1, <3>2
  <2>4. ASSUME NEW m \in 1 .. Len(ws), NEW n \in 1 .. Len(ws), m < n
        PROVE  ws[m].start < ws[n].start
    <3>1. n - 1 \in 1 .. Len(rest) /\ ws[n] = rest[n - 1]
      BY <2>2, <2>4
    <3>2. CASE m = 1 /\ ws[m] = w
      BY <1>2, <1>3, <1>4, <3>1, <3>2
    <3>3. CASE m - 1 \in 1 .. Len(rest) /\ ws[m] = rest[m - 1]
      <4>1. m - 1 < n - 1
        BY <2>4
      <4> QED  BY <1>3, <3>1, <3>3, <4>1
    <3> QED  BY <2>2, <3>2, <3>3
  <2>5. ASSUME NEW p \in 1 .. Len(s), NEW q \in 1 .. Len(s), Lies(SubSeq(s, p, q), s, p, q), x < p,
               q - p < ChunkOverlap
        PROVE  \E n \in 1 .. Len(ws) : ws[n].start < p /\ q <= ws[n].end
    <3>1. CASE q <= end
      <4>1. 1 \in 1 .. Len(ws) /\ ws[1].start < p /\ q <= ws[1].end
        BY <1>2, <2>0, <2>1, <2>5, <3>1
      <4> QED  BY <4>1
    <3>2. CASE ~ (q <= end)
      <4>1. next < p
        BY <1>2, <2>5, <3>2
      <4>2. PICK n \in 1 .. Len(rest) : rest[n].start < p /\ q <= rest[n].end
        BY <1>3, <2>5, <4>1
      <4>3. n + 1 \in 1 .. Len(ws) /\ ws[n + 1] = rest[n]
        BY <2>0, <2>1
      <4> QED  BY <4>2, <4>3
    <3> QED  BY <3>1, <3>2
  <2>6. WindowsAreSound(s, x, ws)
    BY <2>1, <2>3, <2>4, <2>5 DEF WindowsAreSound
  <2> QED  BY <2>6 DEF ws, here
<1> QED  BY <1>1, <1>5, <1>6

\* The loop is a recursion, and what it is from the first place on is sound.
LEMMA LoopIsDefined ==
    ASSUME NEW T, NEW s \in Seq(T)
    PROVE  \E f : /\ f = [x \in 0 .. Len(s) |->
                            IF Boundary(s, x) = Len(s) THEN Here(s, x)
                            ELSE Here(s, x) \o f[NextStart(x, Boundary(s, x))]]
                  /\ WindowsOf(s) = f[0]
<1> DEFINE S == 0 .. Len(s)
           V == Seq(Windows)
           Stop == {x \in S : Boundary(s, x) = Len(s)}
           m == [x \in S |-> Len(s) - x]
           base == [x \in S |-> Here(s, x)]
           next == [x \in S |-> IF x \in Stop THEN x ELSE NextStart(x, Boundary(s, x))]
           step == [xv \in S \X V |-> Here(s, xv[1]) \o xv[2]]
           G(f) == [x \in S |-> IF Boundary(s, x) = Len(s) THEN Here(s, x)
                                ELSE Here(s, x) \o f[NextStart(x, Boundary(s, x))]]
<1>1. \A x \in S : Here(s, x) \in V
  <2> TAKE x \in S
  <2> DEFINE w == [start |-> x, end |-> Boundary(s, x)]
  <2>1. w \in Windows /\ (Here(s, x) = <<>> \/ Here(s, x) = <<w>>)
    BY HereIs
  <2> HIDE DEF w
  <2>2. CASE Here(s, x) = <<>>
    BY <2>2
  <2>3. CASE Here(s, x) = <<w>>
    BY <2>1, <2>3
  <2> QED  BY <2>1, <2>2, <2>3
<1>2. \A x \in S \ Stop : NextStart(x, Boundary(s, x)) \in S /\ x < NextStart(x, Boundary(s, x))
  BY BoundaryIs
<1>3. IsRecursion(S, V, Stop, m, base, step, next)
  <2>1. V # {}
    <3>1. <<>> \in V
      OBVIOUS
    <3> QED  BY <3>1
  <2>2. m \in [S -> Nat]
    OBVIOUS
  <2>3. base \in [S -> V]
    BY <1>1
  <2>4. next \in [S -> S]
    BY <1>2
  <2>5. step \in [S \X V -> V]
    <3>1. ASSUME NEW xv \in S \X V  PROVE Here(s, xv[1]) \o xv[2] \in V
      <4>1. Here(s, xv[1]) \in V /\ xv[2] \in V
        BY <1>1
      <4> DEFINE a == Here(s, xv[1])
                 b == xv[2]
      <4> HIDE DEF a, b
      <4>2. a \o b \in V
        BY <4>1 DEF a, b
      <4> QED  BY <4>2 DEF a, b
    <3> QED  BY <3>1
  <2>6. \A x \in S \ Stop : m[next[x]] < m[x]
    <3> TAKE x \in S \ Stop
    <3>1. next[x] = NextStart(x, Boundary(s, x)) /\ next[x] \in S /\ x < next[x]
      BY <1>2
    <3> HIDE DEF next
    <3> QED  BY <3>1
  <2> QED  BY <2>1, <2>2, <2>3, <2>4, <2>5, <2>6 DEF IsRecursion
<1>4. PICK f \in [S -> V] : Obeys(f, S, Stop, base, step, next)
  <2> HIDE DEF S, V, Stop, m, base, step, next
  <2> QED  BY <1>3, RecursionIsDefined
<1>5. f = G(f)
  <2>1. ASSUME NEW x \in S
        PROVE  f[x] = IF Boundary(s, x) = Len(s) THEN Here(s, x)
                      ELSE Here(s, x) \o f[NextStart(x, Boundary(s, x))]
    <3>1. f[x] = IF x \in Stop THEN base[x] ELSE step[<<x, f[next[x]]>>]
      BY <1>4 DEF Obeys, ObeysAt
    <3>2. CASE x \in Stop
      BY <3>1, <3>2
    <3>3. CASE x \notin Stop
      <4>1. next[x] = NextStart(x, Boundary(s, x)) /\ next[x] \in S
        BY <1>2, <3>3
      <4>2. f[next[x]] \in V
        BY <4>1
      <4>3. step[<<x, f[next[x]]>>] = Here(s, x) \o f[next[x]]
        BY <4>2
      <4> QED  BY <3>1, <3>3, <4>1, <4>3
    <3> QED  BY <3>2, <3>3
  <2> QED  BY <2>1
<1> HIDE DEF S, V, Stop, m, base, step, next
<1> DEFINE F == CHOOSE g : g = G(g)
<1>6. F = G(F)
  BY <1>5
<1>7. WindowsOf(s) = F[0]
  BY DEF WindowsOf, Here, S
<1> HIDE DEF F
<1> QED  BY <1>6, <1>7 DEF S

LEMMA WindowsOfAreSound ==
    ASSUME NEW T, NEW s \in Seq(T)
    PROVE  WindowsAreSound(s, 0, WindowsOf(s))
<1>1. PICK f : /\ f = [x \in 0 .. Len(s) |->
                         IF Boundary(s, x) = Len(s) THEN Here(s, x)
                         ELSE Here(s, x) \o f[NextStart(x, Boundary(s, x))]]
               /\ WindowsOf(s) = f[0]
  BY LoopIsDefined
<1> DEFINE Bad == {x \in 0 .. Len(s) : ~ WindowsAreSound(s, x, f[x])}
           left == {Len(s) - x : x \in Bad}
<1>2. SUFFICES ASSUME Bad # {}  PROVE FALSE
  <2>1. 0 \in 0 .. Len(s)
    OBVIOUS
  <2> QED  BY <1>1, <1>2, <2>1
<1>3. left \subseteq Nat /\ left # {}
  BY <1>2
<1>4. PICK k \in left : \A l \in left : k <= l
  <2> HIDE DEF left
  <2> QED  BY <1>3, FirstOf
<1>5. PICK x \in Bad : k = Len(s) - x
  BY <1>4
<1>6. \A y \in 0 .. Len(s) : x < y => WindowsAreSound(s, y, f[y])
  <2> SUFFICES ASSUME NEW y \in 0 .. Len(s), x < y, y \in Bad  PROVE FALSE
    OBVIOUS
  <2>1. Len(s) - y \in left
    OBVIOUS
  <2>2. k <= Len(s) - y
    BY <1>4, <2>1
  <2> QED  BY <1>5, <2>2
<1>7. x \in 0 .. Len(s) /\ ~ WindowsAreSound(s, x, f[x])
  OBVIOUS
<1> HIDE DEF Bad, left
<1>8. CASE Boundary(s, x) = Len(s)
  <2>1. f[x] = Here(s, x)
    BY <1>1, <1>7, <1>8
  <2> QED  BY <1>7, <1>8, <2>1, WindowsStop
<1>9. CASE Boundary(s, x) # Len(s)
  <2> DEFINE y == NextStart(x, Boundary(s, x))
  <2>1. f[x] = Here(s, x) \o f[y]
    BY <1>1, <1>7, <1>9
  <2>2. y \in 0 .. Len(s) /\ x < y
    BY <1>7, <1>9, BoundaryIs
  <2>3. WindowsAreSound(s, y, f[y])
    <3> HIDE DEF y
    <3> QED  BY <1>6, <2>2
  <2> QED  BY <1>7, <1>9, <2>1, <2>3, WindowsGoOn
<1> QED  BY <1>8, <1>9

-----------------------------------------------------------------------------
\* Of every text, of whatever characters and length: each phrase no longer than the
\* overlap is whole in a chunk, and chunks begin one after the other (chunk_text).
THEOREM EveryPhraseIsKept ==
    ASSUME NEW T, NEW text \in Seq(T)
    PROVE  KeepsPhrases(text) /\ ChunksAdvance(text)
<1> DEFINE s == Strip(text)
           chunks == ChunkText(text)
           ws == WindowsOf(s)
<1>1. ASSUME NEW i \in DOMAIN text, NEW j \in DOMAIN text,
             text[i] \notin White, text[j] \notin White, i <= j
      PROVE  /\ s \in Seq(T) /\ s # <<>>
             /\ \E k, l \in 1 .. Len(s) : Lies(SubSeq(text, i, j), s, k, l) /\ l - k = j - i
  <2>1. Lies(SubSeq(text, i, j), text, i, j)
    BY <1>1 DEF Lies
  <2> QED  BY <2>1, StripKeeps
<1>2. s \in Seq(T)
  <2>1. CASE \E i \in DOMAIN text : text[i] \notin White
    BY <1>1, <2>1
  <2>2. CASE ~ \E i \in DOMAIN text : text[i] \notin White
    <3>1. s = <<>>
      BY <2>2 DEF Strip
    <3> QED  BY <3>1
  <2> QED  BY <2>1, <2>2
<1>3. CASE s = <<>>
  <2>1. chunks = <<>>
    BY <1>3 DEF ChunkText
  <2>2. KeepsPhrases(text)
    BY <1>1, <1>3 DEF KeepsPhrases
  <2>3. ChunksAdvance(text)
    BY <2>1 DEF ChunksAdvance
  <2> QED  BY <2>2, <2>3
<1>4. CASE s # <<>> /\ Len(s) <= ChunkSize
  <2> DEFINE c == [start |-> 0, text |-> s]
  <2>1. chunks = <<c>>
    BY <1>4 DEF ChunkText
  <2>2. ASSUME NEW i \in DOMAIN text, NEW j \in DOMAIN text,
               text[i] \notin White, text[j] \notin White, i <= j
        PROVE  Within(SubSeq(text, i, j), c)
    <3>1. PICK k, l \in 1 .. Len(s) : Lies(SubSeq(text, i, j), s, k, l)
      BY <1>1, <2>2
    <3>2. c.text = s
      OBVIOUS
    <3> HIDE DEF s, c
    <3> QED  BY <1>2, <3>1, <3>2, LiesWithin
  <2>3. 1 \in DOMAIN chunks /\ chunks[1] = c /\ DOMAIN chunks = {1}
    <3> HIDE DEF c, chunks
    <3> QED  BY <2>1
  <2> HIDE DEF s, c, chunks
  <2>4. KeepsPhrases(text)
    BY <2>2, <2>3 DEF KeepsPhrases, chunks
  <2>5. ChunksAdvance(text)
    BY <2>3 DEF ChunksAdvance, chunks
  <2> QED  BY <2>4, <2>5
<1>5. CASE s # <<>> /\ ~ (Len(s) <= ChunkSize)
  <2>1. chunks = [n \in DOMAIN ws |-> Chunk(s, ws[n])]
    BY <1>5 DEF ChunkText
  <2>2. WindowsAreSound(s, 0, ws)
    <3> HIDE DEF s
    <3> QED  BY <1>2, WindowsOfAreSound
  <2> HIDE DEF s, chunks, ws
  <2>3. ws \in Seq(Windows) /\ DOMAIN ws = 1 .. Len(ws)
    BY <2>2 DEF WindowsAreSound
  <2>4. ASSUME NEW i \in DOMAIN text, NEW j \in DOMAIN text,
               text[i] \notin White, text[j] \notin White, i <= j, j - i < ChunkOverlap
        PROVE  \E n \in DOMAIN chunks : Within(SubSeq(text, i, j), chunks[n])
    <3> DEFINE phrase == SubSeq(text, i, j)
    <3>1. PICK p, q \in 1 .. Len(s) : Lies(phrase, s, p, q) /\ q - p = j - i
      BY <1>1, <2>4 DEF s
    <3> HIDE DEF phrase
    <3>2. phrase = SubSeq(s, p, q)
      BY <3>1 DEF Lies
    <3>3. 0 < p /\ q - p < ChunkOverlap /\ Lies(SubSeq(s, p, q), s, p, q)
      BY <2>4, <3>1, <3>2
    <3>4. PICK n \in 1 .. Len(ws) : ws[n].start < p /\ q <= ws[n].end
      BY <2>2, <3>3 DEF WindowsAreSound
    <3> DEFINE a == ws[n].start
               b == ws[n].end
               piece == Slice(s, a, b)
               k == p - (a + 1) + 1
               l == q - (a + 1) + 1
    <3>5. a \in Nat /\ b \in Nat /\ a < p /\ q <= b /\ b <= Len(s)
      <4>1. ws[n] \in Windows
        BY <2>3, ElementOfSeq
      <4> QED  BY <2>2, <3>4, <4>1 DEF WindowsAreSound, Windows
    <3> HIDE DEF a, b
    <3>6. a + 1 \in 1 .. p /\ b \in q .. Len(s)
      BY <3>5
    <3>7. piece \in Seq(T) /\ Lies(phrase, piece, k, l)
      <4> HIDE DEF k, l, piece
      <4> QED  BY <1>2, <3>1, <3>6, CutKeeps DEF Slice, k, l, piece
    <3> HIDE DEF k, l, piece
    <3>8. PICK kk, ll \in 1 .. Len(Strip(piece)) : Lies(phrase, Strip(piece), kk, ll)
      BY <3>7, StripKeeps
    <3>9. Strip(piece) \in Seq(T)
      BY <3>7, StripKeeps
    <3> DEFINE c == Chunk(s, ws[n])
    <3>10. c.text = Strip(piece)
      BY DEF Chunk, piece, a, b
    <3> HIDE DEF c
    <3>11. Within(phrase, c)
      BY <3>8, <3>9, <3>10, LiesWithin
    <3>12. n \in DOMAIN chunks /\ chunks[n] = c
      BY <2>1, <2>3 DEF c
    <3> QED  BY <3>11, <3>12 DEF phrase
  <2>5. ASSUME NEW m \in DOMAIN chunks, NEW n \in DOMAIN chunks, m < n
        PROVE  chunks[m].start < chunks[n].start
    <3>1. m \in 1 .. Len(ws) /\ n \in 1 .. Len(ws)
      BY <2>1, <2>3
    <3>2. chunks[m].start = ws[m].start /\ chunks[n].start = ws[n].start
      BY <2>1, <2>3, <3>1 DEF Chunk
    <3>3. ws[m].start < ws[n].start
      BY <2>2, <2>5, <3>1 DEF WindowsAreSound
    <3> QED  BY <3>2, <3>3
  <2>6. KeepsPhrases(text)
    BY <2>4 DEF KeepsPhrases, chunks
  <2>7. ChunksAdvance(text)
    BY <2>5 DEF ChunksAdvance, chunks
  <2> QED  BY <2>6, <2>7
<1> QED  BY <1>3, <1>4, <1>5
=============================================================================
