---------------------- MODULE WorkflowAuthoringProofs ----------------------
(***************************************************************************)
(* Proofs about WorkflowAuthoring, for any workflows, names and clients    *)
(* and every bound on versions, rows and time.                             *)
(*                                                                         *)
(* A transaction writes what it computed from its snapshot.  What makes    *)
(* that harmless is that history is a preorder: Follows(s, d) says what    *)
(* has become, in d, of the rows of s.  Every commit takes the database to *)
(* one that follows it, so each open snapshot is still followed by the     *)
(* current rows, however many transactions committed in between.           *)
(***************************************************************************)
EXTENDS MCWorkflowAuthoring, TLAPS, FiniteSetTheorems, WellFoundedInduction

Database ==
    [wf : [Workflows -> WorkflowRow], ver : [VersionIds -> VersionRow],
     reg : SUBSET RegistrationRow, sched : SUBSET ScheduleRow]

InUse(d, v) == d.ver[v].status # "UNUSED"

\* The versions that carry a number.
PublishedOf(d, w) == {v \in VersionsOf(d, w) : IsPublished(d, v)}

\* The unique index on draft_key.
OneDraft(d) == \A w \in Workflows : \A u, v \in Drafts(d, w) : u = v

NumbersCount(d) ==
    \A w \in Workflows :
        /\ \E n \in Nat : Numbers(d, w) = 1 .. n
        /\ \A u, v \in PublishedOf(d, w) : d.ver[u].no = d.ver[v].no => u = v

Distinct(d) ==
    \A u, w \in Workflows : u # w /\ Live(d, u) /\ Live(d, w) => d.wf[u].name # d.wf[w].name

Resolves(d) ==
    /\ \A w \in Workflows : d.wf[w].active # None => d.wf[w].active \in PublishedOf(d, w)
    /\ \A x \in d.reg \cup d.sched : RowsExist(d, x.rows)

\* What the rows of one database say of each other.
RowsSound(d) ==
    d \in Database /\ OneDraft(d) /\ NumbersCount(d) /\ Distinct(d) /\ Resolves(d)

\* What has become of a version in d since s: it stays of its workflow; a number
\* is never changed; while a draft is a draft nothing of its workflow is numbered,
\* so the number it gets is the one that was next; the revision counts its contents.
VersionFollows(s, d, v) ==
    /\ InUse(d, v) /\ d.ver[v].wf = s.ver[v].wf
    /\ IsPublished(s, v) => IsPublished(d, v) /\ d.ver[v].no = s.ver[v].no
    /\ s.ver[v].status = "DRAFT" =>
         LET w == s.ver[v].wf
         IN  /\ d.ver[v].status = "DRAFT" => Numbers(d, w) = Numbers(s, w)
             /\ IsPublished(d, v) => d.ver[v].no = NextVersionNo(s, w)
    /\ d.ver[v].rev >= s.ver[v].rev
    /\ d.ver[v].rev = s.ver[v].rev => d.ver[v].graph.content = s.ver[v].graph.content

\* No occurrence lies beyond the next tick.
DueSoon(d, n) == \A x \in d.sched : x.due <= n + 1

Follows(s, d) == \A v \in VersionIds : InUse(s, v) => VersionFollows(s, d, v)

-----------------------------------------------------------------------------
(* Rows *)

LEMMA VersionRows ==
    ASSUME NEW r \in VersionRow
    PROVE  /\ r.status \in {"UNUSED", "DRAFT", "PUBLISHED"}
           /\ r.graph \in Graph /\ r.rev \in Nat
           /\ r \in [wf : Workflows \cup {None}, status : {"UNUSED", "DRAFT", "PUBLISHED"},
                     no : Nat, rev : Nat, graph : Graph]
           /\ r.status = "UNUSED" => r = Unused
           /\ r.status # "UNUSED" => r.wf \in Workflows /\ r.rev \in Nat \ {0}
           /\ r.status = "DRAFT" => r.no = None
           /\ r.status = "PUBLISHED" => r.no \in Nat \ {0}
BY AuthoringAssumption DEF VersionRow, Unused, Empty, None, Graph, Triggers

\* A row is a version's if its number goes with its status.
LEMMA NumberedRows ==
    ASSUME NEW r \in [wf : Workflows, status : {"DRAFT", "PUBLISHED"}, no : Nat, rev : Nat \ {0},
                      graph : Graph],
           r.status = "DRAFT" => r.no = 0,
           r.status = "PUBLISHED" => r.no \in Nat \ {0}
    PROVE  r \in VersionRow
BY DEF VersionRow, None

\* The ways in which a version's row is written.
LEMMA VersionWrites ==
    ASSUME NEW r \in VersionRow, r.status # "UNUSED"
    PROVE  /\ \A g \in Graph, n \in Nat \ {0} :
                [r EXCEPT !.graph = g, !.rev = n] \in VersionRow
           /\ \A n \in Nat \ {0} : [r EXCEPT !.status = "PUBLISHED", !.no = n] \in VersionRow
<1> DEFINE R == [wf : Workflows, status : {"DRAFT", "PUBLISHED"}, no : Nat, rev : Nat \ {0},
                 graph : Graph]
<1>1. /\ r \in R
      /\ r.status = "DRAFT" => r.no = 0
      /\ r.status = "PUBLISHED" => r.no \in Nat \ {0}
  BY DEF VersionRow, Unused, None
<1>2. ASSUME NEW g \in Graph, NEW n \in Nat \ {0}
      PROVE  [r EXCEPT !.graph = g, !.rev = n] \in VersionRow
  <2>1. [r EXCEPT !.graph = g, !.rev = n] \in R
    BY <1>1
  <2>2. /\ [r EXCEPT !.graph = g, !.rev = n].status = r.status
        /\ [r EXCEPT !.graph = g, !.rev = n].no = r.no
    BY <1>1
  <2> QED  BY <1>1, <2>1, <2>2, NumberedRows
<1>3. ASSUME NEW n \in Nat \ {0}
      PROVE  [r EXCEPT !.status = "PUBLISHED", !.no = n] \in VersionRow
  <2>1. [r EXCEPT !.status = "PUBLISHED", !.no = n]
          \in [wf : Workflows, status : {"PUBLISHED"}, no : Nat \ {0}, rev : Nat \ {0},
              graph : Graph]
    BY <1>1
  <2> QED  BY <2>1 DEF VersionRow
<1> QED  BY <1>2, <1>3

\* Min picks an element of a set of row ids.
LEMMA MinIsElement ==
    ASSUME NEW S, S \subseteq VersionIds, S # {}
    PROVE  Min(S) \in S
<1>1. S \subseteq Nat
  BY AuthoringAssumption
<1>2. PICK m \in S : \A q \in S : ~ (<<q, m>> \in OpToRel(<, Nat))
  BY <1>1, NatLessThanWellFounded, WFMin
<1>3. ASSUME NEW q \in S, q < m  PROVE FALSE
  <2>1. q \in Nat /\ m \in Nat
    BY <1>1
  <2>2. <<q, m>> \in OpToRel(<, Nat)
    BY <1>3, <2>1 DEF OpToRel
  <2> QED  BY <1>2, <2>2
<1>4. \A q \in S : m =< q
  BY <1>1, <1>3
<1> QED  BY <1>4 DEF Min

\* The next number, where the numbers are 1 .. n.
LEMMA NextNumber ==
    ASSUME NEW d, NEW w, NEW n \in Nat, Numbers(d, w) = 1 .. n
    PROVE  NextVersionNo(d, w) = n + 1
<1>1. Max((1 .. n) \cup {0}) = n
  BY DEF Max
<1> QED  BY <1>1 DEF NextVersionNo

\* With every number once, 1 .. n says how many versions there are.
LEMMA NumbersCounted ==
    ASSUME NEW d, NumbersCount(d), NEW w \in Workflows
    PROVE  Numbers(d, w) = 1 .. Cardinality(PublishedOf(d, w))
<1> DEFINE P == PublishedOf(d, w)
<1>1. PICK n \in Nat : Numbers(d, w) = 1 .. n
  BY DEF NumbersCount
<1>2. \A k \in 1 .. n : \E v \in P : d.ver[v].no = k
  BY <1>1 DEF Numbers, PublishedOf
<1>3. \A v \in P : d.ver[v].no \in 1 .. n
  BY <1>1 DEF Numbers, PublishedOf
<1>4. \A u, v \in P : d.ver[u].no = d.ver[v].no => u = v
  BY DEF NumbersCount
<1> DEFINE f == [k \in 1 .. n |-> CHOOSE v \in P : d.ver[v].no = k]
<1> HIDE DEF P
<1>5. \A k \in 1 .. n : f[k] \in P /\ d.ver[f[k]].no = k
  BY <1>2
<1>6. f \in Bijection(1 .. n, P)
  <2>1. f \in [1 .. n -> P]
    BY <1>5
  <2>2. f \in Injection(1 .. n, P)
    BY <2>1, <1>5 DEF Injection, IsInjective
  <2>3. \A v \in P : \E k \in 1 .. n : f[k] = v
    BY <1>3, <1>4, <1>5
  <2> QED  BY <2>1, <2>2, <2>3 DEF Bijection, Surjection
<1>7. IsFiniteSet(1 .. n) /\ Cardinality(1 .. n) = n
  BY FS_Interval
<1>8. Cardinality(P) = n
  BY <1>6, <1>7, FS_Bijection DEF ExistsBijection
<1> QED  BY <1>1, <1>8 DEF P


-----------------------------------------------------------------------------
(* History is a preorder *)

LEMMA FollowsItself ==
    ASSUME NEW d \in Database
    PROVE  Follows(d, d)
<1>1. ASSUME NEW v \in VersionIds, InUse(d, v)
      PROVE  VersionFollows(d, d, v)
  <2>1. d.ver[v] \in VersionRow
    BY DEF Database
  <2>2. d.ver[v].rev \in Nat
    BY <2>1, VersionRows
  <2> QED  BY <1>1, <2>2 DEF VersionFollows, IsPublished
<1> QED  BY <1>1 DEF Follows

LEMMA FollowsOn ==
    ASSUME NEW s \in Database, NEW d \in Database, NEW e \in Database,
           Follows(s, d), Follows(d, e)
    PROVE  Follows(s, e)
<1>1. ASSUME NEW v \in VersionIds, InUse(s, v)
      PROVE  VersionFollows(s, e, v)
  <2>1. /\ s.ver[v].status \in {"UNUSED", "DRAFT", "PUBLISHED"} /\ s.ver[v].rev \in Nat
        /\ d.ver[v].status \in {"UNUSED", "DRAFT", "PUBLISHED"} /\ d.ver[v].rev \in Nat
        /\ e.ver[v].status \in {"UNUSED", "DRAFT", "PUBLISHED"} /\ e.ver[v].rev \in Nat
    <3>1. s.ver[v] \in VersionRow /\ d.ver[v] \in VersionRow /\ e.ver[v] \in VersionRow
      BY DEF Database
    <3> QED  BY <3>1, VersionRows
  <2>2. VersionFollows(s, d, v)
    BY <1>1 DEF Follows
  <2>3. VersionFollows(d, e, v)
    BY <2>2 DEF Follows, VersionFollows
  <2>4. InUse(e, v) /\ e.ver[v].wf = s.ver[v].wf
    BY <2>2, <2>3 DEF VersionFollows
  <2>5. IsPublished(s, v) => IsPublished(e, v) /\ e.ver[v].no = s.ver[v].no
    BY <2>2, <2>3 DEF VersionFollows
  <2>6. ASSUME s.ver[v].status = "DRAFT", e.ver[v].status = "DRAFT"
        PROVE  Numbers(e, s.ver[v].wf) = Numbers(s, s.ver[v].wf)
    <3>1. d.ver[v].status = "DRAFT"
      BY <2>1, <2>2, <2>3, <2>6 DEF VersionFollows, IsPublished, InUse
    <3> QED  BY <2>2, <2>3, <2>6, <3>1 DEF VersionFollows
  <2>7. ASSUME s.ver[v].status = "DRAFT", IsPublished(e, v)
        PROVE  e.ver[v].no = NextVersionNo(s, s.ver[v].wf)
    <3>1. CASE d.ver[v].status = "DRAFT"
      <4>1. Numbers(d, s.ver[v].wf) = Numbers(s, s.ver[v].wf)
        BY <2>2, <2>7, <3>1 DEF VersionFollows
      <4>2. e.ver[v].no = NextVersionNo(d, s.ver[v].wf)
        BY <2>2, <2>3, <2>7, <3>1 DEF VersionFollows
      <4> QED  BY <4>1, <4>2 DEF NextVersionNo
    <3>2. CASE IsPublished(d, v)
      BY <2>2, <2>3, <2>7, <3>2 DEF VersionFollows
    <3> QED  BY <2>1, <2>2, <3>1, <3>2 DEF VersionFollows, InUse, IsPublished
  <2>8. /\ e.ver[v].rev >= s.ver[v].rev
        /\ e.ver[v].rev = s.ver[v].rev => e.ver[v].graph.content = s.ver[v].graph.content
    BY <2>1, <2>2, <2>3 DEF VersionFollows
  <2> QED  BY <2>4, <2>5, <2>6, <2>7, <2>8 DEF VersionFollows
<1> QED  BY <1>1 DEF Follows

\* What has numbers in common with another database has the same numbers.
LEMMA SameNumbers ==
    ASSUME NEW d, NEW e, NEW w, PublishedOf(d, w) = PublishedOf(e, w),
           \A v \in PublishedOf(d, w) : d.ver[v].no = e.ver[v].no
    PROVE  Numbers(d, w) = Numbers(e, w)
BY DEF Numbers, PublishedOf

\* Changing a version's contents or adding a draft numbers nothing.
LEMMA NothingNumbered ==
    ASSUME NEW d, NEW e, NumbersCount(d), NEW v \in VersionIds,
           \A u \in VersionIds \ {v} : e.ver[u] = d.ver[u],
           \/ e.ver[v].status = "DRAFT" /\ ~ IsPublished(d, v)
           \/ /\ e.ver[v].status = d.ver[v].status /\ e.ver[v].wf = d.ver[v].wf
              /\ e.ver[v].no = d.ver[v].no
    PROVE  /\ NumbersCount(e)
           /\ \A w \in Workflows : Numbers(e, w) = Numbers(d, w)
           /\ \A w \in Workflows : PublishedOf(e, w) = PublishedOf(d, w)
<1>1. ASSUME NEW w \in Workflows
      PROVE  PublishedOf(e, w) = PublishedOf(d, w)
  BY DEF PublishedOf, VersionsOf, IsPublished
<1>2. ASSUME NEW w \in Workflows, NEW u \in PublishedOf(d, w)
      PROVE  d.ver[u].no = e.ver[u].no
  BY DEF PublishedOf, VersionsOf, IsPublished
<1>3. ASSUME NEW w \in Workflows
      PROVE  Numbers(e, w) = Numbers(d, w)
  BY <1>1, <1>2, SameNumbers
<1> QED  BY <1>1, <1>2, <1>3 DEF NumbersCount


-----------------------------------------------------------------------------
(* What commits write *)

\* A database in which one version's row differs.
LEMMA OneRowWritten ==
    ASSUME NEW d \in Database, NEW v \in VersionIds, NEW r \in VersionRow
    PROVE  LET e == [d EXCEPT !.ver[v] = r]
           IN  /\ e \in Database
               /\ e.wf = d.wf /\ e.reg = d.reg /\ e.sched = d.sched
               /\ e.ver[v] = r /\ \A u \in VersionIds \ {v} : e.ver[u] = d.ver[u]
BY DEF Database

\* The copy that becomes a draft is a row, of the workflow, with nothing numbered.
LEMMA NewDraftIsRow ==
    ASSUME NEW s \in Database, NEW w \in Workflows, rows \in 0 .. MaxRows,
           s.wf[w].active # None => rows + 1 <= MaxRows
    PROVE  /\ NewDraft(s, w) \in VersionRow /\ NewDraft(s, w).wf = w
           /\ NewDraft(s, w).status = "DRAFT" /\ NewDraft(s, w).rev = 1
<1> DEFINE a == s.wf[w].active
           copy == IF a = None THEN Empty ELSE [s.ver[a].graph EXCEPT !.rows = rows + 1]
<1>1. a \in VersionIds \cup {None}
  BY DEF Database, WorkflowRow
<1>2. a # None => s.ver[a].graph \in Graph
  <2>1. a # None => s.ver[a] \in VersionRow
    BY <1>1 DEF Database
  <2> QED  BY <2>1, VersionRows
<1>3. copy \in Graph
  <2>1. CASE a = None
    BY <2>1, AuthoringAssumption DEF Graph, Empty, Triggers
  <2>2. CASE a # None
    <3> DEFINE h == s.ver[a].graph
    <3>1. h \in Graph /\ rows + 1 \in 0 .. MaxRows
      BY <1>2, <2>2, AuthoringAssumption
    <3> HIDE DEF h
    <3>2. [h EXCEPT !.rows = rows + 1] \in Graph
      BY <3>1 DEF Graph
    <3> QED  BY <2>2, <3>2 DEF h
  <2> QED  BY <2>1, <2>2
<1>4. NewDraft(s, w) = [wf |-> w, status |-> "DRAFT", no |-> None, rev |-> 1, graph |-> copy]
  BY DEF NewDraft
<1> HIDE DEF copy
<1> QED  BY <1>3, <1>4 DEF VersionRow

\* The copy has rows of its own.
LEMMA NewDraftRows ==
    ASSUME NEW s \in Database, NEW w \in Workflows
    PROVE  NewDraft(s, w).graph.rows = IF s.wf[w].active = None THEN 0 ELSE rows + 1
<1> DEFINE a == s.wf[w].active
<1>1. a # None => s.ver[a].graph \in Graph
  <2>1. a \in VersionIds \cup {None}
    BY DEF Database, WorkflowRow
  <2>2. a # None => s.ver[a] \in VersionRow
    BY <2>1 DEF Database
  <2> QED  BY <2>2, VersionRows
<1>2. a # None => [s.ver[a].graph EXCEPT !.rows = rows + 1].rows = rows + 1
  BY <1>1 DEF Graph
<1> QED  BY <1>2 DEF NewDraft, Empty

\* The draft that a transaction finds is one.
LEMMA DraftFound ==
    ASSUME NEW s, NEW w, HasDraft(s, w)
    PROVE  DraftId(s, w) \in Drafts(s, w)
<1>1. DraftId(s, w) = Min(Drafts(s, w)) /\ Drafts(s, w) # {} /\ Drafts(s, w) \subseteq VersionIds
  BY DEF DraftId, HasDraft, Drafts, VersionsOf
<1> QED  BY <1>1, MinIsElement

\* Once a draft is ensured the workflow has one, whose row says at least what the
\* request was shown.
LEMMA EnsuredIsSound ==
    ASSUME RowsSound(db), NEW s, RowsSound(s), Follows(s, db), NEW w \in Workflows,
           rows \in 0 .. MaxRows, rows + Copies(s, w) <= MaxRows,
           HasDraft(s, w) \/ CanCreateDraft(db, w)
    PROVE  LET d == Ensured(s, w)  v == DraftId(s, w)
           IN  /\ RowsSound(d) /\ Follows(db, d) /\ d.wf = db.wf /\ d.sched = db.sched
               /\ v \in VersionIds /\ InUse(d, v) /\ d.ver[v].wf = w
               /\ DraftRow(s, w) \in VersionRow
               /\ d.ver[v].rev >= DraftRow(s, w).rev
               /\ d.ver[v].rev = DraftRow(s, w).rev =>
                    d.ver[v].graph.content = DraftRow(s, w).graph.content
               /\ \/ HasDraft(s, w) /\ v \in Drafts(s, w) /\ d = db
                  \/ /\ ~ HasDraft(s, w) /\ ~ InUse(db, v) /\ d.ver[v] = NewDraft(s, w)
                     /\ \A u \in VersionIds \ {v} : d.ver[u] = db.ver[u]
                     /\ d.reg = db.reg /\ d.sched = db.sched
<1> DEFINE d == Ensured(s, w)
           v == DraftId(s, w)
<1>1. CASE HasDraft(s, w)
  <2>1. v \in Drafts(s, w)
    BY <1>1, DraftFound
  <2>2. d = db /\ DraftRow(s, w) = s.ver[v]
    BY <1>1 DEF Ensured, DraftRow
  <2>3. v \in VersionIds /\ InUse(s, v) /\ s.ver[v].wf = w
    BY <2>1 DEF Drafts, VersionsOf, InUse
  <2>4. VersionFollows(s, db, v)
    BY <2>3 DEF Follows
  <2>5. s.ver[v] \in VersionRow
    BY <2>3 DEF RowsSound, Database
  <2>6. Follows(db, db)
    BY FollowsItself DEF RowsSound
  <2> HIDE DEF d, v
  <2>7. /\ RowsSound(d) /\ Follows(db, d) /\ d.wf = db.wf
        /\ v \in VersionIds /\ InUse(d, v) /\ d.ver[v].wf = w
        /\ DraftRow(s, w) \in VersionRow
        /\ d.ver[v].rev >= DraftRow(s, w).rev
        /\ d.ver[v].rev = DraftRow(s, w).rev =>
             d.ver[v].graph.content = DraftRow(s, w).graph.content
    BY <2>2, <2>3, <2>4, <2>5, <2>6 DEF VersionFollows
  <2> QED  BY <1>1, <2>1, <2>2, <2>7 DEF d, v
<1>2. CASE ~ HasDraft(s, w)
  <2> DEFINE r == NewDraft(s, w)
             U == {u \in VersionIds : db.ver[u].status = "UNUSED"}
  <2>1. CanCreateDraft(db, w) /\ v = FreeVersion(db) /\ d = [db EXCEPT !.ver[v] = r]
        /\ DraftRow(s, w) = r
    BY <1>2 DEF DraftId, Ensured, DraftRow
  <2>2. v \in U
    <3>1. v = Min(U) /\ U # {} /\ U \subseteq VersionIds
      BY <2>1 DEF FreeVersion, CanCreateDraft
    <3> HIDE DEF U, v
    <3> QED  BY <3>1, MinIsElement
  <2>3. r \in VersionRow /\ r.wf = w /\ r.status = "DRAFT" /\ r.rev = 1
    <3>1. s.wf[w].active # None => rows + 1 <= MaxRows
      BY <1>2 DEF Copies
    <3> QED  BY <3>1, NewDraftIsRow DEF RowsSound
  <2> HIDE DEF r, d, v
  <2>4. v \in VersionIds /\ db.ver[v].status = "UNUSED"
    BY <2>2
  <2> HIDE DEF U
  <2>5. /\ d \in Database /\ d.wf = db.wf /\ d.reg = db.reg /\ d.sched = db.sched
        /\ d.ver[v] = r /\ \A u \in VersionIds \ {v} : d.ver[u] = db.ver[u]
    BY <2>1, <2>3, <2>4, OneRowWritten DEF RowsSound
  <2>6. /\ NumbersCount(d)
        /\ \A x \in Workflows : Numbers(d, x) = Numbers(db, x)
        /\ \A x \in Workflows : PublishedOf(d, x) = PublishedOf(db, x)
    BY <2>3, <2>4, <2>5, NothingNumbered DEF RowsSound, IsPublished
  <2>7. OneDraft(d)
    BY <2>1, <2>3, <2>4, <2>5 DEF RowsSound, OneDraft, CanCreateDraft, Drafts, VersionsOf
  <2>8. Distinct(d)
    BY <2>5 DEF RowsSound, Distinct, Live, Exists
  <2>9. Resolves(d)
    <3>1. db.ver[v] \in VersionRow
      BY <2>4 DEF RowsSound, Database
    <3>2. db.ver[v].graph.rows = 0
      BY <2>4, <3>1, VersionRows DEF Unused, Empty
    <3>3. \A n : RowsExist(db, n) => RowsExist(d, n)
      BY <2>5, <3>2 DEF RowsExist
    <3> QED  BY <2>5, <2>6, <3>3 DEF RowsSound, Resolves
  <2>10. Follows(db, d)
    <3>1. ASSUME NEW u \in VersionIds, InUse(db, u)
          PROVE  VersionFollows(db, d, u)
      <4>1. u # v /\ d.ver[u] = db.ver[u]
        BY <2>4, <2>5, <3>1 DEF InUse
      <4>2. db.ver[u].rev \in Nat /\ db.ver[u].wf \in Workflows
        <5>1. db.ver[u] \in VersionRow
          BY DEF RowsSound, Database
        <5> QED  BY <3>1, <5>1, VersionRows DEF InUse
      <4> QED  BY <2>6, <3>1, <4>1, <4>2 DEF VersionFollows, InUse, IsPublished
    <3> QED  BY <3>1 DEF Follows
  <2>11. /\ RowsSound(d) /\ Follows(db, d) /\ d.wf = db.wf
         /\ v \in VersionIds /\ InUse(d, v) /\ d.ver[v].wf = w
         /\ DraftRow(s, w) \in VersionRow
         /\ d.ver[v].rev >= DraftRow(s, w).rev
         /\ d.ver[v].rev = DraftRow(s, w).rev =>
              d.ver[v].graph.content = DraftRow(s, w).graph.content
    BY <2>1, <2>3, <2>4, <2>5, <2>6, <2>7, <2>8, <2>9, <2>10 DEF RowsSound, InUse
  <2> QED  BY <1>2, <2>4, <2>5, <2>11 DEF d, v, r, InUse
<1> QED  BY <1>1, <1>2


\* Replacing a graph takes the trigger rows that pointed into it along, whatever
\* has become of the version, and the revision never names two contents.
LEMMA ReplacedIsSound ==
    ASSUME NEW d, RowsSound(d), NEW v \in VersionIds, InUse(d, v), NEW g \in Graph, NEW read
    PROVE  LET e == Replaced(d, v, g, read)
           IN  /\ RowsSound(e) /\ Follows(d, e) /\ e.wf = d.wf
               /\ InUse(e, v) /\ e.ver[v].rev = d.ver[v].rev + 1 /\ e.ver[v].graph = g
               /\ e.ver[v].status = d.ver[v].status /\ e.ver[v].wf = d.ver[v].wf
               /\ \A u \in VersionIds \ {v} : e.ver[u] = d.ver[u]
               /\ e.reg = {x \in d.reg : x.rows # d.ver[v].graph.rows}
               /\ e.sched = {x \in d.sched : x.rows # d.ver[v].graph.rows}
<1> DEFINE e == Replaced(d, v, g, read)
           d1 == WithoutRows(d, d.ver[v].graph.rows)
           r == [d.ver[v] EXCEPT !.graph = g, !.rev = d.ver[v].rev + 1]
<1>1. /\ d1 \in Database /\ d1.ver = d.ver /\ d1.wf = d.wf
      /\ d1.reg = {x \in d.reg : x.rows # d.ver[v].graph.rows}
      /\ d1.sched = {x \in d.sched : x.rows # d.ver[v].graph.rows}
  BY DEF RowsSound, Database, WithoutRows
<1>2. d.ver[v] \in VersionRow /\ d.ver[v].rev \in Nat \ {0} /\ d.ver[v].wf \in Workflows
  <2>1. d.ver[v] \in VersionRow
    BY DEF RowsSound, Database
  <2> QED  BY <2>1, VersionRows DEF InUse
<1>3. r \in VersionRow
  <2>1. d.ver[v].status # "UNUSED" /\ d.ver[v].rev + 1 \in Nat \ {0}
    BY <1>2 DEF InUse
  <2> QED  BY <1>2, <2>1, VersionWrites
<1>4. /\ r.status = d.ver[v].status /\ r.wf = d.ver[v].wf /\ r.no = d.ver[v].no
      /\ r.rev = d.ver[v].rev + 1 /\ r.graph = g
  <2>1. d.ver[v] \in [wf : Workflows \cup {None}, status : {"UNUSED", "DRAFT", "PUBLISHED"},
                     no : Nat, rev : Nat, graph : Graph]
    BY <1>2, VersionRows
  <2> QED  BY <2>1
<1>5. e = [d1 EXCEPT !.ver[v] = r]
  <2>1. e = [d1 EXCEPT !.ver[v].graph = g, !.ver[v].rev = @ + 1]
    BY DEF Replaced, NextRevision
  <2> HIDE DEF d1, e
  <2>2. e = [d1 EXCEPT !.ver[v] = [d1.ver[v] EXCEPT !.graph = g, !.rev = d1.ver[v].rev + 1]]
    <3>1. d1.ver[v] \in VersionRow
      BY <1>1, <1>2
    <3>2. d1.ver[v] \in [wf : Workflows \cup {None}, status : {"UNUSED", "DRAFT", "PUBLISHED"},
                     no : Nat, rev : Nat, graph : Graph]
      BY <3>1, VersionRows
    <3> QED  BY <1>1, <2>1, <3>2 DEF Database
  <2> QED  BY <1>1, <2>2
<1> HIDE DEF d1, r, e
<1>6. /\ e \in Database /\ e.wf = d.wf /\ e.ver[v] = r
      /\ \A u \in VersionIds \ {v} : e.ver[u] = d.ver[u]
      /\ e.reg = {x \in d.reg : x.rows # d.ver[v].graph.rows}
      /\ e.sched = {x \in d.sched : x.rows # d.ver[v].graph.rows}
  BY <1>1, <1>3, <1>5, OneRowWritten
<1>7. /\ NumbersCount(e)
      /\ \A x \in Workflows : Numbers(e, x) = Numbers(d, x)
      /\ \A x \in Workflows : PublishedOf(e, x) = PublishedOf(d, x)
  BY <1>4, <1>6, NothingNumbered DEF RowsSound
<1>8. OneDraft(e)
  BY <1>4, <1>6 DEF RowsSound, OneDraft, Drafts, VersionsOf
<1>9. Distinct(e)
  BY <1>6 DEF RowsSound, Distinct, Live, Exists
<1>10. Resolves(e)
  <2>1. ASSUME NEW x \in e.reg \cup e.sched
        PROVE  RowsExist(e, x.rows)
    <3>1. RowsExist(d, x.rows) /\ x.rows # d.ver[v].graph.rows
      BY <1>6, <2>1 DEF RowsSound, Resolves
    <3> QED  BY <1>6, <3>1 DEF RowsExist
  <2> QED  BY <1>6, <1>7, <2>1 DEF RowsSound, Resolves
<1>11. Follows(d, e)
  <2>1. ASSUME NEW u \in VersionIds, InUse(d, u)
        PROVE  VersionFollows(d, e, u)
    <3>1. d.ver[u].rev \in Nat /\ d.ver[u].wf \in Workflows
      <4>1. d.ver[u] \in VersionRow
        BY DEF RowsSound, Database
      <4> QED  BY <2>1, <4>1, VersionRows DEF InUse
    <3>2. CASE u = v
      BY <1>4, <1>6, <1>7, <2>1, <3>1, <3>2 DEF VersionFollows, InUse, IsPublished
    <3>3. CASE u # v
      BY <1>6, <1>7, <2>1, <3>1, <3>3 DEF VersionFollows, InUse, IsPublished
    <3> QED  BY <3>2, <3>3
  <2> QED  BY <2>1 DEF Follows
<1>12. InUse(e, v) /\ e.ver[v].rev = d.ver[v].rev + 1 /\ e.ver[v].graph = g
  BY <1>4, <1>6 DEF InUse
<1> QED  BY <1>4, <1>6, <1>7, <1>8, <1>9, <1>10, <1>11, <1>12 DEF RowsSound, e


\* Version v of w made its published one; the trigger rows then in place.
Promoted(w, v, no) ==
    [db EXCEPT !.ver[v].status = "PUBLISHED", !.ver[v].no = no, !.wf[w].active = v]

WithTriggers(d, reg, sched) == [d EXCEPT !.reg = reg, !.sched = sched]

\* What promoting changes in the rows of workflows and versions.
Promotes(d, e, w, v) ==
    /\ IsPublished(e, v) /\ e.ver[v].wf = w /\ e.wf[w].active = v
    /\ \A x \in Workflows \ {w} : e.wf[x].active = d.wf[x].active
    /\ \A u \in VersionIds \ {v} : e.ver[u] = d.ver[u]
    /\ \A u \in VersionIds : e.ver[u].graph = d.ver[u].graph

\* It keeps the contents of all versions, and so what trigger rows point at.
LEMMA PromotedRows ==
    ASSUME RowsSound(db), NEW w \in Workflows, NEW v \in VersionIds, NEW no
    PROVE  /\ Promoted(w, v, no).reg = db.reg /\ Promoted(w, v, no).sched = db.sched
           /\ \A u \in VersionIds : Promoted(w, v, no).ver[u].graph = db.ver[u].graph
           /\ \A r : RowsExist(Promoted(w, v, no), r) <=> RowsExist(db, r)
<1> DEFINE d == Promoted(w, v, no)
<1>1. db.ver[v] \in [wf : Workflows \cup {None}, status : {"UNUSED", "DRAFT", "PUBLISHED"},
                     no : Nat, rev : Nat, graph : Graph]
  <2>1. db.ver[v] \in VersionRow
    BY DEF RowsSound, Database
  <2> QED  BY <2>1, VersionRows
<1>2. /\ d.reg = db.reg /\ d.sched = db.sched
      /\ d.ver = [db.ver EXCEPT ![v] = [db.ver[v] EXCEPT !.status = "PUBLISHED", !.no = no]]
  BY <1>1 DEF RowsSound, Database, Promoted
<1>3. [db.ver[v] EXCEPT !.status = "PUBLISHED", !.no = no].graph = db.ver[v].graph
  BY <1>1
<1> HIDE DEF d
<1>4. \A u \in VersionIds : d.ver[u].graph = db.ver[u].graph
  BY <1>2, <1>3 DEF RowsSound, Database
<1>5. \A r : RowsExist(d, r) <=> RowsExist(db, r)
  BY <1>4 DEF RowsExist
<1> QED  BY <1>2, <1>4, <1>5 DEF d

\* Publishing from a snapshot in which v is the draft. Either v is a draft still,
\* nothing was numbered since, and it gets the next number; or a request that
\* overlapped has published it, under that same number, and its row stays as it is.
LEMMA PublishIsSound ==
    ASSUME RowsSound(db), NEW s, RowsSound(s), Follows(s, db), NEW w \in Workflows, HasDraft(s, w),
           NEW reg \in SUBSET RegistrationRow, NEW sched \in SUBSET ScheduleRow,
           \A x \in reg \cup sched : RowsExist(db, x.rows)
    PROVE  LET v == DraftId(s, w)
               no == NextVersionNo(s, w)
               d == Promoted(w, v, no)
               e == WithTriggers(d, reg, sched)
           IN  /\ RowsSound(e) /\ Follows(db, e)
               /\ v \in Drafts(s, w) /\ InUse(db, v) /\ db.ver[v].wf = w
               /\ e.reg = reg /\ e.sched = sched /\ Promotes(db, e, w, v) /\ e.ver[v].no = no
<1> DEFINE v == DraftId(s, w)
           no == NextVersionNo(s, w)
           d == Promoted(w, v, no)
           e == WithTriggers(d, reg, sched)
           R == [wf : Workflows \cup {None}, status : {"UNUSED", "DRAFT", "PUBLISHED"},
                 no : Nat, rev : Nat, graph : Graph]
           r == [db.ver[v] EXCEPT !.status = "PUBLISHED", !.no = no]
<1>1. v \in Drafts(s, w)
  BY DraftFound
<1>2. v \in VersionIds /\ InUse(s, v) /\ s.ver[v].wf = w /\ s.ver[v].status = "DRAFT"
  BY <1>1 DEF Drafts, VersionsOf, InUse
<1>3. VersionFollows(s, db, v) /\ InUse(db, v) /\ db.ver[v].wf = w
  BY <1>2 DEF Follows, VersionFollows
<1>4. PICK n \in Nat : Numbers(s, w) = 1 .. n
  BY DEF RowsSound, NumbersCount
<1>5. no = n + 1
  BY <1>4, NextNumber
<1>6. db.ver[v] \in VersionRow
  BY <1>2 DEF RowsSound, Database
<1>7. db.ver[v] \in R /\ db.ver[v].status \in {"DRAFT", "PUBLISHED"} /\ db.wf[w] \in WorkflowRow
  BY <1>3, <1>6, VersionRows DEF InUse, RowsSound, Database
<1> HIDE DEF v, no
<1>8. r \in VersionRow
  <2>1. db.ver[v].status # "UNUSED" /\ no \in Nat \ {0}
    BY <1>3, <1>5 DEF InUse
  <2> QED  BY <1>6, <2>1, VersionWrites
<1>9. /\ r.status = "PUBLISHED" /\ r.wf = w /\ r.no = no
      /\ r.rev = db.ver[v].rev /\ r.graph = db.ver[v].graph
  BY <1>3, <1>7
<1>10. /\ d.ver = [db.ver EXCEPT ![v] = r] /\ d.wf = [db.wf EXCEPT ![w].active = v]
       /\ d.reg = db.reg /\ d.sched = db.sched /\ DOMAIN d = {"wf", "ver", "reg", "sched"}
       /\ d \in [wf : [Workflows -> WorkflowRow], ver : [VersionIds -> VersionRow],
                 reg : SUBSET RegistrationRow, sched : SUBSET ScheduleRow]
  <2>1. db.ver[v] \in R /\ db \in Database /\ v \in VersionIds /\ r \in VersionRow
    BY <1>2, <1>7, <1>8 DEF RowsSound
  <2>2. [db.wf[w] EXCEPT !.active = v] \in WorkflowRow
    BY <1>2, <1>7 DEF WorkflowRow
  <2>3. d.ver = [db.ver EXCEPT ![v] = r]
    BY <2>1 DEF Database, Promoted
  <2>4. d.wf = [db.wf EXCEPT ![w] = [db.wf[w] EXCEPT !.active = v]]
    BY <2>1 DEF Database, Promoted
  <2> HIDE DEF r
  <2>5. d.ver \in [VersionIds -> VersionRow] /\ d.wf \in [Workflows -> WorkflowRow]
    BY <2>1, <2>2, <2>3, <2>4 DEF Database
  <2>6. d.reg = db.reg /\ d.sched = db.sched /\ DOMAIN d = {"wf", "ver", "reg", "sched"}
    BY <2>1 DEF Database, Promoted
  <2> DEFINE V == [db.ver EXCEPT ![v].status = "PUBLISHED", ![v].no = no]
             W == [db.wf EXCEPT ![w].active = v]
  <2>7. d = [db EXCEPT !.ver = V, !.wf = W]
    BY <2>1 DEF Database, Promoted
  <2>8. V = d.ver /\ W = d.wf
    BY <2>1, <2>7 DEF Database
  <2>9. [db EXCEPT !.ver = V, !.wf = W] \in Database
    <3> HIDE DEF d, V, W
    <3> QED  BY <2>1, <2>5, <2>8 DEF Database
  <2> QED  BY <2>3, <2>4, <2>6, <2>7, <2>9 DEF Database
<1> HIDE DEF d, r
<1>11. /\ e \in Database /\ e.ver = d.ver /\ e.wf = d.wf /\ e.reg = reg /\ e.sched = sched
  BY <1>10 DEF Database, WithTriggers
<1>12. /\ e.ver[v] = r /\ \A u \in VersionIds \ {v} : e.ver[u] = db.ver[u]
       /\ \A u \in VersionIds : e.ver[u].graph = db.ver[u].graph
  BY <1>2, <1>9, <1>10, <1>11 DEF RowsSound, Database
<1> HIDE DEF e, R
<1>14. v \in PublishedOf(e, w)
  BY <1>2, <1>9, <1>12 DEF PublishedOf, VersionsOf, IsPublished
<1>15. ASSUME db.ver[v].status = "PUBLISHED"
       PROVE  /\ Follows(db, e) /\ NumbersCount(e) /\ OneDraft(e)
              /\ \A x \in Workflows : PublishedOf(db, x) \subseteq PublishedOf(e, x)
  \* A request that overlapped came first.
  <2>1. db.ver[v].no = no
    BY <1>2, <1>3, <1>15 DEF VersionFollows, IsPublished, no
  <2>2. r = db.ver[v]
    BY <1>7, <1>15, <2>1 DEF R, r
  <2>3. \A u \in VersionIds : e.ver[u] = db.ver[u]
    BY <1>12, <2>2
  <2>4. NumbersCount(e) /\ \A x \in Workflows : PublishedOf(e, x) = PublishedOf(db, x)
    BY <1>2, <2>3, NothingNumbered DEF RowsSound
  <2>5. Follows(db, db)
    BY FollowsItself DEF RowsSound
  <2>6. \A x : Numbers(e, x) = Numbers(db, x)
    BY <2>3 DEF Numbers, VersionsOf, IsPublished
  <2>7. Follows(db, e)
    BY <2>3, <2>5, <2>6 DEF Follows, VersionFollows, InUse, IsPublished
  <2>8. OneDraft(e)
    BY <2>3 DEF RowsSound, OneDraft, Drafts, VersionsOf
  <2> QED  BY <2>4, <2>7, <2>8
<1>16. ASSUME db.ver[v].status = "DRAFT"
       PROVE  /\ Follows(db, e) /\ NumbersCount(e) /\ OneDraft(e)
              /\ \A x \in Workflows : PublishedOf(db, x) \subseteq PublishedOf(e, x)
  \* It was a draft all along, so its number is the next one still.
  <2>1. Numbers(db, w) = 1 .. n
    BY <1>2, <1>3, <1>4, <1>16 DEF VersionFollows
  <2>2. PublishedOf(e, w) = PublishedOf(db, w) \cup {v} /\ v \notin PublishedOf(db, w)
    BY <1>2, <1>12, <1>14, <1>16 DEF PublishedOf, VersionsOf, IsPublished
  <2>3. \A x \in Workflows \ {w} : PublishedOf(e, x) = PublishedOf(db, x)
    BY <1>2, <1>3, <1>9, <1>12, <1>16 DEF PublishedOf, VersionsOf, IsPublished
  <2>4. \A x \in Workflows : \A u \in PublishedOf(db, x) : u # v /\ e.ver[u] = db.ver[u]
    BY <1>12, <1>16 DEF PublishedOf, VersionsOf, IsPublished
  <2>5. e.ver[v].no = n + 1
    BY <1>5, <1>9, <1>12
  <2>6. \A u \in PublishedOf(db, w) : db.ver[u].no \in 1 .. n
    BY <2>1 DEF Numbers, PublishedOf
  <2>7. Numbers(e, w) = 1 .. (n + 1)
    <3>1. Numbers(e, w) = Numbers(db, w) \cup {n + 1}
      BY <2>2, <2>4, <2>5 DEF Numbers, PublishedOf
    <3> QED  BY <2>1, <3>1
  <2>8. \A x \in Workflows \ {w} : Numbers(e, x) = Numbers(db, x)
    BY <2>3, <2>4, SameNumbers
  <2>9. NumbersCount(e)
    <3>1. ASSUME NEW x \in Workflows
          PROVE  /\ \E k \in Nat : Numbers(e, x) = 1 .. k
                 /\ \A u, q \in PublishedOf(e, x) : e.ver[u].no = e.ver[q].no => u = q
      <4>1. CASE x = w
        <5>1. \E k \in Nat : Numbers(e, x) = 1 .. k
          BY <2>7, <4>1
        <5>2. ASSUME NEW u \in PublishedOf(e, x), NEW q \in PublishedOf(e, x),
                     e.ver[u].no = e.ver[q].no
              PROVE  u = q
          <6>1. CASE u = v
            BY <2>2, <2>4, <2>5, <2>6, <4>1, <5>2, <6>1
          <6>2. CASE q = v
            BY <2>2, <2>4, <2>5, <2>6, <4>1, <5>2, <6>2
          <6>3. CASE u # v /\ q # v
            <7>1. u \in PublishedOf(db, w) /\ q \in PublishedOf(db, w)
              BY <2>2, <4>1, <6>3
            <7> QED  BY <2>4, <5>2, <7>1 DEF RowsSound, NumbersCount
          <6> QED  BY <6>1, <6>2, <6>3
        <5> QED  BY <5>1, <5>2
      <4>2. CASE x # w
        BY <2>3, <2>4, <2>8, <4>2 DEF RowsSound, NumbersCount
      <4> QED  BY <4>1, <4>2
    <3> QED  BY <3>1 DEF NumbersCount
  <2>10. \A u \in VersionIds : InUse(db, u) /\ db.ver[u].wf = w /\ db.ver[u].status = "DRAFT" => u = v
    BY <1>2, <1>3, <1>16 DEF RowsSound, OneDraft, Drafts, VersionsOf, InUse
  <2>11. OneDraft(e)
    BY <1>9, <1>12 DEF RowsSound, OneDraft, Drafts, VersionsOf
  <2>12. Follows(db, e)
    <3>1. ASSUME NEW u \in VersionIds, InUse(db, u)
          PROVE  VersionFollows(db, e, u)
      <4>1. db.ver[u].rev \in Nat /\ db.ver[u].wf \in Workflows
            /\ db.ver[u].status \in {"DRAFT", "PUBLISHED"}
        <5>1. db.ver[u] \in VersionRow
          BY DEF RowsSound, Database
        <5> QED  BY <3>1, <5>1, VersionRows DEF InUse
      <4>2. CASE u = v
        <5>1. NextVersionNo(db, w) = n + 1
          BY <2>1, NextNumber
        <5> QED  BY <1>3, <1>9, <1>12, <1>16, <2>5, <4>1, <4>2, <5>1
                 DEF VersionFollows, InUse, IsPublished
      <4>3. CASE u # v
        <5>1. db.ver[u].status = "DRAFT" => Numbers(e, db.ver[u].wf) = Numbers(db, db.ver[u].wf)
          BY <2>8, <2>10, <3>1, <4>1, <4>3
        <5> QED  BY <1>12, <3>1, <4>1, <4>3, <5>1 DEF VersionFollows, InUse, IsPublished
      <4> QED  BY <4>2, <4>3
    <3> QED  BY <3>1 DEF Follows
  <2> QED  BY <2>2, <2>3, <2>9, <2>11, <2>12
<1>17. /\ Follows(db, e) /\ NumbersCount(e) /\ OneDraft(e)
       /\ \A x \in Workflows : PublishedOf(db, x) \subseteq PublishedOf(e, x)
  BY <1>7, <1>15, <1>16
<1>18. \A x \in Workflows : e.wf[x].name = db.wf[x].name /\ e.wf[x].deleted = db.wf[x].deleted
                           /\ e.wf[x].active = IF x = w THEN v ELSE db.wf[x].active
  <2>1. db.wf \in [Workflows -> WorkflowRow] /\ e.wf = [db.wf EXCEPT ![w].active = v]
    BY <1>10, <1>11 DEF RowsSound, Database
  <2> QED  BY <2>1 DEF WorkflowRow
<1>19. Distinct(e)
  BY <1>18 DEF RowsSound, Distinct, Live, Exists
<1>20. Resolves(e)
  <2>1. \A x \in Workflows : e.wf[x].active # None => e.wf[x].active \in PublishedOf(e, x)
    BY <1>14, <1>17, <1>18 DEF RowsSound, Resolves
  <2>2. \A q : RowsExist(e, q) <=> RowsExist(db, q)
    BY <1>12 DEF RowsExist
  <2> QED  BY <1>11, <2>1, <2>2 DEF Resolves
<1>21. Promotes(db, e, w, v)
  <2>1. /\ e.wf[w].active = v /\ \A x \in Workflows \ {w} : e.wf[x].active = db.wf[x].active
        /\ e.ver[v].wf = w /\ IsPublished(e, v)
    BY <1>9, <1>12, <1>18 DEF IsPublished
  <2> QED  BY <1>12, <2>1 DEF Promotes
<1> QED  BY <1>1, <1>3, <1>9, <1>10, <1>11, <1>12, <1>17, <1>19, <1>20, <1>21
         DEF RowsSound, v, no, d, e


\* A workflow's own row never touches versions or triggers. Its name is free when
\* it is written, if it shows.
LEMMA WorkflowRowWritten ==
    ASSUME RowsSound(db), NEW w \in Workflows, NEW r \in WorkflowRow,
           r.active \in {None, db.wf[w].active},
           r.name # NoName /\ ~ r.deleted => IndexAllows(w, r.name)
    PROVE  LET d == [db EXCEPT !.wf[w] = r]
           IN  /\ RowsSound(d) /\ Follows(db, d)
               /\ d.ver = db.ver /\ d.reg = db.reg /\ d.sched = db.sched
               /\ d.wf[w] = r /\ \A u \in Workflows \ {w} : d.wf[u] = db.wf[u]
<1> DEFINE d == [db EXCEPT !.wf[w] = r]
<1>1. /\ d \in Database /\ d.ver = db.ver /\ d.reg = db.reg /\ d.sched = db.sched
      /\ d.wf[w] = r /\ \A u \in Workflows \ {w} : d.wf[u] = db.wf[u]
  BY DEF RowsSound, Database
<1> HIDE DEF d
<1>2. \A x : /\ Numbers(d, x) = Numbers(db, x) /\ PublishedOf(d, x) = PublishedOf(db, x)
             /\ Drafts(d, x) = Drafts(db, x)
  BY <1>1 DEF Numbers, PublishedOf, Drafts, VersionsOf, IsPublished
<1>3. Follows(db, d)
  <2>1. Follows(db, db)
    BY FollowsItself DEF RowsSound
  <2> QED  BY <1>1, <1>2, <2>1 DEF Follows, VersionFollows, InUse, IsPublished
<1>4. Distinct(d)
  <2>1. ASSUME NEW u \in Workflows, NEW x \in Workflows, u # x, Live(d, u), Live(d, x)
        PROVE  d.wf[u].name # d.wf[x].name
    <3>1. \A y \in Workflows \ {w} : Live(d, y) => Live(db, y)
      BY <1>1 DEF Live, Exists
    <3>2. Live(d, w) => IndexAllows(w, r.name)
      BY <1>1 DEF Live, Exists
    <3> QED  BY <1>1, <2>1, <3>1, <3>2 DEF IndexAllows, RowsSound, Distinct
  <2> QED  BY <2>1 DEF Distinct
<1>5. Resolves(d)
  BY <1>1, <1>2 DEF RowsSound, Resolves, RowsExist
<1>6. NumbersCount(d) /\ OneDraft(d)
  BY <1>1, <1>2 DEF RowsSound, NumbersCount, OneDraft
<1> QED  BY <1>1, <1>3, <1>4, <1>5, <1>6 DEF RowsSound, d

\* What _register_webhook_trigger may make of the table, g being the nodes that the
\* transaction has read and existing the addresses.
Addresses(c, d, g, existing, reg) ==
    \/ g.trigger # "webhook" /\ reg = d.reg
    \/ /\ g.trigger = "webhook" /\ RowsExist(d, g.rows) /\ existing = {}
       /\ reg = d.reg \cup {[token |-> <<g.rows, c>>, rows |-> g.rows]}
    \/ /\ g.trigger = "webhook" /\ RowsExist(d, g.rows)
       /\ \E x \in d.reg : x.token \in existing /\ reg = (d.reg \ {x}) \cup {Repointed(x, g.rows, c)}

LEMMA WebhookTable ==
    ASSUME NEW c \in Clients, NEW d, NEW reg \in WebhookOutcomes(c, d)
    PROVE  Addresses(c, d, tx[c].db.ver[DraftId(tx[c].db, tx[c].wf)].graph,
                     {x.token : x \in RegistrationsOf(tx[c].db, tx[c].wf)}, reg)
<1> DEFINE h == tx[c].db.ver[DraftId(tx[c].db, tx[c].wf)].graph
           old == {x.token : x \in RegistrationsOf(tx[c].db, tx[c].wf)}
<1>0. \/ h.trigger # "webhook" /\ reg = d.reg
      \/ /\ h.trigger = "webhook" /\ RowsExist(d, h.rows) /\ old = {}
         /\ reg = d.reg \cup {[token |-> <<h.rows, c>>, rows |-> h.rows]}
      \/ /\ h.trigger = "webhook" /\ RowsExist(d, h.rows)
         /\ \E x \in d.reg : /\ x.token \in old
                             /\ reg = (d.reg \ {x}) \cup {Repointed(x, h.rows, c)}
  <2>1. CASE h.trigger # "webhook"
    BY <2>1 DEF WebhookOutcomes
  <2>2. CASE h.trigger = "webhook" /\ ~ RowsExist(d, h.rows)
    BY <2>2 DEF WebhookOutcomes
  <2>3. CASE h.trigger = "webhook" /\ RowsExist(d, h.rows)
    <3>1. WebhookOutcomes(c, d)
            = IF old = {} THEN {d.reg \cup {[token |-> <<h.rows, c>>, rows |-> h.rows]}}
              ELSE {(d.reg \ {x}) \cup {Repointed(x, h.rows, c)} :
                      x \in {y \in d.reg : y.token \in old}}
      BY <2>3 DEF WebhookOutcomes
    <3> HIDE DEF h, old
    <3>2. CASE old = {}
      <4>1. reg = d.reg \cup {[token |-> <<h.rows, c>>, rows |-> h.rows]}
        BY <3>1, <3>2
      <4> QED  BY <2>3, <3>2, <4>1
    <3>3. CASE old # {}
      <4>1. \E x \in d.reg : x.token \in old /\ reg = (d.reg \ {x}) \cup {Repointed(x, h.rows, c)}
        BY <3>1, <3>3
      <4> QED  BY <2>3, <4>1
    <3> QED  BY <3>2, <3>3
  <2> QED  BY <2>1, <2>2, <2>3
<1> SUFFICES Addresses(c, d, h, old, reg)
  OBVIOUS
<1> HIDE DEF h, old
<1> QED  BY <1>0 DEF Addresses

\* They are rows that fire something that exists.
LEMMA WebhooksResolve ==
    ASSUME NEW c \in Clients, NEW d, d.reg \in SUBSET RegistrationRow,
           \A x \in d.reg : RowsExist(d, x.rows),
           tx[c].db.ver[DraftId(tx[c].db, tx[c].wf)].graph \in Graph,
           NEW reg \in WebhookOutcomes(c, d)
    PROVE  reg \in SUBSET RegistrationRow /\ \A x \in reg : RowsExist(d, x.rows)
<1> DEFINE g == tx[c].db.ver[DraftId(tx[c].db, tx[c].wf)].graph
           existing == {x.token : x \in RegistrationsOf(tx[c].db, tx[c].wf)}
           new == [token |-> <<g.rows, c>>, rows |-> g.rows]
<1>1. g.rows \in 0 .. MaxRows
  BY DEF Graph
<1>2. new \in RegistrationRow /\ new.rows = g.rows
  BY <1>1 DEF RegistrationRow
<1>3. \A x \in d.reg : Repointed(x, g.rows, c) \in RegistrationRow /\ Repointed(x, g.rows, c).rows = g.rows
  <2>1. \A x \in RegistrationRow : [x EXCEPT !.rows = g.rows] \in RegistrationRow
                                   /\ [x EXCEPT !.rows = g.rows].rows = g.rows
    <3> HIDE DEF g
    <3> QED  BY <1>1 DEF RegistrationRow
  <2> QED  BY <2>1 DEF Repointed
<1>4. Addresses(c, d, g, existing, reg)
  BY WebhookTable
<1> HIDE DEF existing, g
<1>5. \/ reg = d.reg
      \/ RowsExist(d, g.rows) /\ reg = d.reg \cup {new}
      \/ RowsExist(d, g.rows)
         /\ \E x \in d.reg : reg = (d.reg \ {x}) \cup {Repointed(x, g.rows, c)}
  BY <1>4 DEF Addresses
<1> HIDE DEF new
<1> QED  BY <1>2, <1>3, <1>5

\* What _register_schedule_trigger may make of its table.
DueTimes(c, d, g, existing, sched) ==
    LET Row(id, t) == [id |-> id, rows |-> g.rows, due |-> NextOccurrence(t)]
    IN  \/ g.trigger # "schedule" /\ sched = d.sched
        \/ /\ g.trigger = "schedule" /\ RowsExist(d, g.rows) /\ existing = {}
           /\ \E t \in tx[c].at .. now : sched = d.sched \cup {Row(<<g.rows, c>>, t)}
        \/ /\ g.trigger = "schedule" /\ RowsExist(d, g.rows)
           /\ \E x \in d.sched, t \in tx[c].at .. now :
                x.id \in existing /\ sched = (d.sched \ {x}) \cup {Row(x.id, t)}

LEMMA ScheduleTable ==
    ASSUME NEW c \in Clients, NEW d, NEW sched \in ScheduleOutcomes(c, d)
    PROVE  DueTimes(c, d, tx[c].db.ver[DraftId(tx[c].db, tx[c].wf)].graph,
                    {x.id : x \in SchedulesOf(tx[c].db, tx[c].wf)}, sched)
<1> DEFINE h == tx[c].db.ver[DraftId(tx[c].db, tx[c].wf)].graph
           old == {x.id : x \in SchedulesOf(tx[c].db, tx[c].wf)}
           At(id) == {[id |-> id, rows |-> h.rows, due |-> NextOccurrence(t)] : t \in tx[c].at .. now}
           Free(others) == \A x \in others : x.rows # h.rows
<1>0. \/ h.trigger # "schedule" /\ sched = d.sched
      \/ /\ h.trigger = "schedule" /\ RowsExist(d, h.rows) /\ old = {}
         /\ \E new \in At(<<h.rows, c>>) : sched = d.sched \cup {new}
      \/ /\ h.trigger = "schedule" /\ RowsExist(d, h.rows)
         /\ \E x \in d.sched : \E new \in At(x.id) :
              x.id \in old /\ sched = (d.sched \ {x}) \cup {new}
  <2>1. CASE h.trigger # "schedule"
    BY <2>1 DEF ScheduleOutcomes
  <2>2. CASE h.trigger = "schedule" /\ ~ RowsExist(d, h.rows)
    BY <2>2 DEF ScheduleOutcomes
  <2>3. CASE h.trigger = "schedule" /\ RowsExist(d, h.rows) /\ old = {}
    <3>1. sched \in {d.sched \cup {new} : new \in {x \in At(<<h.rows, c>>) : Free(d.sched)}}
      BY <2>3 DEF ScheduleOutcomes
    <3>2. \E new \in At(<<h.rows, c>>) : sched = d.sched \cup {new}
      <4> HIDE DEF At, Free
      <4> QED  BY <3>1
    <3> QED  BY <2>3, <3>2
  <2>4. CASE h.trigger = "schedule" /\ RowsExist(d, h.rows) /\ old # {}
    <3>1. sched \in UNION {{(d.sched \ {x}) \cup {new} : new \in At(x.id)} :
                          x \in {y \in d.sched : y.id \in old /\ Free(d.sched \ {y})}}
      BY <2>4 DEF ScheduleOutcomes
    <3>2. PICK x \in d.sched : /\ x.id \in old
                               /\ sched \in {(d.sched \ {x}) \cup {new} : new \in At(x.id)}
      <4> HIDE DEF At, Free
      <4> QED  BY <3>1
    <3>3. \E new \in At(x.id) : sched = (d.sched \ {x}) \cup {new}
      <4> HIDE DEF At
      <4> QED  BY <3>2
    <3> QED  BY <2>4, <3>2, <3>3
  <2> QED  BY <2>1, <2>2, <2>3, <2>4
<1> SUFFICES DueTimes(c, d, h, old, sched)
  OBVIOUS
<1> HIDE DEF h, old
<1> QED  BY <1>0 DEF DueTimes

LEMMA SchedulesResolve ==
    ASSUME NEW c \in Clients, NEW d, d.sched \in SUBSET ScheduleRow,
           \A x \in d.sched : RowsExist(d, x.rows),
           tx[c].db.ver[DraftId(tx[c].db, tx[c].wf)].graph \in Graph, tx[c].at \in Nat,
           now \in Nat, DueSoon(d, now), NEW sched \in ScheduleOutcomes(c, d)
    PROVE  /\ sched \in SUBSET ScheduleRow
           /\ \A x \in sched : RowsExist(d, x.rows) /\ x.due <= now + 1
<1> DEFINE g == tx[c].db.ver[DraftId(tx[c].db, tx[c].wf)].graph
           existing == {x.id : x \in SchedulesOf(tx[c].db, tx[c].wf)}
           Row(id, t) == [id |-> id, rows |-> g.rows, due |-> NextOccurrence(t)]
<1>1. g.rows \in 0 .. MaxRows
  BY DEF Graph
<1>2. \A id \in (0 .. MaxRows) \X Clients : \A t \in tx[c].at .. now :
        Row(id, t) \in ScheduleRow /\ Row(id, t).rows = g.rows /\ Row(id, t).due <= now + 1
  <2> HIDE DEF g
  <2> QED  BY <1>1 DEF ScheduleRow, NextOccurrence
<1>3. <<g.rows, c>> \in (0 .. MaxRows) \X Clients /\ \A x \in d.sched : x.id \in (0 .. MaxRows) \X Clients
  BY <1>1 DEF ScheduleRow
<1>4. DueTimes(c, d, g, existing, sched)
  BY ScheduleTable
<1> HIDE DEF existing, g
<1>5. \/ sched = d.sched
      \/ /\ RowsExist(d, g.rows)
         /\ \E t \in tx[c].at .. now : sched = d.sched \cup {Row(<<g.rows, c>>, t)}
      \/ /\ RowsExist(d, g.rows)
         /\ \E x \in d.sched, t \in tx[c].at .. now : sched = (d.sched \ {x}) \cup {Row(x.id, t)}
  BY <1>4 DEF DueTimes
<1> HIDE DEF Row
<1> QED  BY <1>2, <1>3, <1>5 DEF DueSoon


-----------------------------------------------------------------------------
(* The inductive invariant *)

\* An open transaction's snapshot was the database once, and the rows follow it.
TxIsSound(t) ==
    \/ t = NoTx
    \/ /\ t.op \in Operations /\ t.wf \in Workflows /\ t.trigger \in Triggers /\ t.at \in Nat
       /\ t.op \in {"create", "rename"} => t.name \in Names
       /\ RowsSound(t.db) /\ Follows(t.db, db)

\* So do they what a client last received.
ViewIsSound(x) ==
    /\ x.ver \in VersionIds \cup {None}
    /\ x.ver # None =>
         /\ x.rev \in Nat /\ InUse(db, x.ver) /\ db.ver[x.ver].rev >= x.rev
         /\ db.ver[x.ver].rev = x.rev => db.ver[x.ver].graph.content = x.content

AInv ==
    /\ RowsSound(db)
    /\ rows \in 0 .. MaxRows /\ now \in 0 .. MaxTime /\ DueSoon(db, now)
    /\ DOMAIN tx = Clients /\ \A c \in Clients : TxIsSound(tx[c])
    /\ DOMAIN view = Clients /\ \A c \in Clients : ViewIsSound(view[c])

LEMMA AInvInit == ASSUME AuthoringInit PROVE AInv
<1> DEFINE row == [name |-> NoName, deleted |-> FALSE, active |-> None]
<1>1. /\ db.wf = [w \in Workflows |-> row] /\ db.ver = [v \in VersionIds |-> Unused]
      /\ db.reg = {} /\ db.sched = {}
      /\ db = [wf |-> [w \in Workflows |-> row], ver |-> [v \in VersionIds |-> Unused],
               reg |-> {}, sched |-> {}]
  BY DEF AuthoringInit
<1>2. row \in WorkflowRow /\ Unused \in VersionRow
  BY DEF WorkflowRow, VersionRow
<1>3. db \in Database
  BY <1>1, <1>2 DEF Database
<1>4. \A v \in VersionIds : db.ver[v].status = "UNUSED"
  BY <1>1 DEF Unused
<1>5. \A w \in Workflows : VersionsOf(db, w) = {} /\ ~ Live(db, w) /\ db.wf[w].active = None
  BY <1>1, <1>4 DEF VersionsOf, Live, Exists
<1>6. \A w \in Workflows : PublishedOf(db, w) = {} /\ Drafts(db, w) = {} /\ Numbers(db, w) = {}
  BY <1>5 DEF PublishedOf, Drafts, Numbers
<1>7. {} = 1 .. 0
  OBVIOUS
<1>8. NumbersCount(db)
  BY <1>6, <1>7 DEF NumbersCount
<1>9. RowsSound(db)
  BY <1>1, <1>3, <1>5, <1>6, <1>8 DEF RowsSound, OneDraft, Distinct, Resolves
<1> QED  BY <1>9, AuthoringAssumption DEF AuthoringInit, AInv, TxIsSound, ViewIsSound, NoView, DueSoon

\* A transaction ends, having taken the rows to some that follow them.
LEMMA Carried ==
    ASSUME AInv, RowsSound(db'), Follows(db, db'), rows' \in 0 .. MaxRows, now' \in 0 .. MaxTime,
           DueSoon(db', now'), NEW c, tx' = [tx EXCEPT ![c] = NoTx] \/ tx' = tx,
           DOMAIN view' = Clients,
           \A b \in Clients : view'[b] = view[b] \/ ViewIsSound(view[b])'
    PROVE  AInv'
<1>1. ASSUME NEW b \in Clients
      PROVE  TxIsSound(tx[b])'
  <2>1. tx'[b] = NoTx \/ tx'[b] = tx[b]
    BY DEF AInv
  <2>2. ASSUME tx'[b] = tx[b], tx[b] # NoTx
        PROVE  Follows(tx[b].db, db')
    <3>1. RowsSound(tx[b].db) /\ Follows(tx[b].db, db)
      BY <2>2 DEF AInv, TxIsSound
    <3> QED  BY <3>1, FollowsOn DEF RowsSound, AInv
  <2>3. TxIsSound(tx[b])
    BY DEF AInv
  <2> QED  BY <2>1, <2>2, <2>3 DEF TxIsSound
<1>2. ASSUME NEW b \in Clients, view'[b] = view[b]
      PROVE  ViewIsSound(view[b])'
  <2>1. ViewIsSound(view[b])
    BY DEF AInv
  <2>2. ASSUME view[b].ver # None
        PROVE  /\ InUse(db', view[b].ver) /\ db'.ver[view[b].ver].rev >= view[b].rev
               /\ db'.ver[view[b].ver].rev = view[b].rev =>
                    db'.ver[view[b].ver].graph.content = view[b].content
    <3> DEFINE v == view[b].ver
    <3>1. VersionFollows(db, db', v) /\ v \in VersionIds
      BY <2>1, <2>2 DEF ViewIsSound, Follows
    <3>2. db.ver[v] \in VersionRow /\ db'.ver[v] \in VersionRow
      BY <3>1 DEF AInv, RowsSound, Database
    <3>3. db.ver[v].rev \in Nat /\ db'.ver[v].rev \in Nat
      BY <3>2, VersionRows
    <3>4. /\ InUse(db, v) /\ db.ver[v].rev >= view[b].rev /\ view[b].rev \in Nat
          /\ db.ver[v].rev = view[b].rev => db.ver[v].graph.content = view[b].content
      BY <2>1, <2>2 DEF ViewIsSound
    <3>5. /\ InUse(db', v) /\ db'.ver[v].rev >= db.ver[v].rev
          /\ db'.ver[v].rev = db.ver[v].rev => db'.ver[v].graph.content = db.ver[v].graph.content
      BY <3>1, <3>4 DEF VersionFollows
    <3> HIDE DEF v
    <3>6. /\ InUse(db', v) /\ db'.ver[v].rev >= view[b].rev
          /\ db'.ver[v].rev = view[b].rev => db'.ver[v].graph.content = view[b].content
      BY <3>3, <3>4, <3>5
    <3> QED  BY <3>6 DEF v
  <2> QED  BY <1>2, <2>1, <2>2 DEF ViewIsSound
<1>3. DOMAIN tx' = Clients
  BY DEF AInv
<1> QED  BY <1>1, <1>2, <1>3 DEF AInv

LEMMA BeginKeeps ==
    ASSUME AInv, NEW c \in Clients, AnyRequest(c)
    PROVE  AInv' /\ Follows(db, db')
<1>1. PICK op \in Operations, w \in Workflows, n \in Names \cup {NoName}, t \in Triggers :
        /\ op \in {"create", "rename"} => n \in Names
        /\ Begin(c, op, w, n, t)
  <2>1. "none" \in Triggers /\ TriggersUsed \subseteq Triggers
    BY AuthoringAssumption DEF Triggers
  <2>2. PICK w \in Workflows :
          \/ \E op \in {"create", "rename"}, n \in Names : Begin(c, op, w, n, "none")
          \/ \E op \in {"delete", "open", "validate", "publish"} : Begin(c, op, w, NoName, "none")
          \/ \E t \in TriggersUsed : Begin(c, "save", w, NoName, t)
    BY DEF AnyRequest
  <2>3. \A op, n, t : Begin(c, op, w, n, t) => op \in Operations
    BY DEF Begin
  <2>4. CASE \E op \in {"create", "rename"}, n \in Names : Begin(c, op, w, n, "none")
    BY <2>1, <2>3, <2>4
  <2>5. CASE \E op \in {"delete", "open", "validate", "publish"} : Begin(c, op, w, NoName, "none")
    BY <2>1, <2>3, <2>5
  <2>6. CASE \E t \in TriggersUsed : Begin(c, "save", w, NoName, t)
    BY <2>1, <2>3, <2>6
  <2> QED  BY <2>2, <2>4, <2>5, <2>6
<1> DEFINE new == [op |-> op, wf |-> w, name |-> n, trigger |-> t, at |-> now, db |-> db]
<1>2. tx' = [tx EXCEPT ![c] = new] /\ UNCHANGED <<db, rows, view, last, now>>
  BY <1>1 DEF Begin
<1>3. TxIsSound(new)
  <2>1. Follows(db, db)
    BY FollowsItself DEF AInv, RowsSound
  <2> QED  BY <1>1, <2>1 DEF AInv, TxIsSound
<1>4. \A b \in Clients : TxIsSound(tx'[b])
  <2> HIDE DEF new
  <2> QED  BY <1>2, <1>3 DEF AInv
<1>5. Follows(db, db')
  BY <1>2, FollowsItself DEF AInv, RowsSound
<1> QED  BY <1>2, <1>4, <1>5 DEF AInv, TxIsSound, ViewIsSound

LEMMA NamesKeep ==
    ASSUME AInv, NEW c \in Clients, Create(c) \/ UpdateMetadata(c) \/ SoftDelete(c)
    PROVE  /\ AInv' /\ Follows(db, db') /\ db'.ver = db.ver /\ db'.reg = db.reg /\ db'.sched = db.sched
           /\ \A w \in Workflows : db'.wf[w].active \in {None, db.wf[w].active}
<1> DEFINE w == tx[c].wf
           n == tx[c].name
<1>1. /\ tx[c] # NoTx /\ Ends(c) /\ UNCHANGED <<rows, view, last, now>>
      /\ tx[c].op \in {"create", "rename", "delete"}
  <2>1. /\ tx[c].op \in {"create", "rename", "delete"}
        /\ Ends(c) /\ UNCHANGED <<rows, view, last, now>>
    <3>1. CASE Create(c)
      BY <3>1 DEF Create, Committing
    <3>2. CASE UpdateMetadata(c)
      BY <3>2 DEF UpdateMetadata, Committing
    <3>3. CASE SoftDelete(c)
      BY <3>3 DEF SoftDelete, Committing
    <3> QED  BY <3>1, <3>2, <3>3
  <2> QED  BY <2>1 DEF NoTx
<1>2. /\ w \in Workflows /\ (tx[c].op \in {"create", "rename"} => n \in Names)
      /\ db.wf[w] \in WorkflowRow /\ db \in Database
  BY <1>1 DEF AInv, TxIsSound, RowsSound, Database
<1>3. \E r \in WorkflowRow :
        /\ db' = [db EXCEPT !.wf[w] = r] /\ r.active \in {None, db.wf[w].active}
        /\ r.name # NoName /\ ~ r.deleted => IndexAllows(w, r.name)
  <2>1. CASE Create(c)
    <3> DEFINE r == [name |-> n, deleted |-> FALSE, active |-> None]
    <3>1. r \in WorkflowRow
      BY <1>2, <2>1 DEF WorkflowRow, Create, Committing
    <3> QED  BY <2>1, <3>1 DEF Create
  <2>2. CASE UpdateMetadata(c)
    <3> DEFINE r == [db.wf[w] EXCEPT !.name = n]
    <3>1. r \in WorkflowRow /\ r.active = db.wf[w].active /\ r.name = n /\ r.deleted = db.wf[w].deleted
      BY <1>2, <2>2 DEF WorkflowRow, UpdateMetadata, Committing
    <3>2. db' = [db EXCEPT !.wf[w] = r]
      BY <1>2, <2>2 DEF UpdateMetadata, Database
    <3> HIDE DEF r
    <3> QED  BY <2>2, <3>1, <3>2 DEF UpdateMetadata
  <2>3. CASE SoftDelete(c)
    <3> DEFINE r == [db.wf[w] EXCEPT !.deleted = TRUE]
    <3>1. r \in WorkflowRow /\ r.active = db.wf[w].active /\ r.deleted
      BY <1>2 DEF WorkflowRow
    <3>2. db' = [db EXCEPT !.wf[w] = r]
      BY <1>2, <2>3 DEF SoftDelete, Database
    <3> HIDE DEF r
    <3> QED  BY <3>1, <3>2
  <2> QED  BY <2>1, <2>2, <2>3
<1>4. PICK r \in WorkflowRow :
        /\ db' = [db EXCEPT !.wf[w] = r] /\ r.active \in {None, db.wf[w].active}
        /\ r.name # NoName /\ ~ r.deleted => IndexAllows(w, r.name)
  BY <1>3
<1> HIDE DEF w, n
<1>5. /\ RowsSound(db') /\ Follows(db, db')
      /\ db'.ver = db.ver /\ db'.reg = db.reg /\ db'.sched = db.sched
      /\ db'.wf[w] = r /\ \A u \in Workflows \ {w} : db'.wf[u] = db.wf[u]
  BY <1>2, <1>4, WorkflowRowWritten DEF AInv
<1>6. AInv'
  BY <1>1, <1>5, Carried DEF AInv, Ends, DueSoon
<1> QED  BY <1>4, <1>5, <1>6


\* What a use case on a draft may assume of its transaction.
LEMMA OpenTx ==
    ASSUME AInv, NEW c \in Clients, tx[c].op # "none"
    PROVE  /\ tx[c].wf \in Workflows /\ tx[c].trigger \in Triggers /\ tx[c].at \in Nat
           /\ RowsSound(tx[c].db) /\ Follows(tx[c].db, db)
           /\ tx[c].op \in {"create", "rename"} => tx[c].name \in Names
BY DEF AInv, TxIsSound, NoTx

LEMMA GetDraftKeeps ==
    ASSUME AInv, NEW c \in Clients, GetDraft(c)
    PROVE  AInv' /\ Follows(db, db')
<1> DEFINE s == tx[c].db
           w == tx[c].wf
           v == DraftId(s, w)
           d == Ensured(s, w)
           row == DraftRow(s, w)
           new == [ver |-> v, rev |-> row.rev, content |-> row.graph.content]
<1>1. /\ HasDraft(s, w) \/ CanCreateDraft(db, w)
      /\ db' = d /\ rows' = rows + Copies(s, w) /\ rows + Copies(s, w) <= MaxRows
      /\ view' = view \/ view' = [view EXCEPT ![c] = new]
      /\ Ends(c) /\ UNCHANGED now
  BY DEF GetDraft
<1>2. w \in Workflows /\ RowsSound(s) /\ Follows(s, db)
  BY OpenTx DEF GetDraft
<1> HIDE DEF s, w
<1>3. /\ RowsSound(d) /\ Follows(db, d) /\ v \in VersionIds /\ InUse(d, v) /\ d.sched = db.sched
      /\ row \in VersionRow /\ d.ver[v].rev >= row.rev
      /\ d.ver[v].rev = row.rev => d.ver[v].graph.content = row.graph.content
  BY <1>1, <1>2, EnsuredIsSound DEF AInv
<1>4. row.rev \in Nat
  BY <1>3, VersionRows
<1>5. rows' \in 0 .. MaxRows
  BY <1>1, AuthoringAssumption DEF AInv, Copies
<1> HIDE DEF v, d, row
<1>6. new.ver = v /\ new.rev = row.rev /\ new.content = row.graph.content
  OBVIOUS
<1> HIDE DEF new
<1>7. DOMAIN view' = Clients /\ \A b \in Clients : view'[b] = view[b] \/ view'[b] = new
  BY <1>1 DEF AInv
<1>8. ASSUME NEW b \in Clients, view'[b] = new  PROVE ViewIsSound(view[b])'
  BY <1>1, <1>3, <1>4, <1>6, <1>8 DEF ViewIsSound
<1>9. DueSoon(db', now')
  BY <1>1, <1>3 DEF AInv, DueSoon
<1> QED  BY <1>1, <1>3, <1>5, <1>7, <1>8, <1>9, Carried DEF AInv, Ends

LEMMA ReplaceDraftKeeps ==
    ASSUME AInv, NEW c \in Clients, ReplaceDraft(c)
    PROVE  AInv' /\ Follows(db, db')
<1> DEFINE s == tx[c].db
           w == tx[c].wf
           v == DraftId(s, w)
           d == Ensured(s, w)
           row == DraftRow(s, w)
           g == [rows |-> rows + 1, content |-> rows + 1, trigger |-> tx[c].trigger]
           e == Replaced(d, v, g, row.rev)
           new == [ver |-> v, rev |-> e.ver[v].rev, content |-> g.content]
<1>1. /\ HasDraft(s, w) \/ CanCreateDraft(db, w)
      /\ db' = e /\ rows < MaxRows /\ rows' = rows + 1
      /\ view' = [view EXCEPT ![c] = new]
      /\ Ends(c) /\ UNCHANGED now
  BY DEF ReplaceDraft
<1>2. w \in Workflows /\ RowsSound(s) /\ Follows(s, db) /\ tx[c].trigger \in Triggers
  BY OpenTx DEF ReplaceDraft, Committing
<1>3. g \in Graph
  <2>1. rows + 1 \in 0 .. MaxRows
    BY <1>1, AuthoringAssumption DEF AInv
  <2> DEFINE t == tx[c].trigger
  <2>2. t \in Triggers
    BY <1>2
  <2> HIDE DEF t
  <2>3. [rows |-> rows + 1, content |-> rows + 1, trigger |-> t] \in Graph
    BY <2>1, <2>2 DEF Graph
  <2> QED  BY <2>3 DEF t
<1> HIDE DEF s, w
<1>4. rows + Copies(s, w) <= MaxRows
  BY <1>1, AuthoringAssumption DEF AInv, Copies
<1>5. RowsSound(d) /\ Follows(db, d) /\ v \in VersionIds /\ InUse(d, v) /\ d.sched = db.sched
  BY <1>1, <1>2, <1>4, EnsuredIsSound DEF AInv
<1> HIDE DEF g, d, v, row
<1>6. /\ RowsSound(e) /\ Follows(d, e) /\ InUse(e, v) /\ e.ver[v].graph = g
      /\ e.sched \subseteq db.sched
  BY <1>3, <1>5, ReplacedIsSound
<1>7. Follows(db, e)
  BY <1>5, <1>6, FollowsOn DEF RowsSound, AInv
<1>8. e.ver[v].rev \in Nat
  <2>1. e.ver[v] \in VersionRow
    BY <1>5, <1>6 DEF RowsSound, Database
  <2> QED  BY <2>1, VersionRows
<1>9. new.ver = v /\ new.rev = e.ver[v].rev /\ new.content = g.content
  OBVIOUS
<1> HIDE DEF e, new
<1>10. rows' \in 0 .. MaxRows
  BY <1>1, AuthoringAssumption DEF AInv
<1>11. DOMAIN view' = Clients /\ \A b \in Clients : view'[b] = view[b] \/ view'[b] = new
  BY <1>1 DEF AInv
<1>12. ASSUME NEW b \in Clients, view'[b] = new  PROVE ViewIsSound(view[b])'
  BY <1>1, <1>5, <1>6, <1>8, <1>9, <1>12 DEF ViewIsSound
<1>13. DueSoon(db', now')
  BY <1>1, <1>6 DEF AInv, DueSoon
<1> QED  BY <1>1, <1>6, <1>7, <1>10, <1>11, <1>12, <1>13, Carried DEF AInv, Ends

LEMMA PublishKeeps ==
    ASSUME AInv, NEW c \in Clients, Publish(c)
    PROVE  AInv' /\ Follows(db, db')
<1> DEFINE s == tx[c].db
           w == tx[c].wf
           v == DraftId(s, w)
           no == NextVersionNo(s, w)
           d == Promoted(w, v, no)
<1>1. /\ HasDraft(s, w) /\ Ends(c) /\ UNCHANGED <<rows, view, last, now>>
      /\ \E reg \in WebhookOutcomes(c, d), sched \in ScheduleOutcomes(c, d) :
           db' = WithTriggers(d, reg, sched)
  BY DEF Publish, Promoted, WithTriggers
<1>2. PICK reg \in WebhookOutcomes(c, d), sched \in ScheduleOutcomes(c, d) :
        db' = WithTriggers(d, reg, sched)
  BY <1>1
<1>3. w \in Workflows /\ RowsSound(s) /\ Follows(s, db) /\ tx[c].at \in Nat
  BY OpenTx DEF Publish, Committing
<1>4. /\ d.reg = db.reg /\ d.sched = db.sched /\ v \in Drafts(s, w)
      /\ \A r : RowsExist(d, r) <=> RowsExist(db, r)
  <2>1. v \in Drafts(s, w)
    BY <1>1, DraftFound
  <2>2. v \in VersionIds
    BY <2>1 DEF Drafts, VersionsOf
  <2> HIDE DEF s, w, v, no
  <2> QED  BY <1>3, <2>1, <2>2, PromotedRows DEF AInv
<1>5. s.ver[v].graph \in Graph
  <2>1. s.ver[v] \in VersionRow
    BY <1>3, <1>4 DEF Drafts, VersionsOf, RowsSound, Database
  <2> QED  BY <2>1, VersionRows
<1>6. /\ reg \in SUBSET RegistrationRow /\ sched \in SUBSET ScheduleRow
      /\ \A x \in reg \cup sched : RowsExist(db, x.rows)
      /\ \A x \in sched : x.due <= now + 1
  <2> HIDE DEF d
  <2>1. /\ d.reg \in SUBSET RegistrationRow /\ d.sched \in SUBSET ScheduleRow
        /\ \A x \in d.reg \cup d.sched : RowsExist(d, x.rows)
        /\ now \in Nat /\ DueSoon(d, now)
    BY <1>4, AuthoringAssumption DEF AInv, RowsSound, Database, Resolves, DueSoon
  <2>2. reg \in SUBSET RegistrationRow /\ \A x \in reg : RowsExist(d, x.rows)
    BY <1>5, <2>1, WebhooksResolve
  <2>3. /\ sched \in SUBSET ScheduleRow
        /\ \A x \in sched : RowsExist(d, x.rows) /\ x.due <= now + 1
    BY <1>3, <1>5, <2>1, SchedulesResolve
  <2> QED  BY <1>4, <2>2, <2>3
<1>7. RowsSound(db') /\ Follows(db, db') /\ db'.sched = sched
  <2> HIDE DEF s, w
  <2> QED  BY <1>1, <1>2, <1>3, <1>6, PublishIsSound DEF AInv
<1>8. DueSoon(db', now')
  BY <1>1, <1>6, <1>7 DEF DueSoon
<1> QED  BY <1>1, <1>7, <1>8, Carried DEF AInv, Ends

\* A step of authoring preserves the invariant and takes the rows to some that follow.
LEMMA AuthoringKeeps ==
    ASSUME AInv, [AuthoringNext]_authoringVars
    PROVE  AInv' /\ Follows(db, db')
<1>1. ASSUME NEW c \in Clients, AuthoringStep(c)  PROVE AInv' /\ Follows(db, db')
  <2>1. CASE Abort(c)
    BY <2>1, FollowsItself, Carried DEF Abort, AInv, RowsSound, DueSoon
  <2> QED  BY <1>1, <2>1, BeginKeeps, NamesKeep, GetDraftKeeps, ReplaceDraftKeeps, PublishKeeps
           DEF AuthoringStep
<1>2. CASE PassTime
  <2>1. DueSoon(db', now')
    <3>1. now \in Nat /\ \A x \in db.sched : x.due \in Nat
      BY AuthoringAssumption DEF AInv, RowsSound, Database, ScheduleRow
    <3> QED  BY <1>2, <3>1 DEF PassTime, AInv, DueSoon
  <2>2. Follows(db, db')
    BY <1>2, FollowsItself DEF PassTime, AInv, RowsSound
  <2> QED  BY <1>2, <2>1, <2>2, AuthoringAssumption DEF PassTime, AInv, TxIsSound, ViewIsSound
<1>3. CASE UNCHANGED authoringVars
  <2>1. Follows(db, db')
    BY <1>3, FollowsItself DEF authoringVars, AInv, RowsSound
  <2> QED  BY <1>3, <2>1 DEF authoringVars, AInv, TxIsSound, ViewIsSound, DueSoon
<1> QED  BY <1>1, <1>2, <1>3 DEF AuthoringNext

\* The inductive invariant holds of every behaviour, whatever transactions overlap.
THEOREM AuthoringInvariant == AuthoringSpec => []AInv
BY AInvInit, AuthoringKeeps, PTL DEF AuthoringSpec

\* Every reachable state is well typed.
THEOREM AuthoringTyped == AuthoringSpec => []AuthoringTypeOK
<1>1. ASSUME AInv  PROVE AuthoringTypeOK
  BY <1>1 DEF AInv, AuthoringTypeOK, RowsSound, Database, TxIsSound, ViewIsSound, NoTx
<1> QED  BY <1>1, AuthoringInvariant, PTL

\* Version numbers are dense and no two live workflows share a name; pointers
\* resolve; and a revision names its content. All of it is read in snapshots
\* (publish, create, rename, replace_draft), however many requests overlap.
THEOREM RowsAlwaysAgree == AuthoringSpec => []RowsAgree
<1>1. ASSUME AInv  PROVE RowsAgree
  <2>1. NumbersAreDense
    <3>1. \A w \in Workflows :
            PublishedOf(db, w) = {v \in VersionsOf(db, w) : IsPublished(db, v)}
      BY DEF PublishedOf
    <3> QED  BY <1>1, <3>1, NumbersCounted DEF AInv, RowsSound, NumbersAreDense
  <2>2. NamesAreDistinct
    BY <1>1 DEF AInv, RowsSound, Distinct, NamesAreDistinct
  <2>3. PointersResolve
    BY <1>1 DEF AInv, RowsSound, Resolves, PointersResolve, PublishedOf
  <2>4. RevisionNamesContent
    BY <1>1 DEF AInv, ViewIsSound, RevisionNamesContent
  <2> QED  BY <2>1, <2>2, <2>3, <2>4 DEF RowsAgree
<1> QED  BY <1>1, AuthoringInvariant, PTL


-----------------------------------------------------------------------------
(* Requests that do not overlap *)

OneAtATime == \A b, c \in Clients : tx[b] # NoTx /\ tx[c] # NoTx => b = c

\* The snapshot s shows what is in d, up to due times, which the clock moves.
Shows(s, d) ==
    /\ s.wf = d.wf /\ s.ver = d.ver /\ s.reg = d.reg
    /\ \A x \in s.sched : \E y \in d.sched : x.id = y.id /\ x.rows = y.rows
    /\ \A y \in d.sched : \E x \in s.sched : x.id = y.id /\ x.rows = y.rows

SnapshotIsCurrent == \A c \in Clients : tx[c] # NoTx => Shows(tx[c].db, db)

\* A batch of node rows belongs to one version.
RowsApart(d, n) ==
    /\ \A v \in VersionIds : d.ver[v].graph.rows \in 0 .. n
    /\ \A u, v \in VersionIds :
         d.ver[u].graph.rows = d.ver[v].graph.rows /\ d.ver[u].graph.rows # 0 => u = v

KeyOf(x) == IF "token" \in DOMAIN x THEN x.token ELSE x.id

\* What is registered points into published versions, which keep their rows, and
\* was minted by publishing one; a workflow has one.
TriggerRows(d, T, kind) ==
    /\ \A x \in T : \E v \in VersionIds :
         /\ IsPublished(d, v) /\ d.ver[v].graph.trigger = kind
         /\ d.ver[v].graph.rows = x.rows /\ x.rows # 0
    /\ \A x \in T : \E v \in VersionIds :
         IsPublished(d, v) /\ d.ver[v].graph.rows = KeyOf(x)[1] /\ KeyOf(x)[1] # 0
    /\ \A x, y \in T : KeyOf(x) = KeyOf(y) => x = y
    /\ \A w \in Workflows : \A x, y \in T :
         x.rows \in RowsOf(d, w) /\ y.rows \in RowsOf(d, w) => x = y

FiresIn(g, T, kind) == g.trigger = kind => \E x \in T : x.rows = g.rows

\* T becomes S as the graph g of w has or has not a trigger of this kind: it gets a
\* row of its own, w having none; or the row that w has is pointed at it.
Registered(d, w, g, T, S, kind) ==
    /\ FiresIn(g, S, kind)
    /\ \/ S = T
       \/ /\ g.trigger = kind /\ g.rows # 0
          /\ \E new :
               /\ new.rows = g.rows
               /\ \/ /\ \A x \in T : x.rows \notin RowsOf(d, w)
                     /\ S = T \cup {new} /\ KeyOf(new)[1] = g.rows
                  \/ \E x \in T : /\ x.rows \in RowsOf(d, w)
                                  /\ S = (T \ {x}) \cup {new} /\ KeyOf(new) = KeyOf(x)

ValidOnce(d) == \A v \in VersionIds : IsPublished(d, v) => Valid(d.ver[v].graph)

TriggerFires(d) ==
    \A w \in Workflows :
      d.wf[w].active # None =>
        /\ FiresIn(d.ver[d.wf[w].active].graph, d.reg, "webhook")
        /\ FiresIn(d.ver[d.wf[w].active].graph, d.sched, "schedule")

\* The version that a workflow runs is the one it published last.
NewestRuns(d) ==
    \A w \in Workflows :
      d.wf[w].active # None => \A u \in PublishedOf(d, w) : d.ver[u].no <= d.ver[d.wf[w].active].no

\* What the rows say of each other as long as requests come one by one.
SerialRows(d, n) ==
    /\ RowsApart(d, n) /\ ValidOnce(d) /\ TriggerFires(d) /\ NewestRuns(d)
    /\ TriggerRows(d, d.reg, "webhook") /\ TriggerRows(d, d.sched, "schedule")

SerialInv ==
    OneAtATime /\ SnapshotIsCurrent /\ SerialRows(db, rows) /\ SaveReplacesWhatWasRead

\* A draft added or replaced, with rows of its own, leaves what fires in place.
LEMMA DraftWritten ==
    ASSUME NEW d, RowsSound(d), NEW e, RowsSound(e), NEW n \in Nat, NEW m \in Nat, n <= m,
           SerialRows(d, n), NEW v \in VersionIds, ~ IsPublished(d, v), ~ IsPublished(e, v),
           \A u \in VersionIds \ {v} : e.ver[u] = d.ver[u],
           e.ver[v].graph.rows = 0 \/ e.ver[v].graph.rows \in (n + 1) .. m,
           e.wf = d.wf, e.reg = d.reg, e.sched = d.sched
    PROVE  SerialRows(e, m)
<1>1. /\ \A u \in VersionIds : d.ver[u].graph.rows \in 0 .. n
      /\ \A u, x \in VersionIds :
           d.ver[u].graph.rows = d.ver[x].graph.rows /\ d.ver[u].graph.rows # 0 => u = x
  BY DEF SerialRows, RowsApart
<1>2. RowsApart(e, m)
  <2>1. \A u \in VersionIds : e.ver[u].graph.rows \in 0 .. m
    BY <1>1
  <2>2. ASSUME NEW u \in VersionIds, NEW x \in VersionIds, e.ver[u].graph.rows # 0,
               e.ver[u].graph.rows = e.ver[x].graph.rows
        PROVE  u = x
    BY <1>1, <2>2
  <2> QED  BY <2>1, <2>2 DEF RowsApart
<1>3. ValidOnce(e)
  BY DEF SerialRows, ValidOnce, IsPublished
<1>4. \A u \in VersionIds : IsPublished(d, u) => u # v /\ e.ver[u] = d.ver[u] /\ IsPublished(e, u)
  BY DEF IsPublished
<1>5. TriggerFires(e)
  <2>1. \A w \in Workflows : d.wf[w].active # None =>
          d.wf[w].active \in VersionIds /\ IsPublished(d, d.wf[w].active)
    BY DEF RowsSound, Resolves, PublishedOf, VersionsOf
  <2>2. \A w \in Workflows : d.wf[w].active # None => e.ver[d.wf[w].active] = d.ver[d.wf[w].active]
    BY <1>4, <2>1
  <2>3. TriggerFires(d)
    BY DEF SerialRows
  <2> QED  BY <2>2, <2>3 DEF TriggerFires
<1>6. ASSUME NEW T, NEW kind, TriggerRows(d, T, kind)
      PROVE  TriggerRows(e, T, kind)
  <2>1. ASSUME NEW x \in T, NEW w \in Workflows, x.rows \in RowsOf(e, w)
        PROVE  x.rows \in RowsOf(d, w)
    <3>1. PICK u \in VersionIds : IsPublished(d, u) /\ d.ver[u].graph.rows = x.rows /\ x.rows # 0
      BY <1>6 DEF TriggerRows
    <3>2. PICK y \in VersionsOf(e, w) : e.ver[y].graph.rows = x.rows
      BY <2>1 DEF RowsOf
    <3>3. y # v
      BY <1>1, <3>1, <3>2
    <3>4. y \in VersionsOf(d, w) /\ d.ver[y].graph.rows = x.rows
      BY <3>2, <3>3 DEF VersionsOf
    <3> QED  BY <3>4 DEF RowsOf
  <2>2. \A x \in T : \E u \in VersionIds :
          /\ IsPublished(e, u) /\ e.ver[u].graph.trigger = kind
          /\ e.ver[u].graph.rows = x.rows /\ x.rows # 0
    BY <1>4, <1>6 DEF TriggerRows
  <2>3. \A x \in T : \E u \in VersionIds :
          IsPublished(e, u) /\ e.ver[u].graph.rows = KeyOf(x)[1] /\ KeyOf(x)[1] # 0
    BY <1>4, <1>6 DEF TriggerRows
  <2> QED  BY <1>6, <2>1, <2>2, <2>3 DEF TriggerRows
<1>7. NewestRuns(e)
  <2>1. \A w \in Workflows : \A u \in PublishedOf(e, w) : u \in PublishedOf(d, w) /\ e.ver[u] = d.ver[u]
    BY DEF PublishedOf, VersionsOf, IsPublished
  <2>2. \A w \in Workflows : d.wf[w].active # None => e.ver[d.wf[w].active] = d.ver[d.wf[w].active]
    BY DEF RowsSound, Resolves, PublishedOf, VersionsOf
  <2> QED  BY <2>1, <2>2 DEF SerialRows, NewestRuns
<1> QED  BY <1>2, <1>3, <1>5, <1>6, <1>7 DEF SerialRows

\* T becomes S: no key is lost, and only rows of w change.
CarriesOver(d, w, T, S) ==
    /\ \A x \in T : \E y \in S : KeyOf(y) = KeyOf(x)
    /\ \A x \in T : x.rows \notin RowsOf(d, w) => x \in S

\* Publishing v of w: its trigger row is minted with a key that is new, or the one
\* its workflow had is pointed at it.
LEMMA TriggerPublished ==
    ASSUME NEW d, NEW e, NEW n, RowsApart(d, n), NEW T, NEW kind, TriggerRows(d, T, kind),
           NEW w \in Workflows, NEW v \in VersionIds, v \in VersionsOf(d, w), ~ IsPublished(d, v),
           Promotes(d, e, w, v), NEW S, Registered(d, w, d.ver[v].graph, T, S, kind)
    PROVE  TriggerRows(e, S, kind) /\ CarriesOver(d, w, T, S)
<1>0. PICK new :
        \/ S = T
        \/ /\ d.ver[v].graph.trigger = kind /\ new.rows = d.ver[v].graph.rows /\ new.rows # 0
           /\ \/ /\ \A x \in T : x.rows \notin RowsOf(d, w)
                 /\ S = T \cup {new} /\ KeyOf(new)[1] = new.rows
              \/ \E x \in T : /\ x.rows \in RowsOf(d, w)
                              /\ S = (T \ {x}) \cup {new} /\ KeyOf(new) = KeyOf(x)
  BY DEF Registered
<1>1. /\ IsPublished(e, v) /\ e.ver[v].wf = w
      /\ \A u \in VersionIds \ {v} : e.ver[u] = d.ver[u]
      /\ \A u \in VersionIds : e.ver[u].graph = d.ver[u].graph
  BY DEF Promotes
<1>2. \A x : VersionsOf(e, x) = VersionsOf(d, x)
  BY <1>1 DEF VersionsOf, IsPublished
<1>3. \A x : RowsOf(e, x) = RowsOf(d, x)
  BY <1>1, <1>2 DEF RowsOf, VersionsOf
<1>4. \A u \in VersionIds : IsPublished(d, u) => u # v /\ IsPublished(e, u)
  BY <1>1 DEF IsPublished
<1>5. S # T => new.rows \in RowsOf(d, w)
  BY <1>0 DEF RowsOf
<1>6. ASSUME NEW x \in Workflows, new.rows \in RowsOf(d, x), S # T
      PROVE  x = w
  <2>1. PICK u \in VersionsOf(d, x) : d.ver[u].graph.rows = d.ver[v].graph.rows
    BY <1>0, <1>6 DEF RowsOf
  <2>2. u = v
    BY <1>0, <1>6, <2>1 DEF RowsApart, VersionsOf
  <2> QED  BY <2>1, <2>2 DEF VersionsOf
<1>7. S # T => \A x \in T : KeyOf(x)[1] # new.rows
  <2>1. ASSUME NEW x \in T, KeyOf(x)[1] = new.rows, S # T
        PROVE  FALSE
    <3>1. PICK u \in VersionIds : IsPublished(d, u) /\ d.ver[u].graph.rows = KeyOf(x)[1]
      BY DEF TriggerRows
    <3>2. u = v
      BY <1>0, <2>1, <3>1 DEF RowsApart
    <3> QED  BY <3>1, <3>2
  <2> QED  BY <2>1
<1>8. \A x \in T : \E u \in VersionIds :
        /\ IsPublished(e, u) /\ e.ver[u].graph.trigger = kind
        /\ e.ver[u].graph.rows = x.rows /\ x.rows # 0
  BY <1>1, <1>4 DEF TriggerRows
<1>9. \A x \in T : \E u \in VersionIds :
        IsPublished(e, u) /\ e.ver[u].graph.rows = KeyOf(x)[1] /\ KeyOf(x)[1] # 0
  BY <1>1, <1>4 DEF TriggerRows
<1>10. S # T => /\ IsPublished(e, v) /\ e.ver[v].graph.trigger = kind
                /\ e.ver[v].graph.rows = new.rows /\ new.rows # 0
  BY <1>0, <1>1
<1>11. CASE S = T
  BY <1>3, <1>8, <1>9, <1>11 DEF TriggerRows, CarriesOver
<1>12. CASE /\ S # T /\ \A x \in T : x.rows \notin RowsOf(d, w)
            /\ S = T \cup {new} /\ KeyOf(new)[1] = new.rows
  <2>1. \A x \in T : KeyOf(x) # KeyOf(new)
    BY <1>7, <1>12
  <2>2. \A x, y \in S : KeyOf(x) = KeyOf(y) => x = y
    BY <1>12, <2>1 DEF TriggerRows
  <2>3. ASSUME NEW z \in Workflows, NEW x \in S, NEW y \in S,
               x.rows \in RowsOf(d, z), y.rows \in RowsOf(d, z)
        PROVE  x = y
    BY <1>6, <1>12, <2>3 DEF TriggerRows
  <2> QED  BY <1>3, <1>8, <1>9, <1>10, <1>12, <2>2, <2>3 DEF TriggerRows, CarriesOver
<1>13. CASE S # T /\ \E x \in T :
                         /\ x.rows \in RowsOf(d, w)
                         /\ S = (T \ {x}) \cup {new} /\ KeyOf(new) = KeyOf(x)
  <2>1. PICK old \in T : /\ old.rows \in RowsOf(d, w)
                         /\ S = (T \ {old}) \cup {new} /\ KeyOf(new) = KeyOf(old)
    BY <1>13
  <2>2. \A x \in T \ {old} : KeyOf(x) # KeyOf(new) /\ x.rows \notin RowsOf(d, w)
    BY <2>1 DEF TriggerRows
  <2>3. \A x, y \in S : KeyOf(x) = KeyOf(y) => x = y
    BY <2>1, <2>2 DEF TriggerRows
  <2>4. ASSUME NEW z \in Workflows, NEW x \in S, NEW y \in S,
               x.rows \in RowsOf(d, z), y.rows \in RowsOf(d, z)
        PROVE  x = y
    BY <1>6, <2>1, <2>2, <2>4 DEF TriggerRows
  <2>5. \A x \in S : \E u \in VersionIds :
          /\ IsPublished(e, u) /\ e.ver[u].graph.trigger = kind
          /\ e.ver[u].graph.rows = x.rows /\ x.rows # 0
    BY <1>8, <1>10, <2>1
  <2>6. \A x \in S : \E u \in VersionIds :
          IsPublished(e, u) /\ e.ver[u].graph.rows = KeyOf(x)[1] /\ KeyOf(x)[1] # 0
    BY <1>9, <2>1
  <2>7. TriggerRows(e, S, kind)
    BY <1>3, <2>3, <2>4, <2>5, <2>6 DEF TriggerRows
  <2>8. \A x \in T : \E y \in S : KeyOf(y) = KeyOf(x)
    BY <2>1
  <2> QED  BY <2>1, <2>7, <2>8 DEF CarriesOver
<1> QED  BY <1>0, <1>11, <1>12, <1>13


\* A transaction whose snapshot shows what is there finds the same draft in it.
LEMMA SnapshotReads ==
    ASSUME NEW s, NEW d, Shows(s, d), NEW w
    PROVE  /\ DraftId(s, w) = DraftId(d, w) /\ (HasDraft(s, w) <=> HasDraft(d, w))
           /\ NextVersionNo(s, w) = NextVersionNo(d, w) /\ Copies(s, w) = Copies(d, w)
           /\ NewDraft(s, w) = NewDraft(d, w) /\ DraftRow(s, w) = DraftRow(d, w)
           /\ Ensured(s, w) = Ensured(d, w)
           /\ {x.token : x \in RegistrationsOf(s, w)} = {x.token : x \in RegistrationsOf(d, w)}
           /\ {x.id : x \in SchedulesOf(s, w)} = {x.id : x \in SchedulesOf(d, w)}
<1>1. s.wf = d.wf /\ s.ver = d.ver /\ s.reg = d.reg
  BY DEF Shows
<1>2. VersionsOf(s, w) = VersionsOf(d, w)
  BY <1>1 DEF VersionsOf
<1>3. Drafts(s, w) = Drafts(d, w)
  BY <1>1, <1>2 DEF Drafts
<1>4. DraftId(s, w) = DraftId(d, w) /\ (HasDraft(s, w) <=> HasDraft(d, w))
  BY <1>3 DEF DraftId, HasDraft
<1>5. NextVersionNo(s, w) = NextVersionNo(d, w)
  BY <1>1, <1>2 DEF NextVersionNo, Numbers, IsPublished
<1>6. Copies(s, w) = Copies(d, w)
  BY <1>1, <1>4 DEF Copies
<1>7. NewDraft(s, w) = NewDraft(d, w)
  BY <1>1 DEF NewDraft
<1>8. DraftRow(s, w) = DraftRow(d, w) /\ Ensured(s, w) = Ensured(d, w)
  BY <1>1, <1>4, <1>7 DEF DraftRow, Ensured
<1>9. RowsOf(s, w) = RowsOf(d, w)
  BY <1>1, <1>2 DEF RowsOf
<1>10. {x.token : x \in RegistrationsOf(s, w)} = {x.token : x \in RegistrationsOf(d, w)}
  BY <1>1, <1>9 DEF RegistrationsOf
<1>11. {x.id : x \in SchedulesOf(s, w)} = {x.id : x \in SchedulesOf(d, w)}
  BY <1>9 DEF SchedulesOf, Shows
<1> QED  BY <1>4, <1>5, <1>6, <1>7, <1>8, <1>10, <1>11

\* What _register_webhook_trigger does to the table, when nothing overlaps.
LEMMA WebhookRegistered ==
    ASSUME db.reg \subseteq RegistrationRow, NEW c \in Clients, NEW w, TriggerRows(db, db.reg, "webhook"),
           NEW g, g \in Graph, NEW d, d.reg = db.reg,
           NEW reg, Addresses(c, d, g, {x.token : x \in RegistrationsOf(db, w)}, reg)
    PROVE  Registered(db, w, g, db.reg, reg, "webhook")
<1> DEFINE existing == {x.token : x \in RegistrationsOf(db, w)}
           new == [token |-> <<g.rows, c>>, rows |-> g.rows]
<1>1. \A x \in RegistrationRow : KeyOf(x) = x.token
  BY DEF KeyOf, RegistrationRow
<1>2. CASE g.trigger # "webhook" /\ reg = db.reg
  BY <1>2 DEF Registered, FiresIn
<1>3. CASE g.trigger = "webhook" /\ RowsExist(d, g.rows) /\ existing = {} /\ reg = db.reg \cup {new}
  <2>1. new.rows = g.rows /\ KeyOf(new) = <<g.rows, c>> /\ g.rows # 0
    BY <1>3 DEF KeyOf, RowsExist
  <2>2. \A x \in db.reg : x.rows \notin RowsOf(db, w)
    BY <1>3 DEF RegistrationsOf
  <2> HIDE DEF new
  <2>3. KeyOf(new)[1] = g.rows
    BY <2>1
  <2> QED  BY <1>3, <2>1, <2>2, <2>3 DEF Registered, FiresIn
<1>4. ASSUME g.trigger = "webhook", RowsExist(d, g.rows), NEW x \in db.reg, x.token \in existing,
             reg = (db.reg \ {x}) \cup {Repointed(x, g.rows, c)}
      PROVE  Registered(db, w, g, db.reg, reg, "webhook")
  <2>1. x.rows \in RowsOf(db, w)
    <3>1. PICK y \in db.reg : y.rows \in RowsOf(db, w) /\ x.token = y.token
      BY <1>4 DEF RegistrationsOf
    <3>2. x = y
      BY <1>1, <3>1 DEF TriggerRows
    <3> QED  BY <3>1, <3>2
  <2> DEFINE r == Repointed(x, g.rows, c)
  <2>2. r.rows = g.rows /\ KeyOf(r) = KeyOf(x)
    <3>1. x \in RegistrationRow
      OBVIOUS
    <3>2. r \in [token : (0 .. MaxRows) \X Clients, rows : {g.rows}] /\ r.token = x.token
      BY <3>1 DEF Repointed, RegistrationRow
    <3> HIDE DEF r
    <3> QED  BY <1>1, <3>1, <3>2 DEF KeyOf
  <2>3. g.rows # 0
    BY <1>4 DEF RowsExist
  <2> HIDE DEF r
  <2> QED  BY <1>4, <2>1, <2>2, <2>3 DEF r, Registered, FiresIn
<1> HIDE DEF existing, new
<1>5. Addresses(c, d, g, existing, reg)
  BY DEF existing
<1> QED  BY <1>2, <1>3, <1>4, <1>5 DEF Addresses, new

\* What _register_schedule_trigger does.
LEMMA ScheduleRegistered ==
    ASSUME db.sched \subseteq ScheduleRow, NEW c \in Clients, NEW w,
           TriggerRows(db, db.sched, "schedule"),
           NEW g, g \in Graph, NEW d, d.sched = db.sched,
           NEW sched, DueTimes(c, d, g, {x.id : x \in SchedulesOf(db, w)}, sched)
    PROVE  Registered(db, w, g, db.sched, sched, "schedule")
<1> DEFINE existing == {x.id : x \in SchedulesOf(db, w)}
           Row(id, t) == [id |-> id, rows |-> g.rows, due |-> NextOccurrence(t)]
<1>1. \A x \in ScheduleRow : KeyOf(x) = x.id
  BY DEF KeyOf, ScheduleRow
<1>2. \A id, t : Row(id, t).rows = g.rows /\ KeyOf(Row(id, t)) = id
  BY DEF KeyOf
<1>3. CASE g.trigger # "schedule" /\ sched = db.sched
  BY <1>3 DEF Registered, FiresIn
<1>4. ASSUME g.trigger = "schedule", RowsExist(d, g.rows), existing = {}, NEW t,
             sched = db.sched \cup {Row(<<g.rows, c>>, t)}
      PROVE  Registered(db, w, g, db.sched, sched, "schedule")
  <2> DEFINE new == Row(<<g.rows, c>>, t)
  <2>1. new.rows = g.rows /\ KeyOf(new) = <<g.rows, c>> /\ g.rows # 0
    BY <1>2, <1>4 DEF RowsExist
  <2>2. \A x \in db.sched : x.rows \notin RowsOf(db, w)
    BY <1>4 DEF SchedulesOf
  <2>3. sched = db.sched \cup {new}
    BY <1>4
  <2> HIDE DEF new
  <2>4. KeyOf(new)[1] = g.rows
    BY <2>1
  <2> QED  BY <1>4, <2>1, <2>2, <2>3, <2>4 DEF Registered, FiresIn
<1>5. ASSUME g.trigger = "schedule", RowsExist(d, g.rows), NEW x \in db.sched, x.id \in existing, NEW t,
             sched = (db.sched \ {x}) \cup {Row(x.id, t)}
      PROVE  Registered(db, w, g, db.sched, sched, "schedule")
  <2>1. x.rows \in RowsOf(db, w)
    <3>1. PICK y \in db.sched : y.rows \in RowsOf(db, w) /\ x.id = y.id
      BY <1>5 DEF SchedulesOf
    <3>2. x = y
      BY <1>1, <3>1 DEF TriggerRows
    <3> QED  BY <3>1, <3>2
  <2> DEFINE r == Row(x.id, t)
  <2>2. r.rows = g.rows /\ KeyOf(r) = KeyOf(x)
    BY <1>1, <1>2
  <2>3. sched = (db.sched \ {x}) \cup {r} /\ g.rows # 0
    BY <1>5 DEF RowsExist
  <2> HIDE DEF r
  <2> QED  BY <1>5, <2>1, <2>2, <2>3 DEF Registered, FiresIn
<1> HIDE DEF existing
<1>6. DueTimes(c, d, g, existing, sched)
  BY DEF existing
<1> QED  BY <1>3, <1>4, <1>5, <1>6 DEF DueTimes

\* Version v of w becomes the published one, e.reg and e.sched what is registered.
LEMMA PublishedSerially ==
    ASSUME NEW d, RowsSound(d), NEW n, SerialRows(d, n), NEW e, RowsSound(e),
           NEW w \in Workflows, NEW v \in VersionIds, v \in VersionsOf(d, w), ~ IsPublished(d, v),
           Promotes(d, e, w, v), Valid(d.ver[v].graph), e.ver[v].no = NextVersionNo(d, w),
           Registered(d, w, d.ver[v].graph, d.reg, e.reg, "webhook"),
           Registered(d, w, d.ver[v].graph, d.sched, e.sched, "schedule")
    PROVE  /\ SerialRows(e, n)
           /\ \A x \in d.reg : \E y \in e.reg : KeyOf(y) = KeyOf(x)
           /\ \A y \in e.sched : y \in d.sched \/ y.rows = d.ver[v].graph.rows
<1>0. /\ IsPublished(e, v) /\ e.ver[v].wf = w /\ e.wf[w].active = v
      /\ \A x \in Workflows \ {w} : e.wf[x].active = d.wf[x].active
      /\ \A u \in VersionIds \ {v} : e.ver[u] = d.ver[u]
      /\ \A u \in VersionIds : e.ver[u].graph = d.ver[u].graph
  BY DEF Promotes
<1>1. /\ RowsApart(d, n) /\ ValidOnce(d) /\ TriggerFires(d) /\ NewestRuns(d)
      /\ TriggerRows(d, d.reg, "webhook") /\ TriggerRows(d, d.sched, "schedule")
  BY DEF SerialRows
<1>2. TriggerRows(e, e.reg, "webhook") /\ CarriesOver(d, w, d.reg, e.reg)
  BY <1>1, TriggerPublished
<1>3. TriggerRows(e, e.sched, "schedule") /\ CarriesOver(d, w, d.sched, e.sched)
  BY <1>1, TriggerPublished
<1>4. RowsApart(e, n)
  BY <1>0, <1>1 DEF RowsApart
<1>5. ValidOnce(e)
  BY <1>0, <1>1 DEF ValidOnce, IsPublished
<1>6. ASSUME NEW x \in Workflows, e.wf[x].active # None
      PROVE  /\ FiresIn(e.ver[e.wf[x].active].graph, e.reg, "webhook")
             /\ FiresIn(e.ver[e.wf[x].active].graph, e.sched, "schedule")
             /\ \A y \in PublishedOf(e, x) : e.ver[y].no <= e.ver[e.wf[x].active].no
  <2>1. CASE x = w
    <3>1. e.wf[x].active = v /\ e.ver[v].graph = d.ver[v].graph
      BY <1>0, <2>1
    <3>2. PICK n1 \in Nat : Numbers(d, w) = 1 .. n1
      BY DEF RowsSound, NumbersCount
    <3>3. e.ver[v].no = n1 + 1
      BY <3>2, NextNumber
    <3>4. \A y \in PublishedOf(e, x) : y = v \/ e.ver[y].no \in Numbers(d, w)
      BY <1>0, <2>1 DEF PublishedOf, VersionsOf, Numbers, IsPublished
    <3>5. \A y \in PublishedOf(e, x) : e.ver[y].no <= e.ver[v].no
      BY <3>2, <3>3, <3>4
    <3> QED  BY <3>1, <3>5 DEF Registered
  <2>2. CASE x # w
    <3> DEFINE u == d.wf[x].active
               h == d.ver[u].graph
    <3>1. e.wf[x].active = u /\ u # None
      BY <1>0, <1>6, <2>2
    <3>2. u \in VersionIds /\ IsPublished(d, u) /\ d.ver[u].wf = x
      BY <3>1 DEF RowsSound, Resolves, PublishedOf, VersionsOf
    <3>3. u # v /\ e.ver[u] = d.ver[u]
      BY <1>0, <3>2
    <3>4. ASSUME h.rows # 0, h.rows \in RowsOf(d, w)  PROVE FALSE
      <4>1. PICK y \in VersionsOf(d, w) : d.ver[y].graph.rows = h.rows
        BY <3>4 DEF RowsOf
      <4>2. y = u
        BY <1>1, <3>2, <3>4, <4>1 DEF RowsApart, VersionsOf
      <4> QED  BY <2>2, <3>2, <4>1, <4>2 DEF VersionsOf
    <3>5. \A y \in d.reg \cup d.sched : y.rows # 0
      BY <1>1 DEF TriggerRows
    <3>6. FiresIn(h, d.reg, "webhook") /\ FiresIn(h, d.sched, "schedule")
      BY <1>1, <3>1 DEF TriggerFires
    <3>7. e.ver[e.wf[x].active] = d.ver[u]
      BY <3>1, <3>3
    <3>8. FiresIn(h, e.reg, "webhook") /\ FiresIn(h, e.sched, "schedule")
      <4> HIDE DEF h
      <4> QED  BY <1>2, <1>3, <3>4, <3>5, <3>6 DEF CarriesOver, FiresIn
    <3>9. \A y \in PublishedOf(e, x) : y \in PublishedOf(d, x) /\ e.ver[y] = d.ver[y]
      BY <1>0, <2>2 DEF PublishedOf, VersionsOf, IsPublished
    <3>10. \A y \in PublishedOf(e, x) : e.ver[y].no <= d.ver[u].no
      BY <1>1, <3>1, <3>9 DEF NewestRuns
    <3> QED  BY <3>7, <3>8, <3>10
  <2> QED  BY <2>1, <2>2
<1>7. TriggerFires(e) /\ NewestRuns(e)
  BY <1>6 DEF TriggerFires, NewestRuns
<1>8. \A y \in e.sched : y \in d.sched \/ y.rows = d.ver[v].graph.rows
  BY DEF Registered
<1> QED  BY <1>2, <1>3, <1>4, <1>5, <1>7, <1>8 DEF SerialRows, CarriesOver

\* What a step gives out stays given out, and only the schedule of a version that
\* it publishes changes.
Kept ==
    /\ \A v \in VersionIds : IsPublished(db, v) => db'.ver[v].graph = db.ver[v].graph
    /\ \A x \in db.reg : \E y \in db'.reg : y.token = x.token
    /\ \A y \in db'.sched :
         y \in db.sched \/ \E v \in VersionIds : ~ IsPublished(db, v) /\ db'.ver[v].graph.rows = y.rows

LEMMA PublishWrites ==
    ASSUME NEW c \in Clients, Publish(c), NEW s, s = tx[c].db
    PROVE  LET w == tx[c].wf
               v == DraftId(s, w)
               d == Promoted(w, v, NextVersionNo(s, w))
           IN  /\ HasDraft(s, w) /\ Valid(s.ver[v].graph) /\ rows' = rows
               /\ \E reg \in WebhookOutcomes(c, d), sched \in ScheduleOutcomes(c, d) :
                    db' = WithTriggers(d, reg, sched)
BY DEF Publish, Publishable, Promoted, WithTriggers

\* A publication in one transaction, from a snapshot that is current.
LEMMA PublishSerially ==
    ASSUME AInv, AInv', SerialInv, NEW c \in Clients, Publish(c)
    PROVE  SerialRows(db', rows') /\ Kept
<1> DEFINE s == tx[c].db
           w == tx[c].wf
           v == DraftId(db, w)
           no == NextVersionNo(db, w)
           g == db.ver[v].graph
           d == Promoted(w, v, no)
<1>1. /\ tx[c].op = "publish" /\ tx[c] # NoTx /\ Shows(s, db)
  <2>1. tx[c].op = "publish"
    BY DEF Publish, Committing
  <2>2. tx[c] # NoTx
    BY <2>1 DEF NoTx
  <2> QED  BY <2>1, <2>2 DEF SerialInv, SnapshotIsCurrent
<1>2. w \in Workflows /\ tx[c].at \in Nat /\ RowsSound(s) /\ Follows(s, db)
  BY <1>1, OpenTx
<1>3. /\ DraftId(s, w) = v /\ (HasDraft(s, w) <=> HasDraft(db, w)) /\ NextVersionNo(s, w) = no
      /\ s.ver = db.ver
      /\ {x.token : x \in RegistrationsOf(s, w)} = {x.token : x \in RegistrationsOf(db, w)}
      /\ {x.id : x \in SchedulesOf(s, w)} = {x.id : x \in SchedulesOf(db, w)}
  <2> HIDE DEF s, w
  <2>1. Shows(s, db)
    BY <1>1
  <2>2. s.ver = db.ver
    BY <2>1 DEF Shows
  <2> QED  BY <2>1, <2>2, SnapshotReads
<1>4. /\ HasDraft(db, w) /\ Valid(g) /\ rows' = rows
      /\ \E reg \in WebhookOutcomes(c, d), sched \in ScheduleOutcomes(c, d) :
           db' = WithTriggers(d, reg, sched)
  <2> HIDE DEF WithTriggers, Promoted
  <2> QED  BY <1>1, <1>3, PublishWrites
<1>5. PICK reg \in WebhookOutcomes(c, d), sched \in ScheduleOutcomes(c, d) :
        db' = WithTriggers(d, reg, sched)
  BY <1>4
<1>6. /\ v \in VersionsOf(db, w) /\ v \in VersionIds /\ ~ IsPublished(db, v)
      /\ RowsSound(db) /\ RowsSound(db') /\ Follows(db, db) /\ SerialRows(db, rows)
  BY <1>4, DraftFound, FollowsItself DEF Drafts, VersionsOf, IsPublished, AInv, SerialInv, RowsSound
<1>7. g \in Graph
  <2>1. db.ver[v] \in VersionRow
    BY <1>6 DEF RowsSound, Database
  <2> QED  BY <2>1, VersionRows
<1>8. d.reg = db.reg /\ d.sched = db.sched /\ \A r : RowsExist(d, r) <=> RowsExist(db, r)
  <2> HIDE DEF w, v, no
  <2> QED  BY <1>2, <1>6, PromotedRows
<1>9. /\ db.reg \in SUBSET RegistrationRow /\ db.sched \in SUBSET ScheduleRow
      /\ \A x \in db.reg \cup db.sched : RowsExist(db, x.rows)
  BY <1>6 DEF RowsSound, Database, Resolves
<1>10. /\ reg \in SUBSET RegistrationRow /\ sched \in SUBSET ScheduleRow
       /\ \A x \in reg \cup sched : RowsExist(db, x.rows)
  <2>0. tx[c].db.ver[DraftId(tx[c].db, tx[c].wf)].graph = g
    BY <1>3
  <2> HIDE DEF d, g
  <2>1. reg \in SUBSET RegistrationRow /\ \A x \in reg : RowsExist(d, x.rows)
    BY <1>7, <1>8, <1>9, <2>0, WebhooksResolve
  <2>2. now \in Nat /\ DueSoon(d, now)
    BY <1>8, AuthoringAssumption DEF AInv, DueSoon
  <2>3. sched \in SUBSET ScheduleRow /\ \A x \in sched : RowsExist(d, x.rows)
    BY <1>2, <1>7, <1>8, <1>9, <2>0, <2>2, SchedulesResolve
  <2> QED  BY <1>8, <2>1, <2>3
<1>11. Registered(db, w, g, db.reg, reg, "webhook") /\ Registered(db, w, g, db.sched, sched, "schedule")
  <2>0. TriggerRows(db, db.reg, "webhook") /\ TriggerRows(db, db.sched, "schedule")
    BY <1>6 DEF SerialRows
  <2>1. Addresses(c, d, g, {x.token : x \in RegistrationsOf(db, w)}, reg)
    <3>1. Addresses(c, d, s.ver[DraftId(s, w)].graph, {x.token : x \in RegistrationsOf(s, w)}, reg)
      BY WebhookTable
    <3> QED  BY <1>3, <3>1
  <2>2. DueTimes(c, d, g, {x.id : x \in SchedulesOf(db, w)}, sched)
    <3>1. DueTimes(c, d, s.ver[DraftId(s, w)].graph, {x.id : x \in SchedulesOf(s, w)}, sched)
      BY ScheduleTable
    <3> QED  BY <1>3, <3>1
  <2> HIDE DEF d, g, w
  <2>3. Registered(db, w, g, db.reg, reg, "webhook")
    BY <1>7, <1>8, <1>9, <2>0, <2>1, WebhookRegistered
  <2>4. Registered(db, w, g, db.sched, sched, "schedule")
    BY <1>7, <1>8, <1>9, <2>0, <2>2, ScheduleRegistered
  <2> QED  BY <2>3, <2>4
<1>12. db'.reg = reg /\ db'.sched = sched /\ Promotes(db, db', w, v) /\ db'.ver[v].no = no
  <2>1. HasDraft(db, w)
    BY <1>4
  <2> HIDE DEF w
  <2> QED  BY <1>2, <1>5, <1>6, <1>10, <2>1, PublishIsSound
<1>13. /\ Registered(db, w, db.ver[v].graph, db.reg, db'.reg, "webhook")
       /\ Registered(db, w, db.ver[v].graph, db.sched, db'.sched, "schedule")
       /\ Valid(db.ver[v].graph) /\ db'.ver[v].graph = db.ver[v].graph
       /\ db'.ver[v].no = NextVersionNo(db, w)
  BY <1>4, <1>6, <1>11, <1>12 DEF Promotes
<1> HIDE DEF d, v, w, s, no, g
<1>14. /\ SerialRows(db', rows) /\ \A x \in db.reg : \E y \in db'.reg : KeyOf(y) = KeyOf(x)
       /\ \A y \in db'.sched : y \in db.sched \/ y.rows = db.ver[v].graph.rows
  BY <1>2, <1>6, <1>12, <1>13, PublishedSerially
<1>15. Kept
  <2>1. \A x \in RegistrationRow : KeyOf(x) = x.token
    BY DEF KeyOf, RegistrationRow
  <2>2. \A x \in db.reg : \E y \in db'.reg : y.token = x.token
    BY <1>9, <1>10, <1>12, <1>14, <2>1
  <2> QED  BY <1>6, <1>12, <1>13, <1>14, <2>2 DEF Kept, Promotes
<1> QED  BY <1>4, <1>14, <1>15

\* A use case that writes one draft, on rows of its own, changes nothing that was
\* published.
LEMMA DraftSerially ==
    ASSUME AInv, AInv', SerialInv, NEW c \in Clients, GetDraft(c) \/ ReplaceDraft(c)
    PROVE  SerialRows(db', rows') /\ Kept
           /\ (ReplaceDraft(c) /\ last'.same => last'.read = last'.replaced)
<1> DEFINE w == tx[c].wf
           v == DraftId(db, w)
           d == Ensured(db, w)
           row == DraftRow(db, w)
<1>0. /\ tx[c] # NoTx /\ tx[c].op # "none" /\ Shows(tx[c].db, db)
  BY DEF GetDraft, ReplaceDraft, Committing, NoTx, SerialInv, SnapshotIsCurrent
<1>1. /\ tx[c] # NoTx /\ tx[c].op # "none"
      /\ DraftId(tx[c].db, w) = v /\ (HasDraft(tx[c].db, w) <=> HasDraft(db, w))
      /\ Copies(tx[c].db, w) = Copies(db, w) /\ Ensured(tx[c].db, w) = d
      /\ DraftRow(tx[c].db, w) = row
  <2> HIDE DEF w
  <2> QED  BY <1>0, SnapshotReads
<1>2. w \in Workflows /\ Follows(db, db) /\ RowsSound(db) /\ rows \in 0 .. MaxRows
  BY <1>1, OpenTx, FollowsItself DEF AInv, RowsSound
<1>3. HasDraft(db, w) \/ CanCreateDraft(db, w)
  BY <1>1 DEF GetDraft, ReplaceDraft
<1>4. rows + Copies(db, w) <= MaxRows
  BY <1>1, AuthoringAssumption DEF GetDraft, ReplaceDraft, AInv, Copies
<1>5. /\ RowsSound(d) /\ d.wf = db.wf /\ v \in VersionIds /\ InUse(d, v)
      /\ \/ HasDraft(db, w) /\ v \in Drafts(db, w) /\ d = db
         \/ /\ ~ HasDraft(db, w) /\ ~ InUse(db, v) /\ d.ver[v] = NewDraft(db, w)
            /\ \A u \in VersionIds \ {v} : d.ver[u] = db.ver[u]
            /\ d.reg = db.reg /\ d.sched = db.sched
  <2> HIDE DEF w
  <2> QED  BY <1>2, <1>3, <1>4, EnsuredIsSound
<1>6. RowsApart(db, rows) /\ TriggerRows(db, db.reg, "webhook")
      /\ TriggerRows(db, db.sched, "schedule") /\ SerialRows(db, rows)
  BY DEF SerialInv, SerialRows
<1>7. CASE GetDraft(c)
  <2>1. db' = d /\ rows' = rows + Copies(db, w)
    BY <1>1, <1>7 DEF GetDraft
  <2>2. CASE HasDraft(db, w)
    <3>1. d = db /\ rows' = rows
      BY <1>2, <2>1, <2>2 DEF Copies, Ensured
    <3> HIDE DEF d
    <3> QED  BY <1>6, <2>1, <3>1, <1>7 DEF Kept, GetDraft, ReplaceDraft, Committing
  <2>3. CASE ~ HasDraft(db, w)
    <3>1. d.ver[v] = NewDraft(db, w) /\ ~ InUse(db, v)
      BY <1>5, <2>3
    <3>2. /\ ~ IsPublished(db, v) /\ ~ IsPublished(d, v)
          /\ d.ver[v].graph.rows = 0 \/ d.ver[v].graph.rows \in (rows + 1) .. rows'
      <4>1. db.wf[w].active = None => d.ver[v].graph.rows = 0
        <5> HIDE DEF d, v, w
        <5> QED  BY <1>2, <3>1, NewDraftRows DEF RowsSound
      <4>2. db.wf[w].active # None => d.ver[v].graph.rows = rows + 1 /\ rows' = rows + 1
        <5> HIDE DEF d, v, w
        <5> QED  BY <1>2, <2>1, <2>3, <3>1, NewDraftRows DEF Copies, RowsSound
      <4>3. d.ver[v].status = "DRAFT" /\ db.ver[v].status = "UNUSED"
        <5>1. db \in Database /\ (db.wf[w].active # None => rows + 1 <= MaxRows)
          BY <1>2, <1>4, <2>3 DEF RowsSound, Copies
        <5> HIDE DEF d, v, w
        <5> QED  BY <1>2, <3>1, <5>1, NewDraftIsRow DEF InUse
      <4>4. ~ IsPublished(db, v) /\ ~ IsPublished(d, v)
        BY <4>3 DEF IsPublished
      <4>5. d.ver[v].graph.rows = 0 \/ d.ver[v].graph.rows \in (rows + 1) .. rows'
        BY <1>2, <4>1, <4>2
      <4> QED  BY <4>4, <4>5
    <3>3. rows \in Nat /\ rows' \in Nat /\ rows <= rows'
      BY <1>2, <2>1, AuthoringAssumption DEF Copies
    <3>4. /\ \A u \in VersionIds \ {v} : d.ver[u] = db.ver[u]
          /\ d.reg = db.reg /\ d.sched = db.sched
      BY <1>5, <2>3
    <3> HIDE DEF d, v
    <3>5. SerialRows(d, rows')
      BY <1>2, <1>5, <1>6, <3>2, <3>3, <3>4, DraftWritten
    <3>6. Kept
      BY <2>1, <3>2, <3>4 DEF Kept
    <3> QED  BY <1>7, <2>1, <3>5, <3>6 DEF GetDraft, ReplaceDraft, Committing
  <2> QED  BY <2>2, <2>3
<1>8. CASE ReplaceDraft(c)
  <2> DEFINE g == [rows |-> rows + 1, content |-> rows + 1, trigger |-> tx[c].trigger]
             e == Replaced(d, v, g, row.rev)
  <2>1. /\ db' = e /\ rows' = rows + 1 /\ rows < MaxRows /\ row.rev = view[c].rev
        /\ last' = [same |-> view[c].ver = v, read |-> view[c].content,
                    replaced |-> d.ver[v].graph.content]
    BY <1>1, <1>8 DEF ReplaceDraft, StillCurrent
  <2>2. g \in Graph
    <3>1. tx[c].trigger \in Triggers
      BY <1>1, OpenTx
    <3> QED  BY <1>2, <2>1, <3>1, AuthoringAssumption DEF Graph
  <2>3. g.rows = rows + 1
    OBVIOUS
  <2> HIDE DEF g
  <2>4. /\ RowsSound(e) /\ e.wf = d.wf /\ e.ver[v].graph = g
        /\ e.ver[v].status = d.ver[v].status
        /\ \A u \in VersionIds \ {v} : e.ver[u] = d.ver[u]
        /\ e.reg = {x \in d.reg : x.rows # d.ver[v].graph.rows}
        /\ e.sched = {x \in d.sched : x.rows # d.ver[v].graph.rows}
    <3> HIDE DEF d, v, row
    <3> QED  BY <1>5, <2>2, ReplacedIsSound
  <2>5. /\ ~ IsPublished(db, v) /\ ~ IsPublished(d, v)
        /\ d.reg = db.reg /\ d.sched = db.sched
        /\ \A u \in VersionIds \ {v} : d.ver[u] = db.ver[u]
    <3>1. CASE HasDraft(db, w)
      BY <1>5, <3>1 DEF Drafts, IsPublished
    <3>2. CASE ~ HasDraft(db, w)
      <4>1. d.ver[v] = NewDraft(db, w) /\ db.ver[v].status = "UNUSED"
        BY <1>5, <3>2 DEF InUse
      <4>2. db \in Database /\ rows + 1 <= MaxRows
        BY <1>2, <2>1, AuthoringAssumption DEF RowsSound
      <4>3. d.ver[v].status = "DRAFT"
        <5> HIDE DEF d, v, w
        <5> QED  BY <1>2, <4>1, <4>2, NewDraftIsRow
      <4>4. /\ d.reg = db.reg /\ d.sched = db.sched
            /\ \A u \in VersionIds \ {v} : d.ver[u] = db.ver[u]
        BY <1>5, <3>2
      <4> HIDE DEF d, v, w
      <4> QED  BY <4>1, <4>3, <4>4 DEF IsPublished
    <3> QED  BY <3>1, <3>2
  <2>6. \A x \in db.reg \cup db.sched : x.rows # d.ver[v].graph.rows
    <3>1. ASSUME NEW x \in db.reg \cup db.sched, x.rows = d.ver[v].graph.rows
          PROVE  FALSE
      <4>1. PICK u \in VersionIds : IsPublished(db, u) /\ db.ver[u].graph.rows = x.rows /\ x.rows # 0
        BY <1>6, <3>1 DEF TriggerRows
      <4>2. u # v /\ d.ver[u] = db.ver[u]
        BY <2>5, <4>1
      <4>3. CASE d = db
        BY <1>5, <1>6, <3>1, <4>1, <4>2, <4>3 DEF RowsApart
      <4>4. CASE d # db
        <5>1. d.ver[v] = NewDraft(db, w)
          BY <1>5, <4>4
        <5>2. d.ver[v].graph.rows \in {0, rows + 1}
          <6> HIDE DEF d, v, w
          <6> QED  BY <1>2, <5>1, NewDraftRows DEF RowsSound
        <5>3. db.ver[u].graph.rows \in 0 .. rows
          BY <1>6 DEF RowsApart
        <5>4. x.rows \in {0, rows + 1} /\ x.rows \in 0 .. rows /\ x.rows # 0
          BY <3>1, <4>1, <5>2, <5>3
        <5>5. rows \in Nat
          BY <1>2
        <5> QED  BY <5>4, <5>5
      <4> QED  BY <4>3, <4>4
    <3> QED  BY <3>1
  <2>7. e.reg = db.reg /\ e.sched = db.sched
    BY <2>4, <2>5, <2>6
  <2>8. rows \in Nat /\ rows' \in Nat /\ rows <= rows' /\ e.ver[v].graph.rows \in (rows + 1) .. rows'
    <3>1. rows \in Nat /\ rows' = rows + 1 /\ e.ver[v].graph.rows = rows + 1
      <4> HIDE DEF e, d, v, w, row
      <4> QED  BY <1>2, <2>1, <2>3, <2>4, AuthoringAssumption
    <3> HIDE DEF e, d, v, w
    <3> QED  BY <3>1
  <2>9. ~ IsPublished(e, v)
    BY <2>4, <2>5 DEF IsPublished
  <2> HIDE DEF e
  <2>10. SerialRows(e, rows')
    <3> HIDE DEF d, v
    <3> QED  BY <1>2, <1>5, <1>6, <2>4, <2>5, <2>7, <2>8, <2>9, DraftWritten
  <2>11. Kept
    BY <2>1, <2>4, <2>5, <2>7 DEF Kept
  <2>12. ASSUME view[c].ver = v  PROVE view[c].content = d.ver[v].graph.content
    <3>1. ViewIsSound(view[c]) /\ v # None
      BY <1>5, AuthoringAssumption DEF AInv, None
    <3>2. InUse(db, v)
      BY <2>12, <3>1 DEF ViewIsSound
    <3>3. HasDraft(db, w) /\ d = db
      BY <1>5, <3>2
    <3>4. row = db.ver[v]
      BY <3>3 DEF DraftRow
    <3> QED  BY <2>1, <2>12, <3>1, <3>3, <3>4 DEF ViewIsSound
  <2> QED  BY <2>1, <2>10, <2>11, <2>12
<1> QED  BY <1>7, <1>8


LEMMA OpenOne ==
    ASSUME Cardinality(Open') <= 1
    PROVE  OneAtATime'
<1> SUFFICES ASSUME NEW b \in Clients, NEW c \in Clients, tx'[b] # NoTx, tx'[c] # NoTx, b # c
             PROVE  FALSE
  BY DEF OneAtATime
<1>1. Open' \subseteq Clients /\ IsFiniteSet(Clients) /\ {b, c} \subseteq Open'
  BY AuthoringAssumption DEF Open
<1>2. IsFiniteSet(Open')
  BY <1>1, FS_Subset
<1>3. Cardinality({b, c}) <= Cardinality(Open')
  BY <1>1, <1>2, FS_Subset
<1>4. Cardinality({b, c}) = 2
  <2> DEFINE S == {b}
  <2>1. Cardinality(S) = 1 /\ IsFiniteSet(S) /\ c \notin S
    BY FS_Singleton
  <2>2. S \cup {c} = {b, c}
    OBVIOUS
  <2> HIDE DEF S
  <2>3. Cardinality(S \cup {c}) = Cardinality(S) + 1
    BY <2>1, FS_AddElement
  <2> QED  BY <2>1, <2>2, <2>3
<1>5. Cardinality(Open') \in Nat
  BY <1>2, FS_CardinalityType
<1> QED  BY <1>3, <1>4, <1>5

\* The rows of a workflow renamed, deleted or created say nothing new of what fires.
LEMMA NamesSerially ==
    ASSUME AInv, SerialInv, NEW c \in Clients, Create(c) \/ UpdateMetadata(c) \/ SoftDelete(c)
    PROVE  SerialRows(db', rows') /\ Kept
<1>1. /\ db'.ver = db.ver /\ db'.reg = db.reg /\ db'.sched = db.sched /\ rows' = rows
      /\ \A w \in Workflows : db'.wf[w].active \in {None, db.wf[w].active}
  BY NamesKeep DEF Create, UpdateMetadata, SoftDelete
<1>2. SerialRows(db, rows)
  BY DEF SerialInv
<1>3. RowsApart(db', rows) /\ ValidOnce(db')
  BY <1>1, <1>2 DEF SerialRows, RowsApart, ValidOnce, IsPublished
<1>4. TriggerFires(db')
  BY <1>1, <1>2 DEF SerialRows, TriggerFires
<1>5. \A w : RowsOf(db', w) = RowsOf(db, w)
  BY <1>1 DEF RowsOf, VersionsOf
<1>6. TriggerRows(db', db.reg, "webhook") /\ TriggerRows(db', db.sched, "schedule")
  BY <1>1, <1>2, <1>5 DEF SerialRows, TriggerRows, IsPublished
<1>7. Kept
  BY <1>1 DEF Kept
<1>8. \A w : PublishedOf(db', w) = PublishedOf(db, w)
  BY <1>1 DEF PublishedOf, VersionsOf, IsPublished
<1>9. NewestRuns(db')
  BY <1>1, <1>2, <1>8 DEF SerialRows, NewestRuns
<1> QED  BY <1>1, <1>3, <1>4, <1>6, <1>7, <1>9 DEF SerialRows

\* One request at a time: whoever commits was alone, and its snapshot was current.
LEMMA SerialStep ==
    ASSUME AInv, AInv', SerialInv, [AuthoringNext]_authoringVars, OneAtATime'
    PROVE  SerialInv' /\ Kept
<1>1. ASSUME UNCHANGED <<db, rows, last>>,
             \A b \in Clients : tx'[b] = NoTx \/ tx'[b] = tx[b] \/ tx'[b].db = db
      PROVE  SerialInv' /\ Kept
  <2>1. Shows(db, db)
    BY DEF Shows
  <2> QED  BY <1>1, <2>1 DEF SerialInv, SnapshotIsCurrent, SerialRows, SaveReplacesWhatWasRead, Kept
<1>2. ASSUME NEW c \in Clients, tx[c] # NoTx, Ends(c), SerialRows(db', rows'), Kept,
             SaveReplacesWhatWasRead'
      PROVE  SerialInv' /\ Kept
  <2>1. \A b \in Clients : tx'[b] = NoTx
    BY <1>2 DEF AInv, SerialInv, OneAtATime, Ends
  <2> QED  BY <1>2, <2>1 DEF SerialInv, SnapshotIsCurrent
<1>3. ASSUME NEW c \in Clients, AuthoringStep(c)  PROVE SerialInv' /\ Kept
  <2>1. CASE AnyRequest(c)
    <3>1. PICK op, w, n, t : Begin(c, op, w, n, t)
      BY <2>1 DEF AnyRequest
    <3> DEFINE new == [op |-> op, wf |-> w, name |-> n, trigger |-> t, at |-> now, db |-> db]
    <3>2. tx' = [tx EXCEPT ![c] = new] /\ new.db = db /\ UNCHANGED <<db, rows, last>>
      BY <3>1 DEF Begin
    <3> HIDE DEF new
    <3> QED  BY <1>1, <3>2 DEF AInv
  <2>2. CASE Abort(c)
    BY <1>1, <2>2 DEF Abort, AInv
  <2>3. CASE Create(c) \/ UpdateMetadata(c) \/ SoftDelete(c)
    <3>1. tx[c] # NoTx /\ Ends(c) /\ last' = last
      BY <2>3 DEF Create, UpdateMetadata, SoftDelete, Committing, NoTx
    <3>2. SaveReplacesWhatWasRead'
      BY <3>1 DEF SerialInv, SaveReplacesWhatWasRead
    <3> QED  BY <1>2, <2>3, <3>1, <3>2, NamesSerially
  <2>4. CASE GetDraft(c)
    <3>1. tx[c] # NoTx /\ Ends(c) /\ last' = last
      BY <2>4 DEF GetDraft, NoTx
    <3>2. SaveReplacesWhatWasRead'
      BY <3>1 DEF SerialInv, SaveReplacesWhatWasRead
    <3> QED  BY <1>2, <2>4, <3>1, <3>2, DraftSerially
  <2>5. CASE ReplaceDraft(c)
    <3>1. tx[c] # NoTx /\ Ends(c)
      <4>1. tx[c].op = "save" /\ Ends(c)
        BY <2>5 DEF ReplaceDraft, Committing
      <4> QED  BY <4>1 DEF NoTx
    <3>2. SerialRows(db', rows') /\ Kept /\ SaveReplacesWhatWasRead'
      BY <2>5, DraftSerially DEF SaveReplacesWhatWasRead
    <3> QED  BY <1>2, <3>1, <3>2
  <2>6. CASE Publish(c)
    <3>1. tx[c] # NoTx /\ Ends(c) /\ last' = last
      <4>1. tx[c].op = "publish" /\ Ends(c) /\ last' = last
        BY <2>6 DEF Publish, Committing
      <4> QED  BY <4>1 DEF NoTx
    <3>2. SaveReplacesWhatWasRead'
      BY <3>1 DEF SerialInv, SaveReplacesWhatWasRead
    <3> QED  BY <1>2, <2>6, <3>1, <3>2, PublishSerially
  <2> QED  BY <1>3, <2>1, <2>2, <2>3, <2>4, <2>5, <2>6 DEF AuthoringStep
<1>4. CASE PassTime
  BY <1>1, <1>4 DEF PassTime
<1>5. CASE UNCHANGED authoringVars
  BY <1>1, <1>5 DEF authoringVars
<1> QED  BY <1>3, <1>4, <1>5 DEF AuthoringNext

LEMMA SerialInit == ASSUME AuthoringInit PROVE SerialInv
<1>1. /\ db.ver = [v \in VersionIds |-> Unused] /\ db.reg = {} /\ db.sched = {} /\ rows = 0
      /\ db.wf = [w \in Workflows |-> [name |-> NoName, deleted |-> FALSE, active |-> None]]
      /\ tx = [c \in Clients |-> NoTx] /\ last.same = TRUE /\ last.read = last.replaced
  BY DEF AuthoringInit
<1>2. \A v \in VersionIds : ~ IsPublished(db, v) /\ db.ver[v].graph.rows = 0
  BY <1>1 DEF IsPublished, Unused, Empty
<1>3. RowsApart(db, rows) /\ ValidOnce(db) /\ TriggerFires(db)
  BY <1>1, <1>2 DEF RowsApart, ValidOnce, TriggerFires
<1>4. TriggerRows(db, db.reg, "webhook") /\ TriggerRows(db, db.sched, "schedule") /\ NewestRuns(db)
  BY <1>1 DEF TriggerRows, NewestRuns
<1>5. OneAtATime /\ SnapshotIsCurrent /\ SaveReplacesWhatWasRead
  BY <1>1 DEF OneAtATime, SnapshotIsCurrent, SaveReplacesWhatWasRead
<1> QED  BY <1>3, <1>4, <1>5 DEF SerialInv, SerialRows

SerialInvInScenario == scenario = "serial" => SerialInv

\* What every step of the composed scenarios does.
LEMMA ScenarioStep ==
    ASSUME AInv, SerialInvInScenario, [MCNext]_<<authoringVars, scenario>>
    PROVE  AInv' /\ SerialInvInScenario' /\ (scenario = "serial" => Kept)
<1>1. [AuthoringNext]_authoringVars /\ scenario' = scenario
  BY DEF MCNext, authoringVars
<1>2. AInv'
  BY <1>1, AuthoringKeeps
<1>3. ASSUME scenario = "serial", MCNext  PROVE SerialInv' /\ Kept
  <2>1. Cardinality(Open') <= 1
    BY <1>1, <1>3 DEF MCNext, Within, Serial
  <2> QED  BY <1>1, <1>2, <1>3, <2>1, OpenOne, SerialStep DEF SerialInvInScenario
<1>4. ASSUME scenario = "serial", UNCHANGED <<authoringVars, scenario>>
      PROVE  SerialInv' /\ Kept
  <2>1. OneAtATime'
    BY <1>4 DEF authoringVars, SerialInvInScenario, SerialInv, OneAtATime
  <2> QED  BY <1>1, <1>2, <1>4, <2>1, SerialStep DEF SerialInvInScenario
<1> QED  BY <1>1, <1>2, <1>3, <1>4 DEF SerialInvInScenario

LEMMA ScenarioInit == ASSUME MCInit PROVE AInv /\ SerialInvInScenario
BY AInvInit, SerialInit DEF MCInit, SerialInvInScenario

LEMMA AtMostOne ==
    ASSUME NEW S, \A x, y \in S : x = y
    PROVE  Cardinality(S) <= 1
<1>1. CASE S = {}
  BY <1>1, FS_EmptySet
<1>2. ASSUME NEW a \in S  PROVE Cardinality(S) <= 1
  <2>1. S = {a}
    BY <1>2
  <2> QED  BY <2>1, FS_Singleton
<1> QED  BY <1>1, <1>2

\* As long as requests do not overlap, what is published has passed validation
\* (publish), a workflow has at most one address and one schedule and the trigger of
\* the version it runs is among them (_register_webhook_trigger,
\* _register_schedule_trigger), and a save replaces what its author had received
\* (replace_draft).
THEOREM RequestsOneByOneAreSound == MCSpec => []SeriallySound
<1>1. ASSUME AInv, SerialInvInScenario  PROVE SeriallySound
  <2> SUFFICES ASSUME scenario = "serial"
               PROVE  PublishedIsValid /\ OneAddress /\ OneSchedule
                      /\ ActiveTriggerFires /\ SaveReplacesWhatWasRead
    BY DEF SeriallySound
  <2>1. SerialInv
    BY <1>1 DEF SerialInvInScenario
  <2>2. PublishedIsValid /\ SaveReplacesWhatWasRead
    BY <2>1 DEF SerialInv, SerialRows, ValidOnce, PublishedIsValid
  <2>3. ActiveTriggerFires
    BY <2>1 DEF SerialInv, SerialRows, TriggerFires, FiresIn, ActiveTriggerFires
  <2>4. OneAddress
    <3>1. ASSUME NEW w \in Workflows
          PROVE  Cardinality({x \in db.reg : x.rows \in RowsOf(db, w)}) <= 1
      BY <2>1, AtMostOne DEF SerialInv, SerialRows, TriggerRows
    <3> QED  BY <3>1 DEF OneAddress
  <2>5. OneSchedule
    <3>1. ASSUME NEW w \in Workflows
          PROVE  Cardinality({x \in db.sched : x.rows \in RowsOf(db, w)}) <= 1
      BY <2>1, AtMostOne DEF SerialInv, SerialRows, TriggerRows
    <3> QED  BY <3>1 DEF OneSchedule
  <2> QED  BY <2>2, <2>3, <2>4, <2>5
<1> QED  BY <1>1, ScenarioInit, ScenarioStep, PTL DEF MCSpec

\* As long as requests do not overlap, a published version never changes (ADR-026)
\* and no address that was minted is withdrawn or exchanged.
THEOREM RequestsOneByOneArePermanent == MCSpec => SeriallyPermanent
<1>1. ASSUME AInv, SerialInvInScenario, [MCNext]_<<authoringVars, scenario>>
      PROVE  [scenario = "serial" =>
                /\ \A v \in VersionIds : IsPublished(db, v) => db'.ver[v].graph = db.ver[v].graph
                /\ \A x \in db.reg : \E y \in db'.reg : y.token = x.token]_authoringVars
  BY <1>1, ScenarioStep DEF Kept
<1> QED  BY <1>1, ScenarioInit, ScenarioStep, PTL DEF MCSpec, SeriallyPermanent
=============================================================================
