--------------------------- MODULE SessionsProofs ---------------------------
(***************************************************************************)
(* Proofs about Sessions, for any addresses, names and clients and every   *)
(* bound on tokens and links.                                              *)
(***************************************************************************)
EXTENDS MCSessions, TLAPS, FiniteSetTheorems, SequenceTheorems

\* The slugs an account may have: none yet, the plain one, a numbered or a unique one.
Slugs ==
    {<<name>> : name \in OrganizationNames}
        \cup {<<p[1], p[2]>> : p \in OrganizationNames \X (Nat \cup Emails)}

Typed ==
    /\ accounts \in [Emails -> [slug : Slugs \cup {<<>>}, pw : Nat]]
    /\ resets \in [Emails -> Nat]
    /\ tokens \in Seq(RefreshToken) /\ Len(tokens) <= MaxTokens
    /\ grants \in Seq(Grant) /\ Len(grants) <= MaxGrants

\* What an open transaction remembers. The row a refresh or a reset locked is still
\* as it was read: that is what FOR UPDATE is for.
TxIsSound(t) ==
    \/ t = NoTx
    \/ t.op = "register" /\ t.user \in Emails /\ t.slug \in Slugs
    \/ t.op = "login" /\ t.user \in Emails /\ t.pw \in Nat /\ t.pw <= resets[t.user]
                      /\ Registered(accounts, t.user)
    \/ t.op = "refresh" /\ t.token \in DOMAIN tokens /\ t.row = tokens[t.token]
    \/ t.op = "forgot" /\ t.user \in Emails /\ Registered(accounts, t.user)
    \/ t.op = "reset" /\ t.grant \in DOMAIN grants /\ t.row = grants[t.grant]

TxsAreSound == DOMAIN tx = Clients /\ \A c \in Clients : TxIsSound(tx[c])

\* FOR UPDATE is exclusive.
LocksAreExclusive ==
    \A b, c \in Clients : b # c =>
        /\ tx[b].op = "refresh" /\ tx[c].op = "refresh" => tx[b].token # tx[c].token
        /\ tx[b].op = "reset" /\ tx[c].op = "reset" => tx[b].grant # tx[c].grant

\* A family is named by one of its own tokens, so a login's is new; and only a
\* family that exists is ended. A family is one account's.
FamiliesAreSound ==
    /\ \A t \in DOMAIN tokens : tokens[t].fam <= t
    /\ \A t, u \in DOMAIN tokens : tokens[t].fam = tokens[u].fam => tokens[t].user = tokens[u].user
    /\ ended \subseteq 1 .. Len(tokens)

OneLive ==
    \A t, u \in DOMAIN tokens :
        IsLive(t) /\ IsLive(u) /\ tokens[t].fam = tokens[u].fam => t = u

\* A link that works is the newest of its account and was never used.
NewestWorks ==
    \A g \in DOMAIN grants : Outstanding(g) =>
        /\ grants[g].used = 0
        /\ \A h \in GrantsOf(grants[g].user) : h <= g

\* Nothing is recorded of an address that never registered.
OnlyRegistered ==
    /\ \A t \in DOMAIN tokens : Registered(accounts, tokens[t].user)
    /\ \A g \in DOMAIN grants : Registered(accounts, grants[g].user)
    /\ \A e \in Emails : /\ accounts[e].pw <= resets[e]
                         /\ ~ Registered(accounts, e) => resets[e] = 0

SInv ==
    /\ Typed /\ TxsAreSound /\ LocksAreExclusive /\ FamiliesAreSound /\ OneLive
    /\ EndedStaysEnded /\ NewestWorks /\ OnlyRegistered

-----------------------------------------------------------------------------
(* Rows *)

LEMMA RowTypes ==
    ASSUME Typed
    PROVE  /\ DOMAIN tokens = 1 .. Len(tokens) /\ Len(tokens) \in Nat
           /\ DOMAIN grants = 1 .. Len(grants) /\ Len(grants) \in Nat
           /\ \A t \in DOMAIN tokens : tokens[t] \in RefreshToken /\ tokens[t].user \in Emails
           /\ \A g \in DOMAIN grants : grants[g] \in Grant /\ grants[g].user \in Emails
<1>1. /\ DOMAIN tokens = 1 .. Len(tokens) /\ Len(tokens) \in Nat
      /\ DOMAIN grants = 1 .. Len(grants) /\ Len(grants) \in Nat
      /\ \A t \in DOMAIN tokens : tokens[t] \in RefreshToken
      /\ \A g \in DOMAIN grants : grants[g] \in Grant
  BY DEF Typed
<1>2. \A r \in RefreshToken : r.user \in Emails
  BY DEF RefreshToken
<1>3. \A r \in Grant : r.user \in Emails
  BY DEF Grant
<1> QED  BY <1>1, <1>2, <1>3

\* Revoking keeps every row and changes one column of some.
LEMMA RevokedRows ==
    ASSUME Typed, NEW ts
    PROVE  /\ Revoked(ts) \in Seq(RefreshToken) /\ Len(Revoked(ts)) = Len(tokens)
           /\ DOMAIN Revoked(ts) = DOMAIN tokens
           /\ \A t \in DOMAIN tokens :
                /\ Revoked(ts)[t].user = tokens[t].user /\ Revoked(ts)[t].fam = tokens[t].fam
                /\ Revoked(ts)[t].pw = tokens[t].pw
                /\ Revoked(ts)[t].revoked = (tokens[t].revoked \/ t \in ts)
                /\ tokens[t].revoked => Revoked(ts)[t].revoked
                /\ t \notin ts => Revoked(ts)[t] = tokens[t]
<1>1. DOMAIN tokens = 1 .. Len(tokens) /\ Len(tokens) \in Nat
      /\ \A t \in DOMAIN tokens : tokens[t] \in RefreshToken
  BY DEF Typed
<1>2. ASSUME NEW t \in DOMAIN tokens
      PROVE  /\ [tokens[t] EXCEPT !.revoked = @ \/ t \in ts] \in RefreshToken
             /\ t \notin ts => [tokens[t] EXCEPT !.revoked = @ \/ t \in ts] = tokens[t]
  <2>1. tokens[t] \in RefreshToken
    BY <1>1
  <2> QED  BY <2>1 DEF RefreshToken
<1>3. Revoked(ts) \in [1 .. Len(tokens) -> RefreshToken]
  BY <1>1, <1>2 DEF Revoked
<1>4. Revoked(ts) \in Seq(RefreshToken) /\ Len(Revoked(ts)) = Len(tokens)
  BY <1>1, <1>3
<1>5. ASSUME NEW t \in DOMAIN tokens
      PROVE  /\ Revoked(ts)[t].user = tokens[t].user /\ Revoked(ts)[t].fam = tokens[t].fam
             /\ Revoked(ts)[t].pw = tokens[t].pw
             /\ Revoked(ts)[t].revoked = (tokens[t].revoked \/ t \in ts)
             /\ tokens[t].revoked => Revoked(ts)[t].revoked
             /\ t \notin ts => Revoked(ts)[t] = tokens[t]
  <2>1. tokens[t] \in RefreshToken
    BY <1>1
  <2> QED  BY <1>2, <2>1 DEF Revoked, RefreshToken
<1> QED  BY <1>3, <1>4, <1>5, <1>1

LEMMA ConsumedRows ==
    ASSUME Typed, NEW gs
    PROVE  /\ Consumed(gs) \in Seq(Grant) /\ Len(Consumed(gs)) = Len(grants)
           /\ DOMAIN Consumed(gs) = DOMAIN grants
           /\ \A g \in DOMAIN grants :
                /\ Consumed(gs)[g].user = grants[g].user /\ Consumed(gs)[g].used = grants[g].used
                /\ Consumed(gs)[g].consumed = (grants[g].consumed \/ g \in gs)
                /\ g \notin gs => Consumed(gs)[g] = grants[g]
<1>1. DOMAIN grants = 1 .. Len(grants) /\ Len(grants) \in Nat
      /\ \A g \in DOMAIN grants : grants[g] \in Grant
  BY DEF Typed
<1>2. ASSUME NEW g \in DOMAIN grants
      PROVE  /\ [grants[g] EXCEPT !.consumed = @ \/ g \in gs] \in Grant
             /\ g \notin gs => [grants[g] EXCEPT !.consumed = @ \/ g \in gs] = grants[g]
  <2>1. grants[g] \in Grant
    BY <1>1
  <2> QED  BY <2>1 DEF Grant
<1>3. Consumed(gs) \in [1 .. Len(grants) -> Grant]
  BY <1>1, <1>2 DEF Consumed
<1>4. Consumed(gs) \in Seq(Grant) /\ Len(Consumed(gs)) = Len(grants)
  BY <1>1, <1>3
<1>5. ASSUME NEW g \in DOMAIN grants
      PROVE  /\ Consumed(gs)[g].user = grants[g].user /\ Consumed(gs)[g].used = grants[g].used
             /\ Consumed(gs)[g].consumed = (grants[g].consumed \/ g \in gs)
             /\ g \notin gs => Consumed(gs)[g] = grants[g]
  <2>1. grants[g] \in Grant
    BY <1>1
  <2> QED  BY <1>2, <2>1 DEF Consumed, Grant
<1> QED  BY <1>3, <1>4, <1>5, <1>1


\* A token keeps its account and its family, and a revoked one stays so.
KeepsTokens ==
    \A t \in DOMAIN tokens : /\ tokens'[t].user = tokens[t].user /\ tokens'[t].fam = tokens[t].fam
                             /\ tokens[t].revoked => tokens'[t].revoked

\* No account gets its first token.
KnownAccounts ==
    \A u \in DOMAIN tokens' : \E v \in DOMAIN tokens : tokens'[u].user = tokens[v].user

\* What no transaction undoes: accounts stay, rows stay, a revoked token and a
\* consumed link stay so.
Grows ==
    /\ \A e \in Emails : Registered(accounts, e) => accounts'[e].slug = accounts[e].slug
    /\ \A e \in Emails : resets[e] <= resets'[e]
    /\ DOMAIN tokens \subseteq DOMAIN tokens' /\ DOMAIN grants \subseteq DOMAIN grants'
    /\ KeepsTokens
    /\ \A g \in DOMAIN grants : grants'[g].user = grants[g].user
                                /\ (grants[g].consumed => grants'[g].consumed)

\* The rows that another transaction locked are left alone.
RespectsLocks(c) ==
    \A b \in Clients \ {c} :
        /\ tx[b].op = "refresh" => tokens'[tx[b].token] = tokens[tx[b].token]
        /\ tx[b].op = "reset" => grants'[tx[b].grant] = grants[tx[b].grant]

\* A step of c that leaves the others' rows and locks nothing held by them keeps
\* every transaction's memory right and the locks exclusive.
LEMMA TxStep ==
    ASSUME SInv, Typed', NEW c \in Clients, Grows, RespectsLocks(c),
           DOMAIN tx' = Clients, \A b \in Clients \ {c} : tx'[b] = tx[b],
           TxIsSound(tx[c])',
           tx'[c].op = "refresh" => ~ HeldToken(c, {tx'[c].token}),
           tx'[c].op = "reset" => ~ HeldGrant(c, {tx'[c].grant})
    PROVE  TxsAreSound' /\ LocksAreExclusive'
<1>1. ASSUME NEW b \in Clients, b # c  PROVE TxIsSound(tx[b])'
  <2>1. TxIsSound(tx[b]) /\ tx'[b] = tx[b]
    BY <1>1 DEF SInv, TxsAreSound
  <2>2. CASE tx[b] = NoTx
    BY <2>1, <2>2 DEF TxIsSound
  <2>3. CASE tx[b].op = "register" /\ tx[b].user \in Emails /\ tx[b].slug \in Slugs
    BY <2>1, <2>3 DEF TxIsSound
  <2>4. CASE /\ tx[b].op = "login" /\ tx[b].user \in Emails /\ tx[b].pw \in Nat
             /\ tx[b].pw <= resets[tx[b].user] /\ Registered(accounts, tx[b].user)
    <3>1. /\ resets[tx[b].user] <= resets'[tx[b].user]
          /\ resets[tx[b].user] \in Nat /\ resets'[tx[b].user] \in Nat
          /\ Registered(accounts', tx[b].user)
      BY <2>4 DEF Grows, SInv, Typed, Registered
    <3>2. tx[b].pw <= resets'[tx[b].user]
      BY <2>4, <3>1
    <3> QED  BY <2>1, <2>4, <3>1, <3>2 DEF TxIsSound
  <2>5. CASE tx[b].op = "refresh" /\ tx[b].token \in DOMAIN tokens /\ tx[b].row = tokens[tx[b].token]
    BY <1>1, <2>1, <2>5 DEF TxIsSound, Grows, RespectsLocks
  <2>6. CASE tx[b].op = "forgot" /\ tx[b].user \in Emails /\ Registered(accounts, tx[b].user)
    BY <2>1, <2>6 DEF TxIsSound, Grows, Registered
  <2>7. CASE tx[b].op = "reset" /\ tx[b].grant \in DOMAIN grants /\ tx[b].row = grants[tx[b].grant]
    BY <1>1, <2>1, <2>7 DEF TxIsSound, Grows, RespectsLocks
  <2> QED  BY <2>1, <2>2, <2>3, <2>4, <2>5, <2>6, <2>7 DEF TxIsSound
<1>2. TxsAreSound'
  BY <1>1 DEF TxsAreSound
<1>3. ASSUME NEW a \in Clients, NEW b \in Clients, a # b
      PROVE  /\ tx'[a].op = "refresh" /\ tx'[b].op = "refresh" => tx'[a].token # tx'[b].token
             /\ tx'[a].op = "reset" /\ tx'[b].op = "reset" => tx'[a].grant # tx'[b].grant
  BY <1>3 DEF SInv, LocksAreExclusive, HeldToken, HeldGrant
<1> QED  BY <1>2, <1>3 DEF LocksAreExclusive

LEMMA EndsStep ==
    ASSUME SInv, Typed', NEW c \in Clients, Grows, RespectsLocks(c), Ends(c)
    PROVE  TxsAreSound' /\ LocksAreExclusive'
<1>1. DOMAIN tx' = Clients /\ (\A b \in Clients \ {c} : tx'[b] = tx[b]) /\ tx'[c] = NoTx
  BY DEF SInv, TxsAreSound, Ends
<1>2. TxIsSound(tx[c])' /\ tx'[c].op = "none"
  BY <1>1 DEF TxIsSound, NoTx
<1> QED  BY <1>1, <1>2, TxStep

\* What begins reads, and what aborts leaves, every row alone.
LEMMA ReadOnlyStep ==
    ASSUME SInv, NEW c \in Clients, UNCHANGED <<accounts, tokens, grants, resets, ended>>,
           NEW new, tx' = [tx EXCEPT ![c] = new], TxIsSound(new),
           new.op = "refresh" => ~ HeldToken(c, {new.token}),
           new.op = "reset" => ~ HeldGrant(c, {new.grant})
    PROVE  SInv'
<1>1. /\ Typed' /\ FamiliesAreSound' /\ OneLive' /\ EndedStaysEnded' /\ NewestWorks'
      /\ OnlyRegistered'
  BY DEF SInv, Typed, FamiliesAreSound, OneLive, EndedStaysEnded, NewestWorks, OnlyRegistered,
         IsLive, Outstanding, GrantsOf
<1>2. Grows /\ RespectsLocks(c)
  BY DEF SInv, Typed, Grows, KeepsTokens, RespectsLocks
<1>3. DOMAIN tx' = Clients /\ (\A b \in Clients \ {c} : tx'[b] = tx[b]) /\ tx'[c] = new
  BY DEF SInv, TxsAreSound
<1>4. TxIsSound(tx[c])'
  BY <1>3 DEF TxIsSound
<1>5. TxsAreSound' /\ LocksAreExclusive'
  BY <1>1, <1>2, <1>3, <1>4, TxStep
<1> QED  BY <1>1, <1>5 DEF SInv

-----------------------------------------------------------------------------
(* One lemma per kind of transaction *)

LEMMA BeginsAreSound ==
    ASSUME SInv, NEW c \in Clients,
           \/ \E e \in Emails : \/ \E name \in OrganizationNames : BeginRegister(c, e, name)
                                \/ BeginLogin(c, e) \/ BeginForgot(c, e)
           \/ \E t \in DOMAIN tokens : BeginRefresh(c, t)
           \/ \E g \in DOMAIN grants : BeginReset(c, g)
           \/ Abort(c)
    PROVE  SInv'
<1>1. ASSUME NEW e \in Emails, NEW name \in OrganizationNames, BeginRegister(c, e, name)
      PROVE  SInv'
  <2>1. PICK s \in AvailableSlugs(accounts, name, e) :
            tx' = [tx EXCEPT ![c] = [op |-> "register", user |-> e, slug |-> s,
                                     seen |-> {d \in Emails : Registered(accounts, d)}]]
    BY <1>1 DEF BeginRegister
  <2>2. s \in Candidates(name) \cup {<<name, e>>}
    BY DEF AvailableSlugs, FreeSlugs
  <2>3. s \in Slugs
    BY <2>2, SessionsAssumption DEF Slugs, Candidates
  <2>4. TxIsSound([op |-> "register", user |-> e, slug |-> s,
                   seen |-> {d \in Emails : Registered(accounts, d)}])
    BY <2>3 DEF TxIsSound
  <2> QED  BY <1>1, <2>1, <2>4, ReadOnlyStep DEF BeginRegister
<1>2. ASSUME NEW e \in Emails, BeginLogin(c, e)  PROVE SInv'
  <2>1. TxIsSound([op |-> "login", user |-> e, pw |-> accounts[e].pw])
    BY <1>2 DEF BeginLogin, TxIsSound, SInv, OnlyRegistered, Typed
  <2> QED  BY <1>2, <2>1, ReadOnlyStep DEF BeginLogin
<1>3. ASSUME NEW e \in Emails, BeginForgot(c, e)  PROVE SInv'
  <2>1. TxIsSound([op |-> "forgot", user |-> e, seen |-> GrantsOf(e)])
    BY <1>3 DEF BeginForgot, TxIsSound
  <2> QED  BY <1>3, <2>1, ReadOnlyStep DEF BeginForgot
<1>4. ASSUME NEW t \in DOMAIN tokens, BeginRefresh(c, t)  PROVE SInv'
  <2>1. TxIsSound([op |-> "refresh", token |-> t, row |-> tokens[t]])
    BY DEF TxIsSound
  <2> QED  BY <1>4, <2>1, ReadOnlyStep DEF BeginRefresh
<1>5. ASSUME NEW g \in DOMAIN grants, BeginReset(c, g)  PROVE SInv'
  <2> DEFINE new == [op |-> "reset", grant |-> g, row |-> grants[g],
                     seen |-> TokensOf(grants[g].user)]
  <2>1. TxIsSound(new) /\ new.op = "reset" /\ new.grant = g
    BY DEF TxIsSound
  <2>2. tx' = [tx EXCEPT ![c] = new] /\ ~ HeldGrant(c, {new.grant})
        /\ UNCHANGED <<accounts, tokens, grants, resets, ended>>
    BY <1>5 DEF BeginReset
  <2> HIDE DEF new
  <2> QED  BY <2>1, <2>2, ReadOnlyStep
<1>6. CASE Abort(c)
  <2>1. TxIsSound(NoTx) /\ NoTx.op = "none"
    BY DEF TxIsSound, NoTx
  <2>2. tx' = [tx EXCEPT ![c] = NoTx] /\ UNCHANGED <<accounts, tokens, grants, resets, ended>>
    BY <1>6 DEF Abort, Ends
  <2> QED  BY <2>1, <2>2, ReadOnlyStep
<1> QED  BY <1>1, <1>2, <1>3, <1>4, <1>5, <1>6


\* Retiring whole families may end them: nothing of them is live any more.
LEMMA RetireStep ==
    ASSUME SInv, NEW ts, tokens' = Revoked(ts),
           NEW fs, ended' = ended \cup fs, fs \subseteq 1 .. Len(tokens),
           \A t \in DOMAIN tokens : tokens[t].fam \in fs => t \in ts
    PROVE  FamiliesAreSound' /\ OneLive' /\ EndedStaysEnded'
<1>1. Typed /\ FamiliesAreSound /\ OneLive /\ EndedStaysEnded
  BY DEF SInv
<1>2. /\ Len(tokens') = Len(tokens) /\ DOMAIN tokens' = DOMAIN tokens
      /\ \A t \in DOMAIN tokens : /\ tokens'[t].fam = tokens[t].fam
                                  /\ tokens'[t].user = tokens[t].user
                                  /\ tokens'[t].revoked = (tokens[t].revoked \/ t \in ts)
  BY <1>1, RevokedRows
<1>3. \A t \in DOMAIN tokens' : ~ tokens'[t].revoked => ~ tokens[t].revoked /\ t \notin ts
  BY <1>2
<1>4. FamiliesAreSound'
  BY <1>1, <1>2 DEF FamiliesAreSound
<1>5. OneLive'
  BY <1>1, <1>2, <1>3 DEF OneLive, IsLive
<1>6. EndedStaysEnded'
  BY <1>1, <1>2, <1>3 DEF EndedStaysEnded, IsLive
<1> QED  BY <1>4, <1>5, <1>6

\* Issuing a token, if whatever was live of its family is retired with it and the
\* family has not ended.
LEMMA IssueStep ==
    ASSUME SInv, NEW ts, NEW r \in RefreshToken, tokens' = Append(Revoked(ts), r),
           Len(tokens) < MaxTokens, ended' = ended,
           r.fam <= Len(tokens) + 1, r.fam \notin ended,
           \A t \in DOMAIN tokens : tokens[t].fam = r.fam => tokens[t].user = r.user,
           \A t \in DOMAIN tokens : IsLive(t) /\ tokens[t].fam = r.fam => t \in ts
    PROVE  /\ tokens' \in Seq(RefreshToken) /\ Len(tokens') <= MaxTokens
           /\ FamiliesAreSound' /\ OneLive' /\ EndedStaysEnded'
           /\ Len(tokens') = Len(tokens) + 1 /\ tokens'[Len(tokens) + 1] = r
           /\ \A t \in DOMAIN tokens : tokens'[t] = Revoked(ts)[t]
<1>1. Typed /\ FamiliesAreSound /\ OneLive /\ EndedStaysEnded /\ MaxTokens \in Nat
  BY SessionsAssumption DEF SInv
<1>2. /\ Revoked(ts) \in Seq(RefreshToken) /\ Len(Revoked(ts)) = Len(tokens)
      /\ Len(tokens) \in Nat /\ DOMAIN tokens = 1 .. Len(tokens)
      /\ \A t \in DOMAIN tokens : /\ Revoked(ts)[t].fam = tokens[t].fam
                                  /\ Revoked(ts)[t].user = tokens[t].user
                                  /\ Revoked(ts)[t].revoked = (tokens[t].revoked \/ t \in ts)
  BY <1>1, RevokedRows DEF Typed
<1>3. /\ tokens' \in Seq(RefreshToken) /\ Len(tokens') = Len(tokens) + 1
      /\ DOMAIN tokens' = 1 .. Len(tokens) + 1
      /\ tokens'[Len(tokens) + 1] = r
      /\ \A t \in DOMAIN tokens : tokens'[t] = Revoked(ts)[t]
  BY <1>2
<1>4. Len(tokens') <= MaxTokens
  BY <1>1, <1>2, <1>3
<1>5. \A t \in DOMAIN tokens' :
        \/ t = Len(tokens) + 1 /\ tokens'[t] = r
        \/ /\ t \in DOMAIN tokens /\ tokens'[t].fam = tokens[t].fam
           /\ tokens'[t].user = tokens[t].user
           /\ ~ tokens'[t].revoked => ~ tokens[t].revoked /\ t \notin ts
  <2> SUFFICES ASSUME NEW t \in DOMAIN tokens', t # Len(tokens) + 1
               PROVE  /\ t \in DOMAIN tokens /\ tokens'[t].fam = tokens[t].fam
                      /\ tokens'[t].user = tokens[t].user
                      /\ ~ tokens'[t].revoked => ~ tokens[t].revoked /\ t \notin ts
    BY <1>3
  <2>1. t \in DOMAIN tokens
    BY <1>2, <1>3
  <2>2. tokens'[t] = Revoked(ts)[t] /\ Revoked(ts)[t].fam = tokens[t].fam
        /\ Revoked(ts)[t].user = tokens[t].user
        /\ Revoked(ts)[t].revoked = (tokens[t].revoked \/ t \in ts)
    BY <1>2, <1>3, <2>1
  <2> QED  BY <2>1, <2>2
<1>6. FamiliesAreSound'
  <2>1. ASSUME NEW t \in DOMAIN tokens'  PROVE tokens'[t].fam <= t
    BY <1>1, <1>5 DEF FamiliesAreSound
  <2>2. ended' \subseteq 1 .. Len(tokens')
    BY <1>1, <1>2, <1>3 DEF FamiliesAreSound
  <2>3. ASSUME NEW t \in DOMAIN tokens', NEW u \in DOMAIN tokens', tokens'[t].fam = tokens'[u].fam
        PROVE  tokens'[t].user = tokens'[u].user
    BY <1>1, <1>5, <2>3 DEF FamiliesAreSound
  <2> QED  BY <2>1, <2>2, <2>3 DEF FamiliesAreSound
<1>7. OneLive'
  <2> SUFFICES ASSUME NEW t \in DOMAIN tokens', NEW u \in DOMAIN tokens',
                      ~ tokens'[t].revoked, ~ tokens'[u].revoked, tokens'[t].fam = tokens'[u].fam
               PROVE  t = u
    BY DEF OneLive, IsLive
  <2> QED  BY <1>1, <1>5 DEF OneLive, IsLive
<1>8. EndedStaysEnded'
  BY <1>1, <1>5 DEF EndedStaysEnded, IsLive
<1> QED  BY <1>3, <1>4, <1>6, <1>7, <1>8

LEMMA CommitRegisterIsSound ==
    ASSUME SInv, NEW c \in Clients, CommitRegister(c)
    PROVE  SInv'
<1> DEFINE e == tx[c].user
           s == tx[c].slug
<1>1. e \in Emails /\ s \in Slugs /\ <<>> \notin Slugs
  BY DEF SInv, TxsAreSound, TxIsSound, CommitRegister, Committing, NoTx, Slugs
<1>2. UNCHANGED <<tokens, grants, resets, ended>> /\ tx' = [tx EXCEPT ![c] = NoTx]
  BY DEF CommitRegister, Ends
<1>3. CASE Registered(accounts, e) \/ SlugExists(accounts, s)
  <2>1. accounts' = accounts
    BY <1>3 DEF CommitRegister
  <2> QED  BY <1>2, <2>1, ReadOnlyStep DEF TxIsSound, NoTx
<1>4. CASE ~ Registered(accounts, e) /\ ~ SlugExists(accounts, s)
  <2>1. accounts' = [accounts EXCEPT ![e] = [slug |-> s, pw |-> 0]]
    BY <1>4 DEF CommitRegister
  <2>2. Typed'
    BY <1>1, <1>2, <2>1 DEF SInv, Typed
  <2>3. FamiliesAreSound' /\ OneLive' /\ EndedStaysEnded' /\ NewestWorks'
    BY <1>2 DEF SInv, FamiliesAreSound, OneLive, EndedStaysEnded, NewestWorks, IsLive, Outstanding, GrantsOf
  <2>4. Grows /\ RespectsLocks(c)
    BY <1>1, <1>2, <1>4, <2>1 DEF SInv, Typed, Grows, KeepsTokens, RespectsLocks, Registered
  <2>5. TxsAreSound' /\ LocksAreExclusive'
    BY <1>2, <2>2, <2>4, EndsStep DEF Ends
  <2>6. OnlyRegistered'
    <3>1. \A d \in Emails : Registered(accounts, d) => Registered(accounts', d)
      BY <2>4 DEF Grows, Registered
    <3>2. \A t \in DOMAIN tokens : tokens[t].user \in Emails
      BY RowTypes DEF SInv
    <3>3. \A g \in DOMAIN grants : grants[g].user \in Emails
      BY RowTypes DEF SInv
    <3>4. \A d \in Emails : /\ accounts'[d].pw <= resets'[d]
                            /\ ~ Registered(accounts', d) => resets'[d] = 0
      BY <1>1, <1>2, <2>1 DEF SInv, OnlyRegistered, Registered, Typed
    <3> QED  BY <1>2, <3>1, <3>2, <3>3, <3>4 DEF SInv, OnlyRegistered
  <2> QED  BY <2>2, <2>3, <2>5, <2>6 DEF SInv
<1> QED  BY <1>3, <1>4


LEMMA RevokedNothing == ASSUME Typed PROVE Revoked({}) = tokens
<1>1. /\ Revoked({}) \in Seq(RefreshToken) /\ Len(Revoked({})) = Len(tokens)
      /\ \A t \in 1 .. Len(tokens) : Revoked({})[t] = tokens[t]
  BY RevokedRows, RowTypes
<1>2. tokens \in Seq(RefreshToken)
  BY DEF Typed
<1> HIDE DEF Revoked
<1> QED  BY <1>1, <1>2, SeqEqual

LEMMA CommitLoginIsSound ==
    ASSUME SInv, NEW c \in Clients, CommitLogin(c)
    PROVE  SInv'
<1> DEFINE e == tx[c].user
           r == [user |-> e, fam |-> Len(tokens) + 1, pw |-> tx[c].pw, revoked |-> FALSE]
<1>1. /\ e \in Emails /\ tx[c].pw \in Nat /\ tx[c].pw <= resets[e] /\ Registered(accounts, e)
      /\ Typed /\ FamiliesAreSound /\ Len(tokens) \in Nat /\ Len(tokens) < MaxTokens
  BY RowTypes DEF SInv, TxsAreSound, TxIsSound, CommitLogin, Committing, NoTx
<1>2. /\ tokens' = Append(tokens, r) /\ Ends(c) /\ UNCHANGED <<grants, resets, ended>>
      /\ accounts' = IF Rehash THEN [accounts EXCEPT ![e].pw = tx[c].pw] ELSE accounts
  BY DEF CommitLogin
<1>3. r \in RefreshToken /\ r.fam = Len(tokens) + 1 /\ r.user = e
  BY <1>1, SessionsAssumption DEF RefreshToken
<1> HIDE DEF r
<1>4. r.fam \notin ended /\ \A t \in DOMAIN tokens : tokens[t].fam # r.fam
  <2>1. \A t \in DOMAIN tokens : t <= Len(tokens) /\ tokens[t].fam <= t /\ tokens[t].fam \in Nat
    BY <1>1, RowTypes DEF FamiliesAreSound, RefreshToken
  <2> QED  BY <1>1, <1>3, <2>1, RowTypes DEF FamiliesAreSound
<1>5. tokens' = Append(Revoked({}), r)
  BY <1>1, <1>2, RevokedNothing
<1>6. /\ tokens' \in Seq(RefreshToken) /\ Len(tokens') <= MaxTokens
      /\ FamiliesAreSound' /\ OneLive' /\ EndedStaysEnded'
      /\ Len(tokens') = Len(tokens) + 1 /\ tokens'[Len(tokens) + 1] = r
      /\ \A t \in DOMAIN tokens : tokens'[t] = tokens[t]
  <2>1. r.fam <= Len(tokens) + 1
    BY <1>1, <1>3
  <2>2. ended' = ended
    BY <1>2
  <2> QED  BY <1>1, <1>3, <1>4, <1>5, <2>1, <2>2, IssueStep, RevokedNothing
<1>7. Typed'
  <2>1. accounts' \in [Emails -> [slug : Slugs \cup {<<>>}, pw : Nat]]
    BY <1>1, <1>2 DEF Typed
  <2> QED  BY <1>1, <1>2, <1>6, <2>1 DEF Typed
<1>8. /\ DOMAIN tokens \subseteq DOMAIN tokens'
      /\ \A t \in DOMAIN tokens' : t \in DOMAIN tokens \/ t = Len(tokens) + 1
  BY <1>1, <1>6, RowTypes
<1>9. \A d \in Emails : accounts'[d].slug = accounts[d].slug /\ accounts'[d].pw <= resets'[d]
  <2>1. \A d \in Emails : accounts[d].pw <= resets[d]
    BY DEF SInv, OnlyRegistered
  <2> QED  BY <1>1, <1>2, <2>1 DEF Typed
<1>10. Grows /\ RespectsLocks(c)
  <2>1. \A d \in Emails : resets[d] <= resets'[d]
    BY <1>1, <1>2 DEF Typed
  <2>2. Grows
    BY <1>2, <1>6, <1>8, <1>9, <2>1 DEF Grows, KeepsTokens
  <2>3. RespectsLocks(c)
    BY <1>2, <1>6 DEF RespectsLocks, SInv, TxsAreSound, TxIsSound, NoTx
  <2> QED  BY <2>2, <2>3
<1>11. TxsAreSound' /\ LocksAreExclusive'
  BY <1>2, <1>7, <1>10, EndsStep
<1>12. OnlyRegistered'
  <2>1. \A d \in Emails : Registered(accounts', d) <=> Registered(accounts, d)
    BY <1>9 DEF Registered
  <2>2. \A t \in DOMAIN tokens' : tokens'[t].user \in Emails /\ Registered(accounts, tokens'[t].user)
    BY <1>1, <1>3, <1>6, <1>8, RowTypes DEF SInv, OnlyRegistered
  <2> QED  BY <1>1, <1>2, <1>9, <2>1, <2>2, RowTypes DEF SInv, OnlyRegistered
<1>13. NewestWorks'
  BY <1>2 DEF SInv, NewestWorks, Outstanding, GrantsOf
<1> QED  BY <1>6, <1>7, <1>11, <1>12, <1>13 DEF SInv

\* What a transaction that writes only tokens keeps of the rest.
LEMMA TokensOnly ==
    ASSUME SInv, NEW c \in Clients, accounts' = accounts, grants' = grants, resets' = resets,
           tokens' \in Seq(RefreshToken), Len(tokens') <= MaxTokens, Len(tokens) <= Len(tokens'),
           KeepsTokens,
           KnownAccounts,
           RespectsLocks(c), Ends(c) \/ (tx' = tx /\ tx[c] = NoTx)
    PROVE  /\ Typed' /\ TxsAreSound' /\ LocksAreExclusive' /\ OnlyRegistered'
           /\ NewestWorks'
<1>1. Typed' /\ NewestWorks'
  BY DEF SInv, Typed, NewestWorks, Outstanding, GrantsOf
<1>2. DOMAIN tokens \subseteq DOMAIN tokens'
  <2>1. DOMAIN tokens' = 1 .. Len(tokens') /\ Len(tokens') \in Nat
    OBVIOUS
  <2> QED  BY <2>1, RowTypes DEF SInv
<1>3. \A e \in Emails : resets[e] <= resets'[e]
  BY DEF SInv, Typed
<1>4. Grows
  BY <1>2, <1>3 DEF Grows
<1>5. TxsAreSound' /\ LocksAreExclusive'
  <2>1. CASE Ends(c)
    BY <1>1, <1>4, <2>1, EndsStep
  <2>2. CASE tx' = tx /\ tx[c] = NoTx
    <3>1. DOMAIN tx' = Clients /\ (\A b \in Clients \ {c} : tx'[b] = tx[b])
          /\ TxIsSound(tx[c])' /\ tx'[c].op = "none"
      BY <2>2 DEF SInv, TxsAreSound, TxIsSound, NoTx
    <3> QED  BY <1>1, <1>4, <3>1, TxStep
  <2> QED  BY <2>1, <2>2
<1>6. OnlyRegistered'
  BY DEF SInv, OnlyRegistered, Registered, KnownAccounts
<1> QED  BY <1>1, <1>5, <1>6

\* A refresh whose token was live: it is retired, and its one successor is live.
LEMMA RotateIsSound ==
    ASSUME SInv, NEW c \in Clients, Rotate(c)
    PROVE  SInv'
<1> DEFINE t == tx[c].token
           r == [tx[c].row EXCEPT !.revoked = FALSE]
<1>1. /\ Typed /\ t \in DOMAIN tokens /\ tx[c].row = tokens[t] /\ IsLive(t)
      /\ tx[c].op = "refresh" /\ Len(tokens) \in Nat /\ Len(tokens) < MaxTokens
      /\ tokens[t] \in RefreshToken /\ t <= Len(tokens)
  BY RowTypes DEF SInv, TxsAreSound, TxIsSound, Rotate, Committing, NoTx, IsLive
<1>2. tokens' = Append(Revoked({t}), r) /\ Ends(c) /\ UNCHANGED <<accounts, grants, resets, ended>>
  BY DEF Rotate
<1>3. r \in RefreshToken /\ r.fam = tokens[t].fam /\ r.user = tokens[t].user
  BY <1>1 DEF RefreshToken
<1> HIDE DEF r
<1>4. /\ r.fam <= Len(tokens) + 1 /\ r.fam \notin ended
      /\ \A u \in DOMAIN tokens : tokens[u].fam = r.fam => tokens[u].user = r.user
      /\ \A u \in DOMAIN tokens : IsLive(u) /\ tokens[u].fam = r.fam => u \in {t}
  <2>1. tokens[t].fam <= t /\ tokens[t].fam \in Nat
    BY <1>1 DEF SInv, FamiliesAreSound, RefreshToken
  <2>2. r.fam <= Len(tokens) + 1
    BY <1>1, <1>3, <2>1, RowTypes
  <2> QED  BY <1>1, <1>3, <2>2 DEF SInv, EndedStaysEnded, OneLive, FamiliesAreSound
<1>5. /\ tokens' \in Seq(RefreshToken) /\ Len(tokens') <= MaxTokens
      /\ FamiliesAreSound' /\ OneLive' /\ EndedStaysEnded'
      /\ Len(tokens') = Len(tokens) + 1 /\ tokens'[Len(tokens) + 1] = r
      /\ \A u \in DOMAIN tokens : tokens'[u] = Revoked({t})[u]
  <2>1. ended' = ended
    BY <1>2
  <2> QED  BY <1>1, <1>2, <1>3, <1>4, <2>1, IssueStep
<1>6. KeepsTokens /\ \A u \in DOMAIN tokens : u # t => tokens'[u] = tokens[u]
  BY <1>1, <1>5, RevokedRows DEF KeepsTokens
<1>7. KnownAccounts
  <2>1. \A u \in DOMAIN tokens' : u \in DOMAIN tokens \/ u = Len(tokens) + 1
    BY <1>1, <1>5, RowTypes
  <2> QED  BY <1>1, <1>3, <1>5, <1>6, <2>1 DEF KeepsTokens, KnownAccounts
<1>8. RespectsLocks(c)
  <2>1. ASSUME NEW b \in Clients \ {c}, tx[b].op = "refresh"
        PROVE  tx[b].token \in DOMAIN tokens /\ tx[b].token # t
    BY <1>1, <2>1 DEF SInv, TxsAreSound, TxIsSound, LocksAreExclusive, NoTx
  <2> QED  BY <1>2, <1>6, <2>1 DEF RespectsLocks
<1>9. /\ Typed' /\ TxsAreSound' /\ LocksAreExclusive' /\ OnlyRegistered'
      /\ NewestWorks'
  <2>1. Len(tokens) <= Len(tokens')
    BY <1>1, <1>5
  <2>2. accounts' = accounts /\ grants' = grants /\ resets' = resets /\ Ends(c)
    BY <1>2
  <2>3. tokens' \in Seq(RefreshToken) /\ Len(tokens') <= MaxTokens /\ KeepsTokens
    BY <1>5, <1>6
  <2> QED  BY <1>7, <1>8, <2>1, <2>2, <2>3, TokensOnly
<1> QED  BY <1>5, <1>9 DEF SInv


\* A logout and a replay both close a family, whose rows nobody else holds.
LEMMA CloseFamilyIsSound ==
    ASSUME SInv, NEW c \in Clients, NEW t \in DOMAIN tokens,
           tokens' = Revoked(Family(tokens[t].fam)), ended' = ended \cup {tokens[t].fam},
           ~ HeldToken(c, Family(tokens[t].fam)),
           accounts' = accounts, grants' = grants, resets' = resets,
           Ends(c) \/ (tx' = tx /\ tx[c] = NoTx)
    PROVE  SInv'
<1> DEFINE f == tokens[t].fam
<1>1. /\ Typed /\ t <= Len(tokens) /\ f \in 1 .. Len(tokens) /\ Len(tokens) \in Nat
      /\ DOMAIN tokens = 1 .. Len(tokens)
  <2>1. /\ Typed /\ t <= Len(tokens) /\ tokens[t] \in RefreshToken /\ f <= t
        /\ Len(tokens) \in Nat /\ t \in Nat /\ DOMAIN tokens = 1 .. Len(tokens)
    BY RowTypes DEF SInv, FamiliesAreSound
  <2>2. f \in Nat /\ 1 <= f
    BY <2>1, SessionsAssumption DEF RefreshToken
  <2> QED  BY <2>1, <2>2
<1>2. /\ tokens' \in Seq(RefreshToken) /\ Len(tokens') = Len(tokens)
      /\ DOMAIN tokens' = DOMAIN tokens /\ KeepsTokens
      /\ \A u \in DOMAIN tokens : u \notin Family(f) => tokens'[u] = tokens[u]
  BY <1>1, RevokedRows DEF KeepsTokens
<1>3. FamiliesAreSound' /\ OneLive' /\ EndedStaysEnded'
  <2>1. \A u \in DOMAIN tokens : tokens[u].fam \in {f} => u \in Family(f)
    BY DEF Family
  <2>2. {f} \subseteq 1 .. Len(tokens)
    BY <1>1
  <2> QED  BY <2>1, <2>2, RetireStep
<1>4. KnownAccounts
  BY <1>2 DEF KeepsTokens, KnownAccounts
<1>5. RespectsLocks(c)
  <2>1. ASSUME NEW b \in Clients \ {c}, tx[b].op = "refresh"
        PROVE  tx[b].token \in DOMAIN tokens /\ tx[b].token \notin Family(f)
    BY <2>1 DEF SInv, TxsAreSound, TxIsSound, HeldToken, NoTx
  <2> QED  BY <1>2, <2>1 DEF RespectsLocks
<1>6. Len(tokens') <= MaxTokens /\ Len(tokens) <= Len(tokens')
  BY <1>1, <1>2 DEF Typed
<1> QED  BY <1>2, <1>3, <1>4, <1>5, <1>6, TokensOnly DEF SInv

LEMMA DetectReuseIsSound ==
    ASSUME SInv, NEW c \in Clients, DetectReuse(c)
    PROVE  SInv'
<1>1. tx[c].token \in DOMAIN tokens /\ tx[c].row = tokens[tx[c].token]
  BY DEF SInv, TxsAreSound, TxIsSound, DetectReuse, Committing, NoTx
<1>2. /\ ~ HeldToken(c, Family(tokens[tx[c].token].fam))
      /\ tokens' = Revoked(Family(tokens[tx[c].token].fam))
      /\ ended' = ended \cup {tokens[tx[c].token].fam}
      /\ accounts' = accounts /\ grants' = grants /\ resets' = resets /\ Ends(c)
  BY <1>1 DEF DetectReuse, RevokesFamily
<1> QED  BY <1>1, <1>2, CloseFamilyIsSound

LEMMA LogoutIsSound ==
    ASSUME SInv, NEW c \in Clients, NEW t \in DOMAIN tokens, Logout(c, t)
    PROVE  SInv'
<1>1. /\ ~ HeldToken(c, Family(tokens[t].fam))
      /\ tokens' = Revoked(Family(tokens[t].fam)) /\ ended' = ended \cup {tokens[t].fam}
      /\ accounts' = accounts /\ grants' = grants /\ resets' = resets
      /\ tx' = tx /\ tx[c] = NoTx
  BY DEF Logout, RevokesFamily, MayBegin
<1> QED  BY <1>1, CloseFamilyIsSound

\* A new link replaces every earlier one of its account; the rows are nobody else's.
LEMMA CommitForgotIsSound ==
    ASSUME SInv, NEW c \in Clients, CommitForgot(c)
    PROVE  /\ SInv'
           /\ \A g \in DOMAIN grants : grants'[g].used = grants[g].used
<1> DEFINE e == tx[c].user
           r == [user |-> e, consumed |-> FALSE, used |-> 0]
           n == Len(grants) + 1
<1>1. /\ Typed /\ e \in Emails /\ Registered(accounts, e) /\ Len(grants) \in Nat
      /\ Len(grants) < MaxGrants /\ DOMAIN grants = 1 .. Len(grants) /\ MaxGrants \in Nat
  BY RowTypes, SessionsAssumption
     DEF SInv, TxsAreSound, TxIsSound, CommitForgot, Committing, NoTx
<1>2. /\ ~ HeldGrant(c, GrantsOf(e)) /\ grants' = Append(Consumed(GrantsOf(e)), r) /\ Ends(c)
      /\ accounts' = accounts /\ tokens' = tokens /\ resets' = resets /\ ended' = ended
  BY DEF CommitForgot, Supersedes
<1>3. r \in Grant /\ r.user = e /\ ~ r.consumed /\ r.used = 0
  BY <1>1 DEF Grant
<1> HIDE DEF r
<1>4. /\ Consumed(GrantsOf(e)) \in Seq(Grant) /\ Len(Consumed(GrantsOf(e))) = Len(grants)
      /\ \A g \in DOMAIN grants :
           LET h == Consumed(GrantsOf(e))[g] IN
           /\ h.user = grants[g].user /\ h.used = grants[g].used
           /\ h.consumed = (grants[g].consumed \/ g \in GrantsOf(e))
           /\ g \notin GrantsOf(e) => h = grants[g]
  BY <1>1, ConsumedRows
<1>5. /\ grants' \in Seq(Grant) /\ Len(grants') = n /\ DOMAIN grants' = 1 .. n /\ grants'[n] = r
      /\ \A g \in DOMAIN grants : grants'[g] = Consumed(GrantsOf(e))[g]
  BY <1>1, <1>2, <1>3, <1>4
<1>6. \A g \in DOMAIN grants' : g = n \/ g \in DOMAIN grants
  BY <1>1, <1>5
<1>7. \A g \in DOMAIN grants :
        /\ grants'[g].user = grants[g].user /\ grants'[g].used = grants[g].used
        /\ grants[g].consumed => grants'[g].consumed
        /\ g \in GrantsOf(e) => grants'[g].consumed
        /\ g \notin GrantsOf(e) => grants'[g] = grants[g]
  BY <1>4, <1>5
<1>8. Typed'
  BY <1>1, <1>2, <1>5 DEF Typed
<1>9. NewestWorks'
  <2> SUFFICES ASSUME NEW g \in DOMAIN grants', ~ grants'[g].consumed,
                      NEW h \in DOMAIN grants', grants'[h].user = grants'[g].user
               PROVE  grants'[g].used = 0 /\ h <= g
    BY DEF NewestWorks, Outstanding, GrantsOf
  <2>1. CASE g = n
    BY <1>1, <1>3, <1>5, <2>1
  <2>2. CASE g \in DOMAIN grants
    <3>1. grants'[g] = grants[g] /\ grants[g].user # e
      BY <1>7, <2>2 DEF GrantsOf
    <3>2. h \in DOMAIN grants /\ grants[h].user = grants[g].user
      BY <1>3, <1>5, <1>6, <1>7, <3>1
    <3> QED  BY <2>2, <3>1, <3>2 DEF SInv, NewestWorks, Outstanding, GrantsOf
  <2> QED  BY <1>6, <2>1, <2>2
<1>10. FamiliesAreSound' /\ OneLive' /\ EndedStaysEnded'
  BY <1>2 DEF SInv, FamiliesAreSound, OneLive, EndedStaysEnded, IsLive
<1>11. OnlyRegistered'
  <2>1. \A g \in DOMAIN grants' : Registered(accounts, grants'[g].user)
    BY <1>1, <1>3, <1>5, <1>6, <1>7 DEF SInv, OnlyRegistered
  <2> QED  BY <1>2, <2>1 DEF SInv, OnlyRegistered
<1>12. Grows /\ RespectsLocks(c)
  <2>1. DOMAIN grants \subseteq DOMAIN grants'
    BY <1>1, <1>5
  <2>2. \A d \in Emails : resets[d] <= resets'[d]
    BY <1>1, <1>2 DEF Typed
  <2>3. KeepsTokens
    BY <1>2 DEF KeepsTokens
  <2>4. ASSUME NEW b \in Clients \ {c}, tx[b].op = "reset"
        PROVE  tx[b].grant \in DOMAIN grants /\ tx[b].grant \notin GrantsOf(e)
    BY <1>2, <2>4 DEF SInv, TxsAreSound, TxIsSound, HeldGrant, NoTx
  <2> QED  BY <1>2, <1>7, <2>1, <2>2, <2>3, <2>4 DEF Grows, RespectsLocks
<1>13. TxsAreSound' /\ LocksAreExclusive'
  BY <1>2, <1>8, <1>12, EndsStep
<1> QED  BY <1>7, <1>8, <1>9, <1>10, <1>11, <1>13 DEF SInv


\* A reset's link is still what it was when it was locked: outstanding, and so the
\* newest of its account and unused. It consumes it and whatever else is
\* outstanding, and ends every session of the account.
LEMMA CommitResetIsSound ==
    ASSUME SInv, NEW c \in Clients, CommitReset(c)
    PROVE  /\ SInv'
           /\ \A g \in DOMAIN grants : grants'[g].used # grants[g].used =>
                /\ grants[g].used = 0
                /\ \A h \in GrantsOf(grants[g].user) : h <= g
<1> DEFINE k == tx[c].grant
           e == tx[c].row.user
           gs == {k} \cup GrantsOf(e)
           ts == TokensOf(e)
<1>1. /\ Typed /\ k \in DOMAIN grants /\ tx[c].row = grants[k] /\ e = grants[k].user
      /\ ~ grants[k].consumed /\ e \in Emails /\ grants[k] \in Grant
      /\ DOMAIN grants = 1 .. Len(grants) /\ Len(grants) \in Nat /\ tx[c].op = "reset"
      /\ resets[e] \in Nat
  <2>1. /\ Typed /\ k \in DOMAIN grants /\ tx[c].row = grants[k] /\ tx[c].op = "reset"
        /\ ~ tx[c].row.consumed
    BY DEF SInv, TxsAreSound, TxIsSound, CommitReset, Committing, NoTx
  <2>2. e = grants[k].user /\ ~ grants[k].consumed
    BY <2>1
  <2>3. e \in Emails
    BY <2>1, <2>2, RowTypes
  <2> QED  BY <2>1, <2>2, <2>3, RowTypes DEF Typed
<1>2. /\ ~ HeldGrant(c, GrantsOf(e)) /\ ~ HeldToken(c, ts)
      /\ accounts' = [accounts EXCEPT ![e].pw = resets[e] + 1]
      /\ resets' = [resets EXCEPT ![e] = @ + 1]
      /\ grants' = [Consumed(gs) EXCEPT ![k].used = @ + 1]
      /\ tokens' = Revoked(ts)
      /\ ended' = ended \cup FamiliesOf(ts)
      /\ Ends(c)
  BY DEF CommitReset, EndsSessions
<1>3. k \in GrantsOf(e) /\ Outstanding(k) /\ grants[k].used = 0
  BY <1>1 DEF GrantsOf, Outstanding, SInv, NewestWorks
<1>4. /\ Consumed(gs) \in Seq(Grant) /\ Len(Consumed(gs)) = Len(grants)
      /\ DOMAIN Consumed(gs) = DOMAIN grants
      /\ \A g \in DOMAIN grants :
           LET h == Consumed(gs)[g] IN
           /\ h \in Grant /\ h.user = grants[g].user /\ h.used = grants[g].used
           /\ h.consumed = (grants[g].consumed \/ g \in gs)
           /\ g \notin gs => h = grants[g]
  <2>1. /\ Consumed(gs) \in Seq(Grant) /\ Len(Consumed(gs)) = Len(grants)
        /\ DOMAIN Consumed(gs) = DOMAIN grants
        /\ \A g \in DOMAIN grants :
           LET h == Consumed(gs)[g] IN
           /\ h.user = grants[g].user /\ h.used = grants[g].used
           /\ h.consumed = (grants[g].consumed \/ g \in gs)
           /\ g \notin gs => h = grants[g]
    <3> HIDE DEF gs
    <3>1. Typed
      BY <1>1
    <3> QED  BY <3>1, ConsumedRows
  <2> HIDE DEF gs
  <2>2. \A g \in DOMAIN grants : Consumed(gs)[g] \in Grant
    BY <1>1, <2>1
  <2> QED  BY <2>1, <2>2
<1> HIDE DEF gs
<1>5. /\ grants' \in Seq(Grant) /\ Len(grants') = Len(grants) /\ DOMAIN grants' = DOMAIN grants
      /\ \A g \in DOMAIN grants :
           /\ grants'[g].user = grants[g].user
           /\ grants'[g].consumed = (grants[g].consumed \/ g \in gs)
           /\ g \notin gs => grants'[g] = grants[g]
           /\ g # k => grants'[g].used = grants[g].used
  <2>1. [Consumed(gs)[k] EXCEPT !.used = @ + 1] \in Grant
    BY <1>1, <1>3, <1>4 DEF Grant
  <2>2. grants' = [Consumed(gs) EXCEPT ![k] = [Consumed(gs)[k] EXCEPT !.used = @ + 1]]
    BY <1>2
  <2>3. /\ grants'[k] = [Consumed(gs)[k] EXCEPT !.used = @ + 1]
        /\ \A g \in DOMAIN grants : g # k => grants'[g] = Consumed(gs)[g]
    BY <1>1, <1>4, <2>2
  <2>4. grants' \in [1 .. Len(grants) -> Grant]
    BY <1>1, <1>4, <2>1, <2>2
  <2>5. grants' \in Seq(Grant) /\ Len(grants') = Len(grants)
    BY <1>1, <2>4
  <2>6. grants'[k].user = grants[k].user
        /\ grants'[k].consumed = (grants[k].consumed \/ k \in gs)
    <3>1. Consumed(gs)[k] \in Grant
      BY <1>1, <1>4
    <3> QED  BY <1>1, <1>4, <2>3, <3>1 DEF Grant
  <2>7. k \in gs
    BY DEF gs
  <2>8. DOMAIN grants' = DOMAIN grants
    BY <1>1, <2>4
  <2>9. ASSUME NEW g \in DOMAIN grants, g # k
        PROVE  /\ grants'[g].user = grants[g].user /\ grants'[g].used = grants[g].used
               /\ grants'[g].consumed = (grants[g].consumed \/ g \in gs)
               /\ g \notin gs => grants'[g] = grants[g]
    <3>1. grants'[g] = Consumed(gs)[g]
      BY <2>3, <2>9
    <3> QED  BY <1>4, <3>1
  <2>10. ASSUME NEW g \in DOMAIN grants
         PROVE  /\ grants'[g].user = grants[g].user
                /\ grants'[g].consumed = (grants[g].consumed \/ g \in gs)
                /\ g \notin gs => grants'[g] = grants[g]
                /\ g # k => grants'[g].used = grants[g].used
    BY <2>6, <2>7, <2>9
  <2> QED  BY <2>5, <2>8, <2>10
<1>6. gs = GrantsOf(e)
  BY <1>3 DEF gs
<1>7. /\ tokens' \in Seq(RefreshToken) /\ Len(tokens') = Len(tokens)
      /\ DOMAIN tokens' = DOMAIN tokens /\ KeepsTokens
      /\ \A t \in DOMAIN tokens : t \notin ts => tokens'[t] = tokens[t]
  BY <1>1, <1>2, RevokedRows DEF KeepsTokens
<1>8. FamiliesAreSound' /\ OneLive' /\ EndedStaysEnded'
  <2>1. ASSUME NEW t \in ts  PROVE tokens[t].fam \in 1 .. Len(tokens)
    <3>1. /\ t \in DOMAIN tokens /\ DOMAIN tokens = 1 .. Len(tokens) /\ Len(tokens) \in Nat
          /\ tokens[t] \in RefreshToken /\ tokens[t].fam <= t
      BY <1>1, RowTypes DEF TokensOf, SInv, FamiliesAreSound
    <3>2. tokens[t].fam \in Nat /\ 1 <= tokens[t].fam
      BY <3>1, SessionsAssumption DEF RefreshToken
    <3> QED  BY <3>1, <3>2
  <2>2. FamiliesOf(ts) \subseteq 1 .. Len(tokens)
    BY <2>1 DEF FamiliesOf
  <2>3. ASSUME NEW t \in DOMAIN tokens, tokens[t].fam \in FamiliesOf(ts)  PROVE t \in ts
    <3>1. PICK u \in ts : tokens[u].fam = tokens[t].fam
      BY <2>3 DEF FamiliesOf
    <3> QED  BY <3>1 DEF TokensOf, SInv, FamiliesAreSound
  <2>4. tokens' = Revoked(ts) /\ ended' = ended \cup FamiliesOf(ts)
    BY <1>2
  <2> HIDE DEF ts
  <2>5. \A t \in DOMAIN tokens : tokens[t].fam \in FamiliesOf(ts) => t \in ts
    BY <2>3
  <2> QED  BY <2>2, <2>4, <2>5, RetireStep
<1>9. Typed'
  <2> DEFINE row == [slug : Slugs \cup {<<>>}, pw : Nat]
  <2>1. accounts[e] \in row /\ resets[e] + 1 \in Nat
    BY <1>1 DEF Typed
  <2>2. [accounts[e] EXCEPT !.pw = resets[e] + 1] \in row
    BY <2>1
  <2>3. accounts' = [accounts EXCEPT ![e] = [accounts[e] EXCEPT !.pw = resets[e] + 1]]
    BY <1>2
  <2>4. accounts' \in [Emails -> row]
    BY <1>1, <2>2, <2>3 DEF Typed
  <2>5. resets' \in [Emails -> Nat]
    <3>1. resets \in [Emails -> Nat] /\ resets' = [resets EXCEPT ![e] = resets[e] + 1]
      BY <1>1, <1>2 DEF Typed
    <3> QED  BY <2>1, <3>1
  <2> QED  BY <1>1, <1>5, <1>7, <2>4, <2>5 DEF Typed
<1>10. NewestWorks'
  <2> SUFFICES ASSUME NEW g \in DOMAIN grants', ~ grants'[g].consumed,
                      NEW h \in DOMAIN grants', grants'[h].user = grants'[g].user
               PROVE  grants'[g].used = 0 /\ h <= g
    BY DEF NewestWorks, Outstanding, GrantsOf
  <2>1. g \in DOMAIN grants /\ g \notin gs /\ ~ grants[g].consumed /\ grants'[g] = grants[g]
    BY <1>5
  <2>2. h \in GrantsOf(grants[g].user)
    BY <1>5, <2>1 DEF GrantsOf
  <2> QED  BY <2>1, <2>2 DEF SInv, NewestWorks, Outstanding
<1>11. \A d \in Emails : /\ accounts'[d].slug = accounts[d].slug
                         /\ accounts'[d].pw <= resets'[d] /\ resets[d] <= resets'[d]
                         /\ d # e => resets'[d] = resets[d]
  <2> DEFINE row == [slug : Slugs \cup {<<>>}, pw : Nat]
  <2>1. \A d \in Emails : accounts[d].pw <= resets[d]
    BY DEF SInv, OnlyRegistered
  <2>2. accounts \in [Emails -> row] /\ resets \in [Emails -> Nat]
    BY <1>1 DEF Typed
  <2>3. /\ accounts' = [accounts EXCEPT ![e] = [accounts[e] EXCEPT !.pw = resets[e] + 1]]
        /\ resets' = [resets EXCEPT ![e] = resets[e] + 1]
    BY <1>2
  <2>4. ASSUME NEW d \in Emails, d # e
        PROVE  accounts'[d] = accounts[d] /\ resets'[d] = resets[d] /\ resets[d] \in Nat
    BY <2>2, <2>3, <2>4
  <2>5. resets'[e] = resets[e] + 1 /\ resets[e] \in Nat
    BY <1>1, <2>2, <2>3
  <2>6. accounts'[e] = [accounts[e] EXCEPT !.pw = resets[e] + 1] /\ accounts[e] \in row
    BY <1>1, <2>2, <2>3
  <2>7. accounts'[e].slug = accounts[e].slug /\ accounts'[e].pw = resets[e] + 1
    BY <2>6
  <2> HIDE DEF e
  <2> QED  BY <2>1, <2>4, <2>5, <2>7
<1>12. OnlyRegistered'
  <2>1. \A d \in Emails : Registered(accounts', d) <=> Registered(accounts, d)
    BY <1>11 DEF Registered
  <2>2. \A t \in DOMAIN tokens' : tokens'[t].user \in Emails /\ Registered(accounts', tokens'[t].user)
    BY <1>1, <1>7, <2>1, RowTypes DEF SInv, OnlyRegistered, KeepsTokens
  <2>3. \A g \in DOMAIN grants' : Registered(accounts', grants'[g].user)
    BY <1>1, <1>5, <2>1, RowTypes DEF SInv, OnlyRegistered
  <2>4. Registered(accounts', e)
    BY <1>1, <2>1 DEF SInv, OnlyRegistered
  <2>5. \A d \in Emails : ~ Registered(accounts', d) => resets'[d] = 0
    BY <1>11, <2>1, <2>4 DEF SInv, OnlyRegistered
  <2> QED  BY <1>11, <2>2, <2>3, <2>5 DEF OnlyRegistered
<1>13. Grows /\ RespectsLocks(c)
  <2>1. \A g \in DOMAIN grants : /\ grants'[g].user = grants[g].user
                                 /\ grants[g].consumed => grants'[g].consumed
    BY <1>5
  <2>2. Grows
    BY <1>5, <1>7, <1>11, <2>1 DEF Grows
  <2>3. ASSUME NEW b \in Clients \ {c}
        PROVE  /\ tx[b].op = "refresh" => tx[b].token \in DOMAIN tokens /\ tx[b].token \notin ts
               /\ tx[b].op = "reset" => tx[b].grant \in DOMAIN grants /\ tx[b].grant \notin gs
    BY <1>2, <1>6 DEF SInv, TxsAreSound, TxIsSound, HeldGrant, HeldToken, NoTx
  <2> QED  BY <1>5, <1>7, <2>2, <2>3 DEF RespectsLocks
<1>14. TxsAreSound' /\ LocksAreExclusive'
  BY <1>2, <1>9, <1>13, EndsStep
<1>15. \A g \in DOMAIN grants : grants'[g].used # grants[g].used =>
                /\ grants[g].used = 0
                /\ \A h \in GrantsOf(grants[g].user) : h <= g
  BY <1>1, <1>3, <1>5 DEF SInv, NewestWorks
<1> QED  BY <1>8, <1>9, <1>10, <1>12, <1>14, <1>15 DEF SInv


-----------------------------------------------------------------------------
(* Whatever overlaps *)

LEMMA InitSInv == Init => SInv
<1> SUFFICES ASSUME Init PROVE SInv
  OBVIOUS
<1>1. /\ DOMAIN tokens = {} /\ DOMAIN grants = {} /\ Len(tokens) = 0 /\ Len(grants) = 0
      /\ tokens \in Seq(RefreshToken) /\ grants \in Seq(Grant)
  BY DEF Init
<1>2. Typed
  BY <1>1, SessionsAssumption DEF Init, Typed, NoAccount
<1>3. \A c \in Clients : tx[c] = NoTx /\ tx[c].op = "none"
  BY DEF Init, NoTx
<1>4. TxsAreSound /\ LocksAreExclusive
  BY <1>3 DEF Init, TxsAreSound, TxIsSound, LocksAreExclusive
<1>5. FamiliesAreSound /\ OneLive /\ EndedStaysEnded /\ NewestWorks
  BY <1>1 DEF Init, FamiliesAreSound, OneLive, EndedStaysEnded, NewestWorks
<1>6. OnlyRegistered
  BY <1>1 DEF Init, OnlyRegistered, Registered, NoAccount
<1> QED  BY <1>2, <1>4, <1>5, <1>6 DEF SInv

\* The links' part of a step: only a reset uses one, and only the newest.
UsesNewest ==
    \A g \in DOMAIN grants : grants'[g].used # grants[g].used =>
        /\ grants[g].used = 0
        /\ \A h \in GrantsOf(grants[g].user) : h <= g

LEMMA NextSInv == ASSUME SInv, [Next]_vars PROVE SInv' /\ UsesNewest
<1>1. ASSUME NEW c \in Clients, Step(c)  PROVE SInv' /\ UsesNewest
  <2>1. grants' = grants => UsesNewest
    BY DEF UsesNewest
  <2>2. CASE \/ \E e \in Emails : \/ \E name \in OrganizationNames : BeginRegister(c, e, name)
                                  \/ BeginLogin(c, e) \/ BeginForgot(c, e)
             \/ \E t \in DOMAIN tokens : BeginRefresh(c, t)
             \/ \E g \in DOMAIN grants : BeginReset(c, g)
             \/ Abort(c)
    <3>1. grants' = grants
      BY <2>2 DEF BeginRegister, BeginLogin, BeginForgot, BeginRefresh, BeginReset, Abort
    <3>2. SInv'
      BY <2>2, BeginsAreSound
    <3> QED  BY <2>1, <3>1, <3>2
  <2>3. CASE CommitRegister(c)
    BY <2>1, <2>3, CommitRegisterIsSound DEF CommitRegister
  <2>4. CASE CommitLogin(c)
    BY <2>1, <2>4, CommitLoginIsSound DEF CommitLogin
  <2>5. CASE Rotate(c)
    BY <2>1, <2>5, RotateIsSound DEF Rotate
  <2>6. CASE DetectReuse(c)
    BY <2>1, <2>6, DetectReuseIsSound DEF DetectReuse
  <2>7. ASSUME NEW t \in DOMAIN tokens, Logout(c, t)  PROVE SInv' /\ UsesNewest
    BY <2>1, <2>7, LogoutIsSound DEF Logout
  <2>8. CASE CommitForgot(c)
    BY <2>8, CommitForgotIsSound DEF UsesNewest
  <2>9. CASE CommitReset(c)
    BY <2>9, CommitResetIsSound DEF UsesNewest
  <2> QED  BY <1>1, <2>2, <2>3, <2>4, <2>5, <2>6, <2>7, <2>8, <2>9 DEF Step
<1>2. CASE UNCHANGED vars
  <2>1. SInv'
    BY <1>2 DEF vars, SInv, Typed, TxsAreSound, TxIsSound, LocksAreExclusive, FamiliesAreSound, OneLive,
                EndedStaysEnded, NewestWorks, OnlyRegistered, IsLive, Outstanding,
                GrantsOf, Registered
  <2> QED  BY <1>2, <2>1 DEF vars, UsesNewest
<1> QED  BY <1>1, <1>2 DEF Next

\* The inductive invariant holds of every behaviour, whatever overlaps.
THEOREM SessionsInvariant == Spec => []SInv
BY InitSInv, NextSInv, PTL DEF Spec

LEMMA AtMostOne ==
    ASSUME NEW S, \A a, b \in S : a = b
    PROVE  Cardinality(S) <= 1
<1>1. CASE S = {}
  BY <1>1, FS_EmptySet
<1>2. ASSUME NEW a \in S  PROVE Cardinality(S) <= 1
  <2>1. S = {a}
    BY <1>2
  <2> QED  BY <2>1, FS_Singleton
<1> QED  BY <1>1, <1>2

\* Every reachable state is well typed.
THEOREM SessionsTyped == Spec => []TypeOK
<1>1. ASSUME SInv  PROVE TypeOK
  <2>1. Typed /\ OnlyRegistered /\ FamiliesAreSound /\ MaxTokens \in Nat
    BY <1>1, SessionsAssumption DEF SInv
  <2>2. ASSUME NEW s \in Slugs \cup {<<>>}  PROVE Len(s) <= 2
    <3>1. CASE s = <<>>
      BY <3>1
    <3>2. ASSUME NEW name, s = <<name>>  PROVE Len(s) <= 2
      BY <3>2
    <3>3. ASSUME NEW a, NEW b, s = <<a, b>>  PROVE Len(s) <= 2
      BY <3>3
    <3>4. \/ s = <<>> \/ \E name : s = <<name>> \/ \E a, b : s = <<a, b>>
      BY Zenon DEF Slugs
    <3> QED  BY <3>1, <3>2, <3>3, <3>4
  <2>3. \A e \in Emails : Len(accounts[e].slug) <= 2 /\ accounts[e].pw <= resets[e]
    BY <2>1, <2>2 DEF Typed, OnlyRegistered
  <2>4. \A c \in Clients :
          tx[c].op \in {"none", "register", "login", "refresh", "forgot", "reset"}
    BY <1>1 DEF SInv, TxsAreSound, TxIsSound, NoTx
  <2>5. ended \subseteq 1 .. MaxTokens
    <3>1. ended \subseteq 1 .. Len(tokens) /\ Len(tokens) \in Nat /\ Len(tokens) <= MaxTokens
      BY <2>1, RowTypes DEF FamiliesAreSound, Typed
    <3> QED  BY <2>1, <3>1
  <2> QED  BY <2>1, <2>3, <2>4, <2>5 DEF TypeOK, Typed
<1> QED  BY <1>1, SessionsInvariant, PTL

\* However requests overlap, a session has one live token at a time and one that
\* was ended stays ended (refresh, logout, reset_password: FOR UPDATE on the
\* token row, and a family closed by what is in the table).
THEOREM SessionsStaySound == Spec => []SessionsAreSound
<1>1. ASSUME SInv  PROVE SessionsAreSound
  <2>1. ASSUME NEW f \in 1 .. MaxTokens  PROVE Cardinality({t \in Family(f) : IsLive(t)}) <= 1
    <3> DEFINE S == {t \in Family(f) : IsLive(t)}
    <3>1. \A t, u \in S : t = u
      BY <1>1 DEF SInv, OneLive, Family
    <3> HIDE DEF S
    <3>2. Cardinality(S) <= 1
      BY <3>1, AtMostOne
    <3> QED  BY <3>2 DEF S
  <2> QED  BY <1>1, <2>1 DEF SInv, SessionsAreSound, OneLiveTokenPerSession
<1> QED  BY <1>1, SessionsInvariant, PTL

\* An account never has two reset links that work, and only its newest link is
\* ever used, once (forgot_password, reset_password).
THEOREM LinksStaySound == Spec => LinksAreSound
<1>1. ASSUME SInv'  PROVE OneLink'
  <2> SUFFICES ASSUME NEW e \in Emails
               PROVE  Cardinality({g \in GrantsOf(e)' : Outstanding(g)'}) <= 1
    BY DEF OneLink
  <2> DEFINE S == {g \in GrantsOf(e)' : Outstanding(g)'}
  <2>1. \A g, h \in S : g = h
    <3> SUFFICES ASSUME NEW g \in S, NEW h \in S PROVE g = h
      OBVIOUS
    <3>1. g <= h /\ h <= g
      BY <1>1 DEF SInv, NewestWorks, GrantsOf
    <3>2. g \in Nat /\ h \in Nat
      <4>1. DOMAIN grants' = 1 .. Len(grants') /\ Len(grants') \in Nat
        BY <1>1 DEF SInv, Typed
      <4> QED  BY <4>1 DEF GrantsOf
    <3> QED  BY <3>1, <3>2
  <2> HIDE DEF S
  <2>2. Cardinality(S) <= 1
    BY <2>1, AtMostOne
  <2> QED  BY <2>2 DEF S
<1>2. UsesNewest => OnlyNewestLinkWorks
  BY DEF UsesNewest, OnlyNewestLinkWorks
<1>3. ASSUME SInv, [Next]_vars  PROVE [OneLink' /\ OnlyNewestLinkWorks]_vars
  BY <1>1, <1>2, <1>3, NextSInv
<1> QED  BY <1>3, SessionsInvariant, PTL DEF Spec, LinksAreSound

-----------------------------------------------------------------------------
(***************************************************************************)
(* Registrations. A slug with a unique id belongs to the account that the  *)
(* id was made for, so what a registration chose is neither taken in its   *)
(* snapshot nor a fallback of another.                                     *)
(***************************************************************************)

IsOwn(s, e) == \A name \in OrganizationNames, x \in Emails : s = <<name, x>> => x = e

\* A registration chose an address and a slug that no account of its snapshot has.
ChoseFree(t) ==
    /\ t.seen \subseteq Emails /\ t.user \notin t.seen
    /\ IsOwn(t.slug, t.user)
    /\ \A d \in t.seen : Registered(accounts, d) /\ accounts[d].slug # t.slug

SlugInv ==
    /\ \A d \in Emails : IsOwn(accounts[d].slug, d)
    /\ \A c \in Clients : tx[c].op = "register" => ChoseFree(tx[c])

LEMMA ChoosesFree ==
    ASSUME SlugInv, NEW e \in Emails, ~ Registered(accounts, e), NEW name \in OrganizationNames,
           NEW s \in AvailableSlugs(accounts, name, e)
    PROVE  ChoseFree([op |-> "register", user |-> e, slug |-> s,
                      seen |-> {d \in Emails : Registered(accounts, d)}])
<1>1. CASE s \in FreeSlugs(accounts, name)
  <2>1. s \in Candidates(name) /\ ~ SlugExists(accounts, s)
    BY <1>1 DEF FreeSlugs
  <2>2. s = <<name>> \/ \E k \in Nat : s = <<name, k>>
    BY <2>1, SessionsAssumption DEF Candidates
  <2>3. IsOwn(s, e)
    BY <2>2, SessionsAssumption DEF IsOwn
  <2> QED  BY <2>1, <2>3 DEF ChoseFree, SlugExists
<1>2. CASE s = <<name, e>>
  <2>1. IsOwn(s, e)
    BY <1>2 DEF IsOwn
  <2>2. ASSUME NEW d \in Emails, Registered(accounts, d)  PROVE accounts[d].slug # s
    BY <1>2, <2>2 DEF SlugInv, IsOwn
  <2> QED  BY <2>1, <2>2 DEF ChoseFree
<1> QED  BY <1>1, <1>2 DEF AvailableSlugs

\* Registered accounts keep their slugs, so what was free in a snapshot is of no
\* account of the snapshot still.
LEMMA SlugsStay ==
    ASSUME SInv, SlugInv, NEW c \in Clients,
           \A b \in Clients \ {c} : tx'[b] = tx[b], tx'[c].op = "register" => ChoseFree(tx[c])',
           \A d \in Emails : Registered(accounts, d) => accounts'[d].slug = accounts[d].slug,
           \A d \in Emails : IsOwn(accounts'[d].slug, d)
    PROVE  SlugInv'
<1>1. ASSUME NEW b \in Clients \ {c}, tx'[b].op = "register"  PROVE ChoseFree(tx[b])'
  BY <1>1 DEF SlugInv, ChoseFree, Registered
<1> QED  BY <1>1 DEF SlugInv

LEMMA NextSlugInv == ASSUME SInv, SlugInv, NEW c \in Clients, Step(c) PROVE SlugInv'
<1>1. Typed /\ DOMAIN tx = Clients
  BY DEF SInv, TxsAreSound
<1>2. ASSUME NEW new, tx' = [tx EXCEPT ![c] = new]
      PROVE  tx'[c] = new /\ \A b \in Clients \ {c} : tx'[b] = tx[b]
  BY <1>1, <1>2
<1>3. ASSUME \A d \in Emails : accounts'[d].slug = accounts[d].slug,
             NEW new, tx' = [tx EXCEPT ![c] = new], new.op # "register"
      PROVE  SlugInv'
  <2>1. \A d \in Emails : IsOwn(accounts'[d].slug, d)
    BY <1>3 DEF SlugInv
  <2> QED  BY <1>2, <1>3, <2>1, SlugsStay
<1>4. NoTx.op # "register"
  BY DEF NoTx
<1>5. ASSUME NEW e \in Emails, NEW name \in OrganizationNames, BeginRegister(c, e, name)
      PROVE  SlugInv'
  <2>1. PICK s \in AvailableSlugs(accounts, name, e) :
            tx' = [tx EXCEPT ![c] = [op |-> "register", user |-> e, slug |-> s,
                                     seen |-> {d \in Emails : Registered(accounts, d)}]]
    BY <1>5 DEF BeginRegister
  <2> DEFINE new == [op |-> "register", user |-> e, slug |-> s,
                     seen |-> {d \in Emails : Registered(accounts, d)}]
  <2>2. ChoseFree(new) /\ accounts' = accounts
    BY <1>5, ChoosesFree DEF BeginRegister
  <2>3. tx' = [tx EXCEPT ![c] = new]
    BY <2>1
  <2> HIDE DEF new
  <2>4. ChoseFree(tx[c])'
    BY <1>2, <2>2, <2>3 DEF ChoseFree, Registered
  <2> QED  BY <1>2, <2>2, <2>3, <2>4, SlugsStay DEF SlugInv
<1>6. CASE CommitRegister(c)
  <2> DEFINE e == tx[c].user
             s == tx[c].slug
  <2>1. tx' = [tx EXCEPT ![c] = NoTx] /\ tx[c].op = "register"
    BY <1>6 DEF CommitRegister, Committing, Ends
  <2>2. e \in Emails /\ IsOwn(s, e)
    BY <2>1 DEF SInv, TxsAreSound, TxIsSound, NoTx, SlugInv, ChoseFree
  <2>3. CASE accounts' = accounts
    BY <1>3, <1>4, <2>1, <2>3
  <2>4. CASE accounts' = [accounts EXCEPT ![e] = [slug |-> s, pw |-> 0]] /\ ~ Registered(accounts, e)
    <3>1. /\ accounts'[e].slug = s
          /\ \A d \in Emails \ {e} : accounts'[d].slug = accounts[d].slug
      BY <1>1, <2>2, <2>4 DEF Typed
    <3>2. \A d \in Emails : Registered(accounts, d) => accounts'[d].slug = accounts[d].slug
      BY <2>4, <3>1
    <3>3. \A d \in Emails : IsOwn(accounts'[d].slug, d)
      BY <2>2, <3>1 DEF SlugInv
    <3> QED  BY <1>2, <1>4, <2>1, <3>2, <3>3, SlugsStay
  <2> QED  BY <1>6, <2>3, <2>4 DEF CommitRegister
<1>7. ASSUME NEW e \in Emails, BeginLogin(c, e) \/ BeginForgot(c, e)  PROVE SlugInv'
  <2> DEFINE login == [op |-> "login", user |-> e, pw |-> accounts[e].pw]
             forgot == [op |-> "forgot", user |-> e, seen |-> GrantsOf(e)]
  <2>1. /\ accounts' = accounts /\ login.op # "register" /\ forgot.op # "register"
        /\ tx' = [tx EXCEPT ![c] = login] \/ tx' = [tx EXCEPT ![c] = forgot]
    BY <1>7 DEF BeginLogin, BeginForgot
  <2> HIDE DEF login, forgot
  <2> QED  BY <1>3, <2>1
<1>8. ASSUME NEW t \in DOMAIN tokens, BeginRefresh(c, t)  PROVE SlugInv'
  <2> DEFINE new == [op |-> "refresh", token |-> t, row |-> tokens[t]]
  <2>1. accounts' = accounts /\ tx' = [tx EXCEPT ![c] = new] /\ new.op # "register"
    BY <1>8 DEF BeginRefresh
  <2> HIDE DEF new
  <2> QED  BY <1>3, <2>1
<1>9. ASSUME NEW g \in DOMAIN grants, BeginReset(c, g)  PROVE SlugInv'
  <2> DEFINE new == [op |-> "reset", grant |-> g, row |-> grants[g],
                     seen |-> TokensOf(grants[g].user)]
  <2>1. accounts' = accounts /\ tx' = [tx EXCEPT ![c] = new] /\ new.op # "register"
    BY <1>9 DEF BeginReset
  <2> HIDE DEF new
  <2> QED  BY <1>3, <2>1
<1>10. ASSUME NEW t \in DOMAIN tokens, Logout(c, t)  PROVE SlugInv'
  BY <1>10 DEF Logout, SlugInv, ChoseFree, Registered
<1>11. CASE CommitLogin(c)
  <2>1. accounts' = accounts \/ accounts' = [accounts EXCEPT ![tx[c].user].pw = tx[c].pw]
    BY <1>11 DEF CommitLogin
  <2>2. ASSUME accounts' = [accounts EXCEPT ![tx[c].user].pw = tx[c].pw], NEW d \in Emails
        PROVE  accounts'[d].slug = accounts[d].slug
    BY <1>1, <2>2 DEF Typed
  <2>3. \A d \in Emails : accounts'[d].slug = accounts[d].slug
    BY <2>1, <2>2
  <2> QED  BY <1>3, <1>4, <1>11, <2>3 DEF CommitLogin, Ends
<1>12. CASE CommitReset(c)
  <2>1. accounts' = [accounts EXCEPT ![tx[c].row.user].pw = resets[tx[c].row.user] + 1]
    BY <1>12 DEF CommitReset
  <2>2. \A d \in Emails : accounts'[d].slug = accounts[d].slug
    BY <1>1, <2>1 DEF Typed
  <2> QED  BY <1>3, <1>4, <1>12, <2>2 DEF CommitReset, Ends
<1>13. CASE Rotate(c) \/ DetectReuse(c) \/ CommitForgot(c) \/ Abort(c)
  BY <1>3, <1>4, <1>13 DEF Rotate, DetectReuse, CommitForgot, Abort, Ends
<1> QED  BY <1>5, <1>6, <1>7, <1>8, <1>9, <1>10, <1>11, <1>12, <1>13 DEF Step

\* A registration that found its address free is refused only for an account that
\* was created while it was open (register, _available_slug).
THEOREM RegistrationsAreRefusedOnlyByRivals == Spec => RefusedOnlyByRivals
<1>1. ASSUME Init  PROVE SlugInv
  BY <1>1 DEF Init, SlugInv, IsOwn, NoAccount, NoTx
<1>2. ASSUME SInv, SlugInv, [Next]_vars  PROVE SlugInv'
  <2>1. CASE UNCHANGED vars
    BY <1>2, <2>1 DEF vars, SlugInv, ChoseFree, Registered
  <2> QED  BY <1>2, <2>1, NextSlugInv DEF Next
<1>3. ASSUME SInv, SlugInv, NEW c \in Clients, CommitRegister(c), UNCHANGED accounts
      PROVE  \E d \in Emails \ tx[c].seen :
                /\ Registered(accounts, d)
                /\ d = tx[c].user \/ accounts[d].slug = tx[c].slug
  <2> DEFINE e == tx[c].user
             s == tx[c].slug
  <2>1. tx[c].op = "register"
    BY <1>3 DEF CommitRegister, Committing
  <2>2. e \in Emails /\ s \in Slugs /\ s # <<>> /\ ChoseFree(tx[c])
    BY <1>3, <2>1 DEF SInv, TxsAreSound, TxIsSound, NoTx, SlugInv, Slugs
  <2>3. Registered(accounts, e) \/ SlugExists(accounts, s)
    <3>1. accounts \in [Emails -> [slug : Slugs \cup {<<>>}, pw : Nat]]
      BY <1>3 DEF SInv, Typed
    <3>2. CASE accounts' = [accounts EXCEPT ![e] = [slug |-> s, pw |-> 0]]
      <4>1. accounts[e].slug = s
        BY <1>3, <2>2, <3>1, <3>2
      <4> QED  BY <2>2, <4>1 DEF Registered
    <3> QED  BY <1>3, <3>2 DEF CommitRegister
  <2> QED  BY <2>2, <2>3 DEF ChoseFree, SlugExists, Registered
<1>4. ASSUME SInv, SlugInv, [Next]_vars
      PROVE  [\A c \in Clients : CommitRegister(c) /\ UNCHANGED accounts =>
                \E d \in Emails \ tx[c].seen :
                   /\ Registered(accounts, d)
                   /\ d = tx[c].user \/ accounts[d].slug = tx[c].slug]_vars
  BY <1>3, <1>4
<1> QED  BY <1>1, <1>2, <1>4, SessionsInvariant, PTL DEF Spec, RefusedOnlyByRivals

-----------------------------------------------------------------------------
(***************************************************************************)
(* What holds while requests do not overlap. A login then commits the      *)
(* password it verified, which nothing has replaced meanwhile.             *)
(***************************************************************************)

OneAtATime == \A b, c \in Clients : tx[b] # NoTx /\ tx[c] # NoTx => b = c

LoginsAreCurrent ==
    \A c \in Clients : tx[c].op = "login" => tx[c].pw = accounts[tx[c].user].pw

LockedOut == OneAtATime /\ LoginsAreCurrent /\ NoSessionOutlivesReset /\ NewPasswordStays

LEMMA OpenOne ==
    ASSUME Cardinality(Open') <= 1
    PROVE  OneAtATime'
<1> SUFFICES ASSUME NEW b \in Clients, NEW c \in Clients, tx'[b] # NoTx, tx'[c] # NoTx, b # c
             PROVE  FALSE
  BY DEF OneAtATime
<1>1. Open' \subseteq Clients /\ IsFiniteSet(Clients) /\ {b, c} \subseteq Open'
  BY SessionsAssumption DEF Open
<1>2. IsFiniteSet(Open')
  BY <1>1, FS_Subset
<1>3. Cardinality({b, c}) <= Cardinality(Open')
  BY <1>1, <1>2, FS_Subset
<1>4. Cardinality({b, c}) = 2
  <2>1. Cardinality({b}) = 1 /\ IsFiniteSet({b})
    BY FS_Singleton
  <2>2. Cardinality({b} \cup {c}) = 2
    <3> DEFINE S == {b}
    <3>1. Cardinality(S) = 1 /\ IsFiniteSet(S) /\ c \notin S
      BY <2>1
    <3> HIDE DEF S
    <3>2. Cardinality(S \cup {c}) = Cardinality(S) + 1
      BY <3>1, FS_AddElement
    <3> QED  BY <3>1, <3>2 DEF S
  <2>3. {b} \cup {c} = {b, c}
    OBVIOUS
  <2> QED  BY <2>2, <2>3
<1>5. Cardinality(Open') \in Nat
  BY <1>2, FS_CardinalityType
<1> QED  BY <1>3, <1>4, <1>5

\* A step that leaves passwords alone, and adds no live token but one that goes
\* back to its account's present password.
LEMMA PasswordsStay ==
    ASSUME SInv, SInv', LockedOut, OneAtATime', NEW c \in Clients,
           accounts' = accounts, resets' = resets,
           \A b \in Clients \ {c} : tx'[b] = tx[b],
           tx'[c].op = "login" => tx'[c].pw = accounts[tx'[c].user].pw,
           \A t \in DOMAIN tokens' : ~ tokens'[t].revoked =>
               \/ tokens'[t].pw = accounts[tokens'[t].user].pw
               \/ /\ t \in DOMAIN tokens /\ ~ tokens[t].revoked
                  /\ tokens'[t].pw = tokens[t].pw /\ tokens'[t].user = tokens[t].user
    PROVE  LockedOut'
<1>1. LoginsAreCurrent'
  BY DEF LockedOut, LoginsAreCurrent
<1>2. NoSessionOutlivesReset'
  BY DEF LockedOut, NoSessionOutlivesReset, IsLive
<1>3. NewPasswordStays'
  BY DEF LockedOut, NewPasswordStays
<1> QED  BY <1>1, <1>2, <1>3 DEF LockedOut

\* Revoking adds no live token.
LEMMA RevokedPasswords ==
    ASSUME Typed, NEW ts, tokens' = Revoked(ts), NEW t \in DOMAIN tokens', ~ tokens'[t].revoked
    PROVE  /\ t \in DOMAIN tokens /\ ~ tokens[t].revoked /\ t \notin ts
           /\ tokens'[t].pw = tokens[t].pw /\ tokens'[t].user = tokens[t].user
BY RevokedRows

LEMMA StepLockedOut ==
    ASSUME SInv, SInv', LockedOut, OneAtATime', NEW c \in Clients, Step(c)
    PROVE  LockedOut'
<1>1. Typed /\ DOMAIN tx = Clients
  BY DEF SInv, TxsAreSound
<1>2. ASSUME UNCHANGED <<accounts, tokens, resets>>, NEW new, tx' = [tx EXCEPT ![c] = new],
             new.op = "login" => new.pw = accounts[new.user].pw
      PROVE  LockedOut'
  <2>1. accounts' = accounts /\ tokens' = tokens /\ resets' = resets
    BY <1>2
  <2>2. tx'[c] = new /\ \A b \in Clients \ {c} : tx'[b] = tx[b]
    BY <1>1, <1>2
  <2> QED  BY <1>2, <2>1, <2>2, PasswordsStay
<1>3. NoTx.op = "none"
  BY DEF NoTx
<1>4. ASSUME NEW e \in Emails, NEW name \in OrganizationNames, BeginRegister(c, e, name)
      PROVE  LockedOut'
  <2>1. PICK s \in AvailableSlugs(accounts, name, e) :
            tx' = [tx EXCEPT ![c] = [op |-> "register", user |-> e, slug |-> s,
                                     seen |-> {d \in Emails : Registered(accounts, d)}]]
    BY <1>4 DEF BeginRegister
  <2> QED  BY <1>2, <1>4, <2>1 DEF BeginRegister
<1>5. ASSUME NEW e \in Emails, BeginLogin(c, e) \/ BeginForgot(c, e)  PROVE LockedOut'
  BY <1>2, <1>5 DEF BeginLogin, BeginForgot
<1>6. ASSUME NEW t \in DOMAIN tokens, BeginRefresh(c, t)  PROVE LockedOut'
  BY <1>2, <1>6 DEF BeginRefresh
<1>7. ASSUME NEW g \in DOMAIN grants, BeginReset(c, g)  PROVE LockedOut'
  BY <1>2, <1>7 DEF BeginReset
<1>8. CASE Abort(c)
  BY <1>2, <1>3, <1>8 DEF Abort, Ends
<1>9. CASE CommitForgot(c)
  BY <1>2, <1>3, <1>9 DEF CommitForgot, Ends
<1>10. ASSUME Ends(c)
       PROVE  /\ tx'[c] = NoTx /\ \A b \in Clients \ {c} : tx'[b] = tx[b]
              /\ tx[c] # NoTx => \A b \in Clients : tx'[b].op = "none"
  <2>1. tx'[c] = NoTx /\ \A b \in Clients \ {c} : tx'[b] = tx[b]
    BY <1>1, <1>10 DEF Ends
  <2>2. ASSUME tx[c] # NoTx, NEW b \in Clients  PROVE tx'[b].op = "none"
    BY <1>3, <2>1, <2>2 DEF LockedOut, OneAtATime
  <2> QED  BY <2>1, <2>2
<1>11. CASE CommitRegister(c)
  <2>1. CASE accounts' = accounts
    BY <1>2, <1>3, <1>11, <2>1 DEF CommitRegister, Ends
  <2>2. CASE accounts' # accounts
    <3> DEFINE e == tx[c].user
    <3>1. /\ accounts' = [accounts EXCEPT ![e] = [slug |-> tx[c].slug, pw |-> 0]]
          /\ ~ Registered(accounts, e) /\ tokens' = tokens /\ resets' = resets
          /\ tx[c].op = "register" /\ Ends(c)
      BY <1>11, <2>2 DEF CommitRegister, Committing
    <3>2. e \in Emails /\ resets[e] = 0 /\ tx[c] # NoTx
      BY <1>3, <3>1 DEF SInv, TxsAreSound, TxIsSound, OnlyRegistered
    <3>3. accounts'[e].pw = 0 /\ \A d \in Emails : d # e => accounts'[d].pw = accounts[d].pw
      BY <1>1, <3>1, <3>2 DEF Typed
    <3>4. LoginsAreCurrent'
      BY <1>10, <3>1, <3>2 DEF LoginsAreCurrent
    <3>5. NewPasswordStays'
      BY <3>1, <3>2, <3>3 DEF LockedOut, NewPasswordStays
    <3>6. \A t \in DOMAIN tokens : tokens[t].user \in Emails /\ tokens[t].user # e
      BY <1>1, <3>1, RowTypes DEF SInv, OnlyRegistered
    <3>7. NoSessionOutlivesReset'
      BY <3>1, <3>3, <3>6 DEF LockedOut, NoSessionOutlivesReset, IsLive
    <3> QED  BY <3>4, <3>5, <3>7 DEF LockedOut
  <2> QED  BY <2>1, <2>2
<1>12. CASE CommitLogin(c)
  <2> DEFINE e == tx[c].user
             r == [user |-> e, fam |-> Len(tokens) + 1, pw |-> tx[c].pw, revoked |-> FALSE]
  <2>1. /\ tokens' = Append(tokens, r) /\ Ends(c) /\ resets' = resets /\ tx[c].op = "login"
        /\ accounts' = IF Rehash THEN [accounts EXCEPT ![e].pw = tx[c].pw] ELSE accounts
    BY <1>12 DEF CommitLogin, Committing
  <2>2. e \in Emails /\ tx[c].pw = accounts[e].pw
    BY <1>3, <2>1 DEF SInv, TxsAreSound, TxIsSound, LockedOut, LoginsAreCurrent
  <2>3. accounts' = accounts
    <3>1. [accounts EXCEPT ![e].pw = tx[c].pw] = accounts
      BY <1>1, <2>2 DEF Typed
    <3> QED  BY <2>1, <3>1
  <2>4. /\ Len(tokens) \in Nat /\ DOMAIN tokens = 1 .. Len(tokens) /\ tokens \in Seq(RefreshToken)
    BY <1>1, RowTypes DEF Typed
  <2>5. r.pw = tx[c].pw /\ r.user = e
    OBVIOUS
  <2> HIDE DEF r
  <2>6. ASSUME NEW t \in DOMAIN tokens'
        PROVE  (t \in DOMAIN tokens /\ tokens'[t] = tokens[t]) \/ tokens'[t] = r
    BY <2>1, <2>4
  <2>7. tx'[c].op = "none" /\ \A b \in Clients \ {c} : tx'[b] = tx[b]
    BY <1>3, <1>10, <2>1
  <2> QED  BY <2>1, <2>2, <2>3, <2>5, <2>6, <2>7, PasswordsStay
<1>13. CASE Rotate(c)
  <2> DEFINE k == tx[c].token
             r == [tx[c].row EXCEPT !.revoked = FALSE]
  <2>1. /\ tokens' = Append(Revoked({k}), r) /\ Ends(c) /\ accounts' = accounts /\ resets' = resets
        /\ tx[c].op = "refresh" /\ ~ tx[c].row.revoked
    BY <1>13 DEF Rotate, Committing
  <2>2. k \in DOMAIN tokens /\ tx[c].row = tokens[k] /\ IsLive(k) /\ tokens[k] \in RefreshToken
    BY <1>1, <1>3, <2>1, RowTypes DEF SInv, TxsAreSound, TxIsSound, IsLive
  <2>3. r.pw = accounts[r.user].pw
    BY <2>2 DEF LockedOut, NoSessionOutlivesReset, RefreshToken
  <2>4. /\ Len(tokens) \in Nat /\ DOMAIN tokens = 1 .. Len(tokens)
        /\ Revoked({k}) \in Seq(RefreshToken) /\ Len(Revoked({k})) = Len(tokens)
        /\ \A t \in DOMAIN tokens :
             /\ Revoked({k})[t].pw = tokens[t].pw /\ Revoked({k})[t].user = tokens[t].user
             /\ tokens[t].revoked => Revoked({k})[t].revoked
    BY <1>1, RowTypes, RevokedRows
  <2> HIDE DEF r
  <2>5. ASSUME NEW t \in DOMAIN tokens'
        PROVE  (t \in DOMAIN tokens /\ tokens'[t] = Revoked({k})[t]) \/ tokens'[t] = r
    BY <2>1, <2>4
  <2>6. tx'[c].op = "none" /\ \A b \in Clients \ {c} : tx'[b] = tx[b]
    BY <1>3, <1>10, <2>1
  <2>7. \A t \in DOMAIN tokens' : ~ tokens'[t].revoked =>
          \/ tokens'[t].pw = accounts[tokens'[t].user].pw
          \/ /\ t \in DOMAIN tokens /\ ~ tokens[t].revoked
             /\ tokens'[t].pw = tokens[t].pw /\ tokens'[t].user = tokens[t].user
    <3> TAKE t \in DOMAIN tokens'
    <3>1. CASE tokens'[t] = r
      BY <2>3, <3>1
    <3>2. CASE t \in DOMAIN tokens /\ tokens'[t] = Revoked({k})[t]
      BY <2>4, <3>2
    <3> QED  BY <2>5, <3>1, <3>2
  <2> QED  BY <2>1, <2>6, <2>7, PasswordsStay
<1>14. ASSUME NEW ts, tokens' = Revoked(ts), accounts' = accounts, resets' = resets,
              Ends(c) \/ (tx' = tx /\ tx[c] = NoTx)
       PROVE  LockedOut'
  <2>1. tx'[c].op = "none" /\ \A b \in Clients \ {c} : tx'[b] = tx[b]
    BY <1>3, <1>10, <1>14
  <2>2. \A t \in DOMAIN tokens' : ~ tokens'[t].revoked =>
            /\ t \in DOMAIN tokens /\ ~ tokens[t].revoked
            /\ tokens'[t].pw = tokens[t].pw /\ tokens'[t].user = tokens[t].user
    BY <1>1, <1>14, RevokedPasswords
  <2> QED  BY <1>14, <2>1, <2>2, PasswordsStay
<1>15. CASE DetectReuse(c)
  BY <1>14, <1>15 DEF DetectReuse, RevokesFamily
<1>16. ASSUME NEW t \in DOMAIN tokens, Logout(c, t)  PROVE LockedOut'
  BY <1>14, <1>16 DEF Logout, RevokesFamily, MayBegin
<1>17. CASE CommitReset(c)
  <2> DEFINE e == tx[c].row.user
             ts == TokensOf(e)
  <2>1. /\ accounts' = [accounts EXCEPT ![e].pw = resets[e] + 1]
        /\ resets' = [resets EXCEPT ![e] = @ + 1]
        /\ tokens' = Revoked(ts) /\ Ends(c) /\ tx[c].op = "reset"
    BY <1>17 DEF CommitReset, Committing, EndsSessions
  <2>2. tx[c].grant \in DOMAIN grants /\ tx[c].row = grants[tx[c].grant] /\ tx[c] # NoTx
    BY <1>3, <2>1 DEF SInv, TxsAreSound, TxIsSound
  <2>3. e \in Emails
    BY <1>1, <2>2, RowTypes
  <2>4. /\ accounts'[e].pw = resets'[e]
        /\ \A d \in Emails : d # e => accounts'[d].pw = accounts[d].pw /\ resets'[d] = resets[d]
    BY <1>1, <2>1, <2>3 DEF Typed
  <2>5. LoginsAreCurrent'
    BY <1>10, <2>1, <2>2 DEF LoginsAreCurrent
  <2>6. NewPasswordStays'
    BY <2>4 DEF LockedOut, NewPasswordStays
  <2>7. NoSessionOutlivesReset'
    <3> SUFFICES ASSUME NEW t \in DOMAIN tokens', ~ tokens'[t].revoked
                 PROVE  tokens'[t].pw = accounts'[tokens'[t].user].pw
      BY DEF NoSessionOutlivesReset, IsLive
    <3>1. /\ t \in DOMAIN tokens /\ ~ tokens[t].revoked /\ t \notin ts
          /\ tokens'[t].pw = tokens[t].pw /\ tokens'[t].user = tokens[t].user
      BY <1>1, <2>1, RevokedPasswords
    <3>2. tokens[t].user \in Emails /\ tokens[t].user # e
      BY <1>1, <3>1, RowTypes DEF TokensOf
    <3> QED  BY <2>4, <3>1, <3>2 DEF LockedOut, NoSessionOutlivesReset, IsLive
  <2> QED  BY <2>5, <2>6, <2>7 DEF LockedOut
<1> QED  BY <1>4, <1>5, <1>6, <1>7, <1>8, <1>9, <1>11, <1>12, <1>13, <1>15, <1>16, <1>17 DEF Step

\* While the requests of the clients do not overlap, whoever knew the old password
\* is locked out by a reset, and the new password is the password
\* (reset_password, login).
THEOREM SessionsLockOut == MCSpec => []SeriallyLockedOut
<1> DEFINE L == SInv /\ (scenario = "serial" => LockedOut)
<1>1. ASSUME MCInit  PROVE L
  <2>1. Init
    BY <1>1 DEF MCInit
  <2>2. LockedOut
    BY <2>1 DEF Init, LockedOut, OneAtATime, LoginsAreCurrent, NoSessionOutlivesReset,
                NewPasswordStays, NoTx, NoAccount
  <2> QED  BY <2>1, <2>2, InitSInv
<1>2. ASSUME L, [MCNext]_<<vars, scenario>>  PROVE L'
  <2>1. [Next]_vars /\ scenario' = scenario
    BY <1>2 DEF MCNext
  <2>2. SInv'
    BY <1>2, <2>1, NextSInv
  <2>3. ASSUME scenario = "serial"  PROVE LockedOut'
    <3>1. CASE Next /\ Within'
      <4>1. OneAtATime'
        <5>1. Cardinality(Open') <= 1
          BY <2>1, <2>3, <3>1 DEF Within
        <5> QED  BY <5>1, OpenOne
      <4> QED  BY <1>2, <2>2, <2>3, <3>1, <4>1, StepLockedOut DEF Next
    <3>2. CASE UNCHANGED <<vars, scenario>>
      BY <1>2, <2>3, <3>2 DEF vars, LockedOut, OneAtATime, LoginsAreCurrent, NoSessionOutlivesReset,
                              NewPasswordStays, IsLive
    <3> QED  BY <1>2, <3>1, <3>2 DEF MCNext
  <2> QED  BY <2>1, <2>2, <2>3
<1>3. L => SeriallyLockedOut
  BY DEF SeriallyLockedOut, LockedOut
<1> QED  BY <1>1, <1>2, <1>3, PTL DEF MCSpec
=============================================================================
