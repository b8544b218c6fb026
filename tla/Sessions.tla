------------------------------ MODULE Sessions ------------------------------
(***************************************************************************)
(* Accounts, sessions and password resets (services/auth_service.py and    *)
(* the refresh-token, reset-token and user repositories).                  *)
(*                                                                         *)
(* A use case is one transaction.  Its plain SELECTs read the snapshot of  *)
(* its first one; FOR UPDATE and the bulk UPDATEs read current rows and    *)
(* wait for whoever holds them.  Only the row locked by FOR UPDATE is held *)
(* across a wait (hashing, the client's own pace), so a use case is Begin, *)
(* which locks and reads, and a commit, which needs every row it writes    *)
(* free of the others' locks.  Abort is a refusal, a deadlock or a crash.  *)
(*                                                                         *)
(* A session is a family of refresh tokens, named by its first.  Expiry    *)
(* only keeps clients from presenting a token, which they never have to.   *)
(* A password is named by the number of the reset that set it.             *)
(***************************************************************************)
EXTENDS Naturals, Sequences, FiniteSets

CONSTANTS
    Emails,
    OrganizationNames,
    Clients,
    MaxTokens,      \* bound on refresh tokens issued
    MaxGrants,      \* bound on reset links issued
    SlugAttempts,   \* _MAX_SLUG_ATTEMPTS
    Rehash          \* whether stored hashes are older than the parameters in force

ASSUME SessionsAssumption ==
    /\ MaxTokens \in Nat /\ MaxGrants \in Nat /\ SlugAttempts \in Nat
    /\ Rehash \in BOOLEAN
    /\ IsFiniteSet(Clients)
    /\ Emails \cap Nat = {}  \* they also stand for unique ids

VARIABLES
    accounts,   \* users and their organizations' slugs, by e-mail address
    tokens,     \* refresh_tokens, in the order of their ids
    grants,     \* password_reset_tokens, likewise
    tx,         \* the clients' open transactions
    resets,     \* history: how often each account's password was reset
    ended       \* history: families closed by a logout, a replay or a reset

vars == <<accounts, tokens, grants, tx, resets, ended>>

NoAccount == [slug |-> <<>>, pw |-> 0]
Account == [slug : Seq(OrganizationNames \cup Nat \cup Emails), pw : Nat]
RefreshToken == [user : Emails, fam : 1 .. MaxTokens, pw : Nat, revoked : BOOLEAN]
Grant == [user : Emails, consumed : BOOLEAN, used : 0 .. 1]

NoTx == [op |-> "none"]

TypeOK ==
    /\ DOMAIN accounts = Emails
    /\ \A e \in Emails : Len(accounts[e].slug) <= 2 /\ accounts[e].pw <= resets[e]
    /\ Len(tokens) <= MaxTokens /\ tokens \in Seq(RefreshToken)
    /\ Len(grants) <= MaxGrants /\ grants \in Seq(Grant)
    /\ \A c \in Clients : tx[c].op \in {"none", "register", "login", "refresh", "forgot", "reset"}
    /\ resets \in [Emails -> Nat]
    /\ ended \subseteq 1 .. MaxTokens

Init ==
    /\ accounts = [e \in Emails |-> NoAccount]
    /\ tokens = <<>>
    /\ grants = <<>>
    /\ tx = [c \in Clients |-> NoTx]
    /\ resets = [e \in Emails |-> 0]
    /\ ended = {}

-----------------------------------------------------------------------------
(* Rows *)

Registered(accs, e) == accs[e].slug # <<>>
SlugExists(accs, s) == \E e \in Emails : accs[e].slug = s

\* _available_slug: the plain slug, the numbered ones, then a unique one.
Candidates(name) == {<<name>>} \cup {<<name, k>> : k \in 2 .. SlugAttempts + 1}
IsFirst(accs, s) ==
    \/ Len(s) = 1
    \/ \A t \in Candidates(s[1]) : Len(t) = 1 \/ t[2] < s[2] => SlugExists(accs, t)
FreeSlugs(accs, name) == {s \in Candidates(name) : ~ SlugExists(accs, s) /\ IsFirst(accs, s)}

\* Mutant: the plain slug, once the numbered ones are exhausted.
GivesUpGuessing(accs, name, e) ==
    IF FreeSlugs(accs, name) # {} THEN FreeSlugs(accs, name) ELSE {<<name>>}

AvailableSlugs(accs, name, e) ==
    IF FreeSlugs(accs, name) # {} THEN FreeSlugs(accs, name) ELSE {<<name, e>>}

Family(f) == {t \in DOMAIN tokens : tokens[t].fam = f}
TokensOf(e) == {t \in DOMAIN tokens : tokens[t].user = e}
GrantsOf(e) == {g \in DOMAIN grants : grants[g].user = e}
IsLive(t) == ~ tokens[t].revoked
Outstanding(g) == ~ grants[g].consumed

\* Mutant: a plain SELECT.
LocksNoToken(c, ts) == FALSE

\* Some other transaction holds one of these refresh tokens, or grants.
HeldToken(c, ts) == \E b \in Clients \ {c} : tx[b].op = "refresh" /\ tx[b].token \in ts

\* Mutant: a plain SELECT.
LocksNoGrant(c, gs) == FALSE

HeldGrant(c, gs) == \E b \in Clients \ {c} : tx[b].op = "reset" /\ tx[b].grant \in gs

\* revoke_family and revoke_all_for_user; consume_outstanding_for_user.
Revoked(ts) == [t \in DOMAIN tokens |-> [tokens[t] EXCEPT !.revoked = @ \/ t \in ts]]
Consumed(gs) == [g \in DOMAIN grants |-> [grants[g] EXCEPT !.consumed = @ \/ g \in gs]]

FamiliesOf(ts) == {tokens[t].fam : t \in ts}

-----------------------------------------------------------------------------
(* Transactions *)

MayBegin(c) == tx[c] = NoTx
Committing(c, op) == tx[c].op = op
Ends(c) == tx' = [tx EXCEPT ![c] = NoTx]

Abort(c) ==
    /\ tx[c] # NoTx
    /\ Ends(c)
    /\ UNCHANGED <<accounts, tokens, grants, resets, ended>>

\* The address and the slug are checked against the snapshot, whose accounts are seen.
BeginRegister(c, e, name) ==
    /\ MayBegin(c)
    /\ ~ Registered(accounts, e)
    /\ \E s \in AvailableSlugs(accounts, name, e) :
         tx' = [tx EXCEPT ![c] = [op |-> "register", user |-> e, slug |-> s,
                                  seen |-> {d \in Emails : Registered(accounts, d)}]]
    /\ UNCHANGED <<accounts, tokens, grants, resets, ended>>

\* Either unique index may refuse the rows; both refusals read "an account with
\* this email address already exists".
CommitRegister(c) ==
    /\ Committing(c, "register")
    /\ LET e == tx[c].user  s == tx[c].slug
       IN  IF Registered(accounts, e) \/ SlugExists(accounts, s)
           THEN UNCHANGED accounts
           ELSE accounts' = [accounts EXCEPT ![e] = [slug |-> s, pw |-> 0]]
    /\ Ends(c) /\ UNCHANGED <<tokens, grants, resets, ended>>

\* The password is verified against the hash of the snapshot.
BeginLogin(c, e) ==
    /\ MayBegin(c)
    /\ Registered(accounts, e)
    /\ tx' = [tx EXCEPT ![c] = [op |-> "login", user |-> e, pw |-> accounts[e].pw]]
    /\ UNCHANGED <<accounts, tokens, grants, resets, ended>>

CommitLogin(c) ==
    /\ Committing(c, "login")
    /\ Len(tokens) < MaxTokens
    /\ LET e == tx[c].user
       IN  /\ tokens' = Append(tokens, [user |-> e, fam |-> Len(tokens) + 1, pw |-> tx[c].pw,
                                        revoked |-> FALSE])
           /\ accounts' = IF Rehash THEN [accounts EXCEPT ![e].pw = tx[c].pw] ELSE accounts
    /\ Ends(c) /\ UNCHANGED <<grants, resets, ended>>

\* get_by_jti FOR UPDATE: any token a client was ever given may be presented.
BeginRefresh(c, t) ==
    /\ MayBegin(c)
    /\ ~ HeldToken(c, {t})
    /\ tx' = [tx EXCEPT ![c] = [op |-> "refresh", token |-> t, row |-> tokens[t]]]
    /\ UNCHANGED <<accounts, tokens, grants, resets, ended>>

\* The token was live: it is retired and has one successor.
Rotate(c) ==
    /\ Committing(c, "refresh")
    /\ ~ tx[c].row.revoked
    /\ Len(tokens) < MaxTokens
    /\ tokens' = Append(Revoked({tx[c].token}), [tx[c].row EXCEPT !.revoked = FALSE])
    /\ Ends(c) /\ UNCHANGED <<accounts, grants, resets, ended>>

\* Mutant: the tokens as they were when the replayed one was read.
RevokesAncestors(t) == Revoked({u \in Family(tokens[t].fam) : u <= t})

RevokesFamily(t) == Revoked(Family(tokens[t].fam))

\* It was retired before: the family is closed, and that is committed.
DetectReuse(c) ==
    /\ Committing(c, "refresh")
    /\ tx[c].row.revoked
    /\ ~ HeldToken(c, Family(tx[c].row.fam))
    /\ tokens' = RevokesFamily(tx[c].token)
    /\ ended' = ended \cup {tx[c].row.fam}
    /\ Ends(c) /\ UNCHANGED <<accounts, grants, resets>>

\* Reads nothing that can change before its UPDATE: one step.
Logout(c, t) ==
    /\ MayBegin(c)
    /\ ~ HeldToken(c, Family(tokens[t].fam))
    /\ tokens' = RevokesFamily(t)
    /\ ended' = ended \cup {tokens[t].fam}
    /\ UNCHANGED <<accounts, grants, tx, resets>>

BeginForgot(c, e) ==
    /\ MayBegin(c)
    /\ Registered(accounts, e)
    /\ tx' = [tx EXCEPT ![c] = [op |-> "forgot", user |-> e, seen |-> GrantsOf(e)]]
    /\ UNCHANGED <<accounts, tokens, grants, resets, ended>>

\* Mutant: the links that were outstanding when the request began.
SupersedesSeen(c, e) == tx[c].seen

Supersedes(c, e) == GrantsOf(e)

\* Next-key locks keep two requests from superseding past each other.
CommitForgot(c) ==
    /\ Committing(c, "forgot")
    /\ Len(grants) < MaxGrants
    /\ LET e == tx[c].user
       IN  /\ ~ HeldGrant(c, GrantsOf(e))
           /\ grants' = Append(Consumed(Supersedes(c, e)),
                               [user |-> e, consumed |-> FALSE, used |-> 0])
    /\ Ends(c) /\ UNCHANGED <<accounts, tokens, resets, ended>>

\* get_by_digest FOR UPDATE: any link ever sent may be presented.
BeginReset(c, g) ==
    /\ MayBegin(c)
    /\ ~ HeldGrant(c, {g})
    /\ tx' = [tx EXCEPT ![c] = [op |-> "reset", grant |-> g, row |-> grants[g],
                                seen |-> TokensOf(grants[g].user)]]
    /\ UNCHANGED <<accounts, tokens, grants, resets, ended>>

\* Mutant: the sessions that existed when the link was presented.
EndsSeen(c, e) == tx[c].seen

\* Mutant: the sessions of the family that logged in last.
EndsLastLogin(c, e) ==
    {t \in TokensOf(e) : \A u \in TokensOf(e) : tokens[u].fam <= tokens[t].fam}

EndsSessions(c, e) == TokensOf(e)

CommitReset(c) ==
    /\ Committing(c, "reset")
    /\ ~ tx[c].row.consumed
    /\ LET g == tx[c].grant  e == tx[c].row.user
       IN  /\ ~ HeldGrant(c, GrantsOf(e))
           /\ ~ HeldToken(c, TokensOf(e))
           /\ accounts' = [accounts EXCEPT ![e].pw = resets[e] + 1]
           /\ resets' = [resets EXCEPT ![e] = @ + 1]
           /\ grants' = [Consumed({g} \cup GrantsOf(e)) EXCEPT ![g].used = @ + 1]
           /\ tokens' = Revoked(EndsSessions(c, e))
           /\ ended' = ended \cup FamiliesOf(TokensOf(e))
    /\ Ends(c)

Step(c) ==
    \/ \E e \in Emails : \/ \E name \in OrganizationNames : BeginRegister(c, e, name)
                         \/ BeginLogin(c, e) \/ BeginForgot(c, e)
    \/ \E t \in DOMAIN tokens : BeginRefresh(c, t) \/ Logout(c, t)
    \/ \E g \in DOMAIN grants : BeginReset(c, g)
    \/ CommitRegister(c) \/ CommitLogin(c) \/ Rotate(c) \/ DetectReuse(c)
    \/ CommitForgot(c) \/ CommitReset(c) \/ Abort(c)

Next == \E c \in Clients : Step(c)

Spec == Init /\ [][Next]_vars

-----------------------------------------------------------------------------
(* What holds however transactions overlap *)

\* A refresh token is single-use: two clients that present one token never
\* both extend the session, so a session has one live token at a time.
OneLiveTokenPerSession ==
    \A f \in 1 .. MaxTokens : Cardinality({t \in Family(f) : IsLive(t)}) <= 1

\* A session closed by a logout, by a replay or by a password reset stays
\* closed: no rotation that was under way leaves a live successor behind.
EndedStaysEnded == \A t \in DOMAIN tokens : IsLive(t) => tokens[t].fam \notin ended

\* An account never has two reset links that work, however many requests for
\* one raced.
OneLink == \A e \in Emails : Cardinality({g \in GrantsOf(e) : Outstanding(g)}) <= 1

\* A link changes the password at most once, and only while it is the newest:
\* no earlier mail is of use once a later one has been sent.
OnlyNewestLinkWorks ==
    \A g \in DOMAIN grants :
      grants'[g].used # grants[g].used =>
        /\ grants[g].used = 0
        /\ \A h \in GrantsOf(grants[g].user) : h <= g

\* A registration that found its address free is refused only for an account that
\* another one created meanwhile: however many organizations share a name, the slug
\* that was chosen for it collides with none its snapshot showed.
RefusedOnlyByRivals ==
    [][\A c \in Clients : CommitRegister(c) /\ UNCHANGED accounts =>
         \E d \in Emails \ tx[c].seen :
            /\ Registered(accounts, d)
            /\ d = tx[c].user \/ accounts[d].slug = tx[c].slug]_vars

\* No race leaves a session with two live tokens or brings an ended one back.
SessionsAreSound == OneLiveTokenPerSession /\ EndedStaysEnded

\* No race leaves two links that work or lets an older one be used.
LinksAreSound == [][OneLink' /\ OnlyNewestLinkWorks]_vars

-----------------------------------------------------------------------------
(* What the code's comments promise, and keep only while requests do not overlap *)

\* Whoever knew the old password is locked out by a reset: every live session
\* goes back to a login with the present one.
NoSessionOutlivesReset ==
    \A t \in DOMAIN tokens : IsLive(t) => tokens[t].pw = accounts[tokens[t].user].pw

\* After a reset the new password is the password.
NewPasswordStays == \A e \in Emails : accounts[e].pw = resets[e]
=============================================================================
