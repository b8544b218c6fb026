----------------------------- MODULE MCSessions -----------------------------
(***************************************************************************)
(* Sessions in three scenarios: the clients of one account, whose requests *)
(* overlap; the clients of two accounts, one request at a time; and three  *)
(* addresses that register organizations of two names at once.             *)
(***************************************************************************)
EXTENDS Sessions, TLC

VARIABLE scenario

Symmetry == Permutations(Clients)

First == CHOOSE e \in Emails : TRUE
Second == CHOOSE e \in Emails \ {First} : TRUE
Name == CHOOSE name \in OrganizationNames : TRUE

Open == {c \in Clients : tx[c] # NoTx}
Registering == {c \in Open : tx[c].op = "register"}

\* Only these addresses register, in order, and under one name.
Only(emails) ==
    \A c \in Registering :
      /\ tx[c].user \in emails /\ tx[c].slug[1] = Name
      /\ tx[c].user = Second => Registered(accounts, First)

Within ==
    /\ scenario = "overlap" => Only({First}) /\ Cardinality(Registering) <= 1
    /\ scenario = "serial" => Only({First, Second}) /\ Cardinality(Open) <= 1
    /\ scenario = "register" => Open = Registering

MCInit == Init /\ scenario \in {"overlap", "serial", "register"}
MCNext == Next /\ UNCHANGED scenario /\ Within'
MCSpec == MCInit /\ [][MCNext]_<<vars, scenario>>

\* While requests do not overlap, a reset ends every session of its account and
\* of no other, and no login puts the old password back (reset_password).
SeriallyLockedOut == scenario = "serial" => NoSessionOutlivesReset /\ NewPasswordStays
=============================================================================
