----------------------------- MODULE WalletReply -----------------------------
(***************************************************************************)
(* The replies of the wallet commands, shared by the table that computes   *)
(* them (WalletTable), the abstract wallet (WalletMap) and the drivers     *)
(* that carry them.  The text of a reply line is a record with one field   *)
(* per thing the line tells the caller; replies of different kinds have    *)
(* different fields, so that two replies are equal iff their lines are.    *)
(***************************************************************************)
EXTENDS Naturals

\* "%d\n": the creation id, the answer of CREATE and CHANGE.
CidReply(n) == [creation_id |-> n]

\* "%s %s\n": the answer of READ.
PairReply(k, p) == [key_id |-> k, priv_key |-> p]

\* "0\n": the answer of DELETE and DELETEALL.
StatusReply == [status |-> 0]

\* The lines of READALL: the entries printed whole, and whether the buffer
\* ended before the listing did.
Listing(entries, cut) == [entries |-> entries, cut |-> cut]

\* A command that failed with -e.
Failure(e) == [errno |-> e]

\* strscpy into priv_key alone: the entry keeps its key and its id.
Rekeyed(e, p) == [key_id |-> e.key_id, priv_key |-> p,
                  creation_id |-> e.creation_id]

Errno == {"EINVAL", "EEXIST", "ENOENT", "ENOSPC", "EPERM"}

\* No reply: the caller has no finished command to return from.
NoReply == [none |-> 0]

IsFailure(r) == \E e \in Errno : r = Failure(e)
=============================================================================
