------------------------------ MODULE WalletMap ------------------------------
(***************************************************************************)
(* What the wallet promises its users: a bounded set of entries addressed  *)
(* by key, whose creation ids grow for as long as the wallet holds         *)
(* anything.  There are no slots, no table order and no counter here.      *)
(***************************************************************************)
EXTENDS WalletReply, FiniteSets

CONSTANTS Client,     \* the callers
          Capacity,   \* how many entries fit
          KeyId, PrivKey, None,
          Truncated,  \* the key the wallet remembers for a key it is given
          MaxCid      \* bound on the ids handed out

VARIABLES store,      \* the entries
          last,       \* the last id handed out since the wallet was empty
          answer      \* the answer each caller has not returned with yet

mapVars == <<store, last, answer>>

Named(k) == {e \in store : e.key_id = k}

Init == /\ store = {}
        /\ last = 0
        /\ answer = [c \in Client |-> NoReply]

Answer(c, r) == /\ answer[c] = NoReply
                /\ answer' = [answer EXCEPT ![c] = r]

\* A refused command changes nothing.
Refuse(c, e) == Answer(c, Failure(e)) /\ UNCHANGED <<store, last>>

\* A key is created at most once, while there is room, under an id that no
\* entry got since the wallet was last empty.
Create(c, k, p) ==
  \/ Named(k) # {} /\ Refuse(c, "EEXIST")
  \/ Named(k) = {} /\ Cardinality(store) = Capacity /\ Refuse(c, "ENOSPC")
  \/ /\ Named(k) = {}
     /\ Cardinality(store) < Capacity
     /\ \E id \in (last + 1)..MaxCid :
          /\ store' = store \cup {[key_id |-> Truncated[k], priv_key |-> p,
                                   creation_id |-> id]}
          /\ last' = id
          /\ Answer(c, CidReply(id))

Read(c, k) ==
  \/ Named(k) = {} /\ Refuse(c, "ENOENT")
  \/ \E e \in Named(k) : /\ Answer(c, PairReply(k, e.priv_key))
                         /\ UNCHANGED <<store, last>>

\* A listing names only entries of the store, and all of them unless cut.
ReadAll(c) ==
  \E shown \in SUBSET store, cut \in BOOLEAN :
     /\ ~cut => shown = store
     /\ Answer(c, Listing(shown, cut))
     /\ UNCHANGED <<store, last>>

\* Only a caller that knows the old private key replaces it; the entry
\* keeps its key and its id.
Change(c, k, old, new) ==
  \/ Named(k) = {} /\ Refuse(c, "ENOENT")
  \/ \E e \in Named(k) :
       \/ e.priv_key # old /\ Refuse(c, "EPERM")
       \/ /\ e.priv_key = old
          /\ store' = (store \ {e}) \cup {Rekeyed(e, new)}
          /\ last' = last
          /\ Answer(c, CidReply(e.creation_id))

\* The ids start again when, and only when, the wallet becomes empty.
Delete(c, k) ==
  \/ Named(k) = {} /\ Refuse(c, "ENOENT")
  \/ \E e \in Named(k) :
       /\ store' = store \ {e}
       /\ last' = IF store' = {} THEN 0 ELSE last
       /\ Answer(c, StatusReply)

DeleteAll(c) == /\ store' = {}
                /\ last' = 0
                /\ Answer(c, StatusReply)

Return(c) == /\ answer[c] # NoReply
             /\ answer' = [answer EXCEPT ![c] = NoReply]
             /\ UNCHANGED <<store, last>>

Next == \E c \in Client :
  \/ Refuse(c, "EINVAL")
  \/ \E k \in KeyId :
       \/ \E p \in PrivKey : Create(c, k, p)
       \/ Read(c, k)
       \/ \E old, new \in PrivKey : Change(c, k, old, new)
       \/ Delete(c, k)
  \/ ReadAll(c)
  \/ DeleteAll(c)
  \/ Return(c)

Spec == Init /\ [][Next]_mapVars
=============================================================================
