-------------------------- MODULE SocketChatProofs --------------------------
(***************************************************************************)
(* However many peers of the socket chat start together and overlap: those *)
(* that got past the key file have one key, only a peer that looked for a  *)
(* listener too early unlinks the path of one, and what is printed was     *)
(* written by the partner, and is printed in its order.                    *)
(***************************************************************************)
EXTENDS SocketChat, ChatFramesProofs

Starting == {"open_key", "read_key", "create_key", "write_key", "connect", "bind", "unlink",
             "rebind", "listen"}
Keyed == {"connect", "bind", "unlink", "rebind", "listen", "accept", "poll", "read_fd",
          "read_stdin", "close", "unlink_path", "remove_path"}

\* Where a peer is, what it has for a key, and what the file has.
KeyTypeOK == /\ pc \in [Peer -> Starting \cup Keyed \cup {"ended"}]
             /\ key \in [Peer -> CryptoKey \cup {None}]
             /\ key_file \in {"absent", "empty"} \cup CryptoKey

\* Who is past the key file has what is in it; before that there is at most one
\* writer, and while there is one the file is empty.
KeyInv ==
  /\ KeyTypeOK
  /\ \A p \in Peer : pc[p] \in Keyed => key[p] \in CryptoKey /\ key_file = key[p]
  /\ \A p \in Peer : pc[p] = "read_key" => key_file # "absent"
  /\ \A p \in Peer : pc[p] \in {"create_key", "write_key"} => key[p] \in CryptoKey
  /\ \A p, q \in Peer : pc[p] = "write_key" => /\ key_file = "empty"
                                               /\ pc[q] = "write_key" => p = q

\* A peer listens only after its start.  Who is about to bind or to unlink looked
\* for p before it listened, or p has lost the path or is closed, for good.
RaceInv ==
  /\ pc \in [Peer -> Starting \cup Keyed \cup {"ended"}]
  /\ bound \in [Peer -> BOOLEAN] /\ listening \in [Peer -> BOOLEAN]
  /\ raced \in [Peer -> SUBSET Peer]
  /\ \A p \in Peer : pc[p] \in Starting => ~ listening[p]
  /\ \A p, q \in Peer : pc[q] \in {"bind", "unlink"} =>
       \/ q \in raced[p]
       \/ listening[p] /\ (path # p \/ ~ IsOpen(p))

ChatTypeOK ==
  /\ pc \in [Peer -> Starting \cup Keyed \cup {"ended"}]
  /\ partner \in [Peer -> Peer \cup {None}] /\ backlog \in [Peer -> Seq(Peer)]
  /\ out \in [Peer -> Seq(Unit)]
  /\ revents \in [Peer -> SUBSET {"POLLIN", "POLLHUP"}]
  /\ sent \in [Peer -> Seq(Text)] /\ printed \in [Peer -> Seq(Text)]

\* p's other end has p as its other end.
Mutual(p) == partner[p] \in Peer /\ partner[partner[p]] = p

\* A peer gets its partner once, and reads of one that has it for a partner too: so
\* nobody else reads that stream.  What a peer has printed and what its partner
\* wrote and it did not read are, together, in the order they were sent; while it
\* has printed nothing, that is so of whoever may become its partner.
OrderInv ==
  /\ ChatTypeOK
  /\ \A p \in Peer : pc[p] \in Starting \cup {"accept"} => partner[p] = None
  /\ \A p \in Peer : "POLLIN" \in revents[p] \/ printed[p] # <<>> => Mutual(p)
  /\ \A p \in Peer : pc[p] = "read_fd" /\ "POLLIN" \in revents[p] => out[partner[p]] # <<>>
  /\ \A p, f \in Peer :
       printed[p] = <<>> \/ (Mutual(p) /\ partner[p] = f)
         => InOrder(Through(printed[p], out[f]), sent[f])
-----------------------------------------------------------------------------
\* The key file

\* At the start no peer has a key.
LEMMA KeyInit == Init => KeyInv
<1> SUFFICES ASSUME Init PROVE KeyInv
  OBVIOUS
<1>1. pc = [p \in Peer |-> "open_key"] /\ key = [p \in Peer |-> None] /\ key_file = "absent"
  BY DEF Init
<1>2. KeyTypeOK
  BY <1>1 DEF KeyTypeOK, Starting
<1>3. QED BY <1>1, <1>2 DEF KeyInv, Keyed

\* A step that leaves the keys alone, of a peer past the key file that stays past
\* it or ends.
LEMMA KeptKeys ==
  ASSUME KeyInv, NEW p \in Peer, pc[p] \in Keyed \/ pc[p] = "ended",
         NEW l \in Keyed \cup {"ended"}, pc[p] \in Keyed \/ l = "ended",
         Goto(p, l), UNCHANGED keyVars
  PROVE  KeyInv'
<1>1. KeyTypeOK'
  BY DEF KeyInv, KeyTypeOK, Goto, keyVars
<1>2. \A q \in Peer : pc'[q] = IF q = p THEN l ELSE pc[q]
  BY DEF KeyInv, KeyTypeOK, Goto
<1>3. l \notin {"read_key", "create_key", "write_key"}
  BY DEF Keyed
<1>4. QED BY <1>1, <1>2, <1>3 DEF KeyInv, Keyed, keyVars

\* A peer that ends has no part in the keys any more.
LEMMA EndKeepsKeys ==
  ASSUME KeyInv, NEW p \in Peer, Goto(p, "ended"), UNCHANGED keyVars
  PROVE  KeyInv'
<1>1. KeyTypeOK'
  BY DEF KeyInv, KeyTypeOK, Goto, keyVars
<1>2. \A q \in Peer : pc'[q] = IF q = p THEN "ended" ELSE pc[q]
  BY DEF KeyInv, KeyTypeOK, Goto
<1>3. QED BY <1>1, <1>2 DEF KeyInv, Keyed, keyVars

\* The four steps of crypto_options_create, each between any steps of others.
LEMMA KeyFileStep ==
  ASSUME KeyInv, NEW p \in Peer, OpenKey(p) \/ ReadKey(p) \/ CreateKey(p) \/ WriteKey(p)
  PROVE  KeyInv'
<1> USE NobodyAssumption
<1>0. KeyTypeOK
  BY DEF KeyInv
<1>1. CASE OpenKey(p)
  <2>1. CASE pc[p] = "open_key" /\ key_file # "absent" /\ Goto(p, "read_key")
             /\ UNCHANGED <<key, key_file>>
    <3>1. KeyTypeOK'
      BY <1>0, <2>1 DEF KeyTypeOK, Goto, Starting
    <3>2. \A q \in Peer : pc'[q] = IF q = p THEN "read_key" ELSE pc[q]
      BY <1>0, <2>1 DEF KeyTypeOK, Goto
    <3>3. QED BY <2>1, <3>1, <3>2 DEF KeyInv, Keyed
  <2>2. ASSUME pc[p] = "open_key", NEW k \in CryptoKey, key' = [key EXCEPT ![p] = k],
               Goto(p, "create_key"), UNCHANGED key_file
        PROVE  KeyInv'
    <3>1. KeyTypeOK'
      BY <1>0, <2>2 DEF KeyTypeOK, Goto, Starting
    <3>2. \A q \in Peer : /\ pc'[q] = IF q = p THEN "create_key" ELSE pc[q]
                          /\ key'[q] = IF q = p THEN k ELSE key[q]
      BY <1>0, <2>2 DEF KeyTypeOK, Goto
    <3>3. QED BY <2>2, <3>1, <3>2 DEF KeyInv, Keyed
  <2>3. QED BY <1>1, <2>1, <2>2 DEF OpenKey
<1>2. CASE ReadKey(p)
  <2>1. CASE Goto(p, "ended") /\ UNCHANGED keyVars
    BY <2>1, EndKeepsKeys
  <2>2. CASE /\ pc[p] = "read_key" /\ key_file # "empty" /\ UNCHANGED key_file
             /\ key' = [key EXCEPT ![p] = key_file] /\ Goto(p, "connect")
    <3>1. key_file \in CryptoKey
      BY <1>0, <2>2 DEF KeyInv, KeyTypeOK
    <3>2. KeyTypeOK'
      BY <1>0, <2>2, <3>1 DEF KeyTypeOK, Goto, Starting
    <3>3. \A q \in Peer : /\ pc'[q] = IF q = p THEN "connect" ELSE pc[q]
                          /\ key'[q] = IF q = p THEN key_file ELSE key[q]
      BY <1>0, <2>2 DEF KeyTypeOK, Goto
    <3>4. QED BY <2>2, <3>1, <3>2, <3>3 DEF KeyInv, Keyed
  <2>3. QED BY <1>2, <2>1, <2>2 DEF ReadKey, keyVars
<1>3. CASE CreateKey(p)
  <2>1. CASE Goto(p, "ended") /\ UNCHANGED keyVars
    BY <2>1, EndKeepsKeys
  <2>2. CASE /\ pc[p] = "create_key" /\ key_file = "absent" /\ key_file' = "empty"
             /\ Goto(p, "write_key") /\ UNCHANGED key
    <3>1. \A q \in Peer : pc[q] \notin Keyed /\ pc[q] # "write_key"
      BY <2>2 DEF KeyInv
    <3>2. KeyTypeOK'
      BY <1>0, <2>2 DEF KeyTypeOK, Goto, Starting
    <3>3. \A q \in Peer : pc'[q] = IF q = p THEN "write_key" ELSE pc[q]
      BY <1>0, <2>2 DEF KeyTypeOK, Goto
    <3>4. QED BY <2>2, <3>1, <3>2, <3>3 DEF KeyInv, Keyed
  <2>3. QED BY <1>3, <2>1, <2>2 DEF CreateKey, keyVars
<1>4. CASE WriteKey(p)
  <2>1. /\ pc[p] = "write_key" /\ key_file = "empty" /\ key[p] \in CryptoKey
        /\ key_file' = key[p] /\ UNCHANGED key /\ Goto(p, "connect")
    BY <1>4 DEF WriteKey, KeyInv
  <2>2. \A q \in Peer : pc[q] \notin Keyed
    BY <2>1 DEF KeyInv
  <2>3. \A q \in Peer : pc[q] = "write_key" => q = p
    BY <2>1 DEF KeyInv
  <2>4. KeyTypeOK'
    BY <1>0, <2>1 DEF KeyTypeOK, Goto, Starting, Keyed
  <2>5. \A q \in Peer : pc'[q] = IF q = p THEN "connect" ELSE pc[q]
    BY <1>0, <2>1 DEF KeyTypeOK, Goto
  <2>6. QED BY <2>1, <2>2, <2>3, <2>4, <2>5 DEF KeyInv, Keyed
<1>5. QED BY <1>1, <1>2, <1>3, <1>4

\* Every step keeps the invariant of the keys.
LEMMA KeyStep == KeyInv /\ [Next]_vars => KeyInv'
<1> SUFFICES ASSUME KeyInv, [Next]_vars PROVE KeyInv'
  OBVIOUS
<1>1. ASSUME NEW p \in Peer,
             Connect(p) \/ Bind(p) \/ Unlink(p) \/ Rebind(p) \/ Listen(p) \/ Accept(p)
      PROVE  KeyInv'
  <2>1. PICK l \in Keyed : Goto(p, l)
    BY <1>1 DEF Connect, Bind, Unlink, Rebind, Listen, Accept, Keyed
  <2>2. pc[p] \in Keyed /\ UNCHANGED keyVars
    BY <1>1 DEF Connect, Bind, Unlink, Rebind, Listen, Accept, Keyed
  <2>3. QED BY <2>1, <2>2, KeptKeys
<1>2. ASSUME NEW p \in Peer,
             Poll(p) \/ CloseSock(p) \/ UnlinkPath(p) \/ ReadFd(p) \/ ReadStdin(p)
      PROVE  KeyInv'
  <2>1. PICK l \in Keyed \cup {"ended"} : Goto(p, l)
    <3>1. CASE Poll(p)
      BY <3>1 DEF Poll, Keyed
    <3>2. CASE CloseSock(p)
      BY <3>2 DEF CloseSock, Keyed
    <3>3. CASE UnlinkPath(p)
      BY <3>3 DEF UnlinkPath, Keyed
    <3>4. CASE ReadFd(p)
      BY <3>4 DEF ReadFd, Keyed
    <3>5. CASE ReadStdin(p)
      BY <3>5 DEF ReadStdin, Keyed
    <3>6. QED BY <1>2, <3>1, <3>2, <3>3, <3>4, <3>5
  <2>2. pc[p] \in Keyed
    BY <1>2 DEF Poll, CloseSock, UnlinkPath, ReadFd, ReadStdin, Keyed
  <2>3. UNCHANGED keyVars
    BY <1>2 DEF Poll, CloseSock, UnlinkPath, ReadFd, ReadStdin
  <2>4. QED BY <2>1, <2>2, <2>3, KeptKeys
<1>3. ASSUME NEW p \in Peer, Kill(p) PROVE KeyInv'
  BY <1>3, EndKeepsKeys DEF Kill
<1>4. CASE UNCHANGED vars
  BY <1>4 DEF vars, keyVars, KeyInv, KeyTypeOK
<1>5. QED BY <1>1, <1>2, <1>3, <1>4, KeyFileStep DEF Next

\* However the starts of any number of peers overlap, and whoever is killed while
\* it writes the file: those past the key file have the one key that is in it.
THEOREM KeysAgreeCorrect == Spec => []KeysAgree
<1>1. KeyInv => KeysAgree
  BY DEF KeyInv, KeysAgree, Keyed
<1>2. QED BY <1>1, KeyInit, KeyStep, PTL DEF Spec
-----------------------------------------------------------------------------
\* The path of the socket

\* At the start no peer listens.
LEMMA RaceInit == Init => RaceInv
<1> SUFFICES ASSUME Init PROVE RaceInv
  OBVIOUS
<1>1. /\ pc = [p \in Peer |-> "open_key"] /\ listening = [p \in Peer |-> FALSE]
      /\ raced = [p \in Peer |-> {}] /\ bound = [p \in Peer |-> FALSE]
  BY DEF Init
<1>2. pc \in [Peer -> Starting \cup Keyed \cup {"ended"}]
  BY <1>1 DEF Starting
<1>3. QED BY <1>1, <1>2 DEF RaceInv

\* A step of a peer that gets neither to bind nor to unlink, nor back to its
\* start, and changes neither the path nor who listens.
LEMMA KeptPath ==
  ASSUME RaceInv, NEW p \in Peer, NEW l \in (Starting \cup Keyed \cup {"ended"}),
         l \notin {"bind", "unlink"}, l \in Starting => pc[p] \in Starting,
         l \notin {"unlink_path", "remove_path", "ended"} => IsOpen(p),
         Goto(p, l), UNCHANGED <<listening, raced, bound>>, UNCHANGED path \/ path' = None
  PROVE  RaceInv'
<1>1. pc' \in [Peer -> Starting \cup Keyed \cup {"ended"}]
  BY DEF RaceInv, Goto
<1>2. \A q \in Peer : pc'[q] = IF q = p THEN l ELSE pc[q]
  BY DEF RaceInv, Goto
<1>3. \A q \in Peer : ~ IsOpen(q) => ~ IsOpen(q)'
  BY <1>2 DEF IsOpen
<1>4. \A q \in Peer : path # q => path' # q
  BY NobodyAssumption
<1>5. QED BY <1>1, <1>2, <1>3, <1>4 DEF RaceInv

\* Who finds nobody at the path was here before whoever does not listen yet, and
\* a peer that listens and was not found has lost its path or is closed.
LEMMA ConnectPath ==
  ASSUME RaceInv, NEW p \in Peer, Connect(p)
  PROVE  RaceInv'
<1>1. CASE Goto(p, "poll") /\ UNCHANGED raced
  <2>1. pc[p] = "connect" /\ UNCHANGED <<path, listening, bound>>
    BY DEF Connect
  <2>2. IsOpen(p) /\ "poll" \in Keyed /\ "poll" \notin Starting
    BY <2>1 DEF IsOpen, Keyed, Starting
  <2>3. QED BY <1>1, <2>1, <2>2, KeptPath
<1>2. CASE /\ ~ \E q \in Peer : Listener(q)
           /\ raced' = [q \in Peer |-> IF listening[q] THEN raced[q] ELSE raced[q] \cup {p}]
           /\ Goto(p, "bind")
  <2>1. pc[p] = "connect" /\ UNCHANGED <<path, listening, bound>>
    BY DEF Connect
  <2>2. pc' \in [Peer -> Starting \cup Keyed \cup {"ended"}]
    BY <1>2 DEF RaceInv, Goto, Keyed
  <2>3. \A q \in Peer : pc'[q] = IF q = p THEN "bind" ELSE pc[q]
    BY <1>2 DEF RaceInv, Goto
  <2>4. \A q \in Peer : IsOpen(q)' = IsOpen(q)
    BY <2>1, <2>3 DEF IsOpen
  <2>5. \A q \in Peer : p \in raced'[q] \/ (listening[q] /\ (path # q \/ ~ IsOpen(q)))
    BY <1>2 DEF Listener
  <2>6. raced' \in [Peer -> SUBSET Peer] /\ \A q \in Peer : raced[q] \subseteq raced'[q]
    BY <1>2 DEF RaceInv
  <2>7. \A q \in Peer : pc'[q] \in Starting => ~ listening'[q]
    BY <2>1, <2>3 DEF RaceInv, Starting
  <2>8. \A q, r \in Peer : pc'[r] \in {"bind", "unlink"} =>
          r \in raced'[q] \/ (listening'[q] /\ (path' # q \/ ~ IsOpen(q)'))
    BY <2>1, <2>3, <2>4, <2>5, <2>6 DEF RaceInv
  <2>9. QED BY <2>1, <2>2, <2>6, <2>7, <2>8 DEF RaceInv
<1>3. QED BY <1>1, <1>2 DEF Connect

\* Who binds to the path does not listen yet, so that nobody who did gets it back.
LEMMA BindPath ==
  ASSUME RaceInv, NEW p \in Peer, pc[p] \in Starting, IsOpen(p), NEW l \in Starting,
         pc[p] = "bind" \/ l \notin {"bind", "unlink"},
         Goto(p, l), UNCHANGED <<listening, raced>>, UNCHANGED <<path, bound>> \/ BindTo(p)
  PROVE  RaceInv'
<1>1. pc' \in [Peer -> Starting \cup Keyed \cup {"ended"}]
  BY DEF RaceInv, Goto
<1>2. \A q \in Peer : pc'[q] = IF q = p THEN l ELSE pc[q]
  BY DEF RaceInv, Goto
<1>3. \A q \in Peer : ~ IsOpen(q) => ~ IsOpen(q)'
  BY <1>2 DEF IsOpen
<1>4. ~ listening[p] /\ ~ listening'[p]
  BY DEF RaceInv
<1>5. \A q \in Peer : path # q /\ q # p => path' # q
  BY DEF BindTo
<1>6. bound' \in [Peer -> BOOLEAN]
  BY DEF RaceInv, BindTo
<1>7. QED BY <1>1, <1>2, <1>3, <1>4, <1>5, <1>6 DEF RaceInv

\* listen() is for a peer whose bind() succeeded, and takes no path.
LEMMA ListenPath ==
  ASSUME RaceInv, NEW p \in Peer, Listen(p)
  PROVE  RaceInv'
<1>1. /\ pc[p] = "listen" /\ Goto(p, "accept") /\ UNCHANGED <<path, raced, bound>>
      /\ listening' = [listening EXCEPT ![p] = bound[p]]
  BY DEF Listen
<1>2. /\ pc' \in [Peer -> Starting \cup Keyed \cup {"ended"}]
      /\ listening' \in [Peer -> BOOLEAN]
  BY <1>1 DEF RaceInv, Goto, Keyed
<1>3. \A q \in Peer : /\ pc'[q] = IF q = p THEN "accept" ELSE pc[q]
                      /\ q # p => listening'[q] = listening[q]
  BY <1>1 DEF RaceInv, Goto
<1>4. ~ listening[p]
  BY <1>1 DEF RaceInv, Starting
<1>5. \A q \in Peer : IsOpen(q)' = IsOpen(q)
  BY <1>1, <1>3 DEF IsOpen
<1>6. \A q, r \in Peer : pc'[r] \in {"bind", "unlink"} =>
        r \in raced'[q] \/ (listening'[q] /\ (path' # q \/ ~ IsOpen(q)'))
  BY <1>1, <1>3, <1>4, <1>5 DEF RaceInv
<1>7. \A q \in Peer : pc'[q] \in Starting => ~ listening'[q]
  BY <1>3 DEF RaceInv, Starting
<1>8. QED BY <1>1, <1>2, <1>6, <1>7 DEF RaceInv

\* Every step keeps the invariant of the path.
LEMMA RaceStep == RaceInv /\ [Next]_vars => RaceInv'
<1> SUFFICES ASSUME RaceInv, [Next]_vars PROVE RaceInv'
  OBVIOUS
<1>1. ASSUME NEW p \in Peer, OpenKey(p) \/ ReadKey(p) \/ CreateKey(p) \/ WriteKey(p)
      PROVE  RaceInv'
  <2>1. PICK l \in Starting \cup {"ended"} :
          Goto(p, l) /\ l \notin {"bind", "unlink"}
    BY <1>1 DEF OpenKey, ReadKey, CreateKey, WriteKey, Starting
  <2>2. /\ pc[p] \in Starting /\ IsOpen(p)
        /\ UNCHANGED <<path, listening, raced, bound>>
    BY <1>1 DEF OpenKey, ReadKey, CreateKey, WriteKey, Starting, IsOpen, sockVars
  <2>3. l \notin {"unlink_path", "remove_path"}
    BY <2>1 DEF Starting
  <2>4. QED BY <2>1, <2>2, <2>3, KeptPath
<1>2. ASSUME NEW p \in Peer, Bind(p) \/ Rebind(p) PROVE RaceInv'
  <2>1. PICK l \in Starting : Goto(p, l) /\ (pc[p] = "bind" \/ l \notin {"bind", "unlink"})
    BY <1>2 DEF Bind, Rebind, Starting
  <2>2. pc[p] \in Starting /\ IsOpen(p)
    BY <1>2 DEF Bind, Rebind, Starting, IsOpen
  <2>3. UNCHANGED <<listening, raced>> /\ (UNCHANGED <<path, bound>> \/ BindTo(p))
    BY <1>2 DEF Bind, Rebind
  <2>4. QED BY <2>1, <2>2, <2>3, BindPath
<1>3. ASSUME NEW p \in Peer, Unlink(p) PROVE RaceInv'
  <2>1. /\ pc[p] \in Starting /\ IsOpen(p) /\ Goto(p, "rebind") /\ "rebind" \in Starting
        /\ path' = None /\ UNCHANGED <<listening, raced, bound>>
    BY <1>3 DEF Unlink, Starting, IsOpen
  <2>2. QED BY <2>1, KeptPath
<1>4. ASSUME NEW p \in Peer,
             Accept(p) \/ Poll(p) \/ CloseSock(p) \/ UnlinkPath(p) \/ ReadFd(p) \/ ReadStdin(p)
      PROVE  RaceInv'
  <2>1. PICK l \in Keyed \cup {"ended"} :
          Goto(p, l) /\ l \notin Starting /\ l # "bind" /\ l # "unlink"
    <3>1. CASE Accept(p)
      BY <3>1 DEF Accept, Keyed, Starting
    <3>2. CASE Poll(p)
      BY <3>2 DEF Poll, Keyed, Starting
    <3>3. CASE CloseSock(p)
      BY <3>3 DEF CloseSock, Keyed, Starting
    <3>4. CASE UnlinkPath(p)
      BY <3>4 DEF UnlinkPath, Keyed, Starting
    <3>5. CASE ReadFd(p)
      BY <3>5 DEF ReadFd, Keyed, Starting
    <3>6. CASE ReadStdin(p)
      BY <3>6 DEF ReadStdin, Keyed, Starting
    <3>7. QED BY <1>4, <3>1, <3>2, <3>3, <3>4, <3>5, <3>6
  <2>2. l \notin {"unlink_path", "remove_path", "ended"} => IsOpen(p)
    <3>1. CASE UnlinkPath(p)
      <4>1. pc' = [pc EXCEPT ![p] = IF pc[p] = "unlink_path" THEN "remove_path" ELSE "ended"]
        BY <3>1 DEF UnlinkPath, Goto
      <4>2. l \in {"remove_path", "ended"}
        BY <2>1, <4>1 DEF RaceInv, Goto
      <4>3. QED BY <4>2
    <3>2. CASE ~ UnlinkPath(p)
      BY <1>4, <3>2 DEF Accept, Poll, CloseSock, ReadFd, ReadStdin, IsOpen
    <3>3. QED BY <3>1, <3>2
  <2>3. UNCHANGED <<listening, raced, bound>> /\ (UNCHANGED path \/ path' = None)
    BY <1>4 DEF Accept, Poll, CloseSock, UnlinkPath, ReadFd, ReadStdin, sockVars
  <2>4. QED BY <2>1, <2>2, <2>3, KeptPath
<1>5. ASSUME NEW p \in Peer, Kill(p) PROVE RaceInv'
  <2>1. Goto(p, "ended") /\ UNCHANGED <<path, listening, raced, bound>>
    BY <1>5 DEF Kill, sockVars
  <2>2. "ended" \notin Starting
    BY DEF Starting
  <2>3. QED BY <2>1, <2>2, KeptPath
<1>6. CASE UNCHANGED vars
  BY <1>6 DEF vars, sockVars, RaceInv, IsOpen
<1>7. QED BY <1>1, <1>2, <1>3, <1>4, <1>5, <1>6, ConnectPath, ListenPath DEF Next

\* Who unlinks the path of a listener that is open looked for one before it was
\* one: among any number of peers, whatever others bound and unlinked meanwhile.
THEOREM PathIsTakenInRaceCorrect == Spec => PathIsTakenInRace
<1>1. RaceInv /\ [Next]_vars =>
        [\A p, q \in Peer :
           path = p /\ listening[p] /\ IsOpen(p) /\ Unlink(q) => q \in raced[p]]_vars
  <2> SUFFICES ASSUME RaceInv, NEW p \in Peer, NEW q \in Peer,
                      path = p, listening[p], IsOpen(p), Unlink(q)
               PROVE  q \in raced[p]
    OBVIOUS
  <2>1. pc[q] = "unlink"
    BY DEF Unlink
  <2>2. QED BY <2>1 DEF RaceInv
<1>2. QED BY <1>1, RaceInit, RaceStep, PTL DEF Spec, PathIsTakenInRace
-----------------------------------------------------------------------------
\* The order of what is printed

\* At the start nothing was sent.
LEMMA OrderInit == Init => OrderInv
<1> SUFFICES ASSUME Init PROVE OrderInv
  OBVIOUS
<1>1. /\ pc = [p \in Peer |-> "open_key"] /\ partner = [p \in Peer |-> None]
      /\ backlog = [p \in Peer |-> <<>>] /\ out = [p \in Peer |-> <<>>]
      /\ revents = [p \in Peer |-> {}] /\ sent = [p \in Peer |-> <<>>]
      /\ printed = [p \in Peer |-> <<>>]
  BY DEF Init
<1>2. <<>> \in Seq(Unit) /\ <<>> \in Seq(Text) /\ <<>> \in Seq(Peer)
  OBVIOUS
<1>3. ChatTypeOK
  BY <1>1, <1>2 DEF ChatTypeOK, Starting
<1>4. QED BY <1>1, <1>3, NothingInOrder DEF OrderInv

\* A step outside the loop, or to its next turn: it leaves the streams alone, and
\* gives p its partner at most.
LEMMA KeptOrder ==
  ASSUME OrderInv, NEW p \in Peer, NEW l \in (Starting \cup Keyed \cup {"ended"}),
         Goto(p, l), l # "read_fd", UNCHANGED chatVars, backlog' \in [Peer -> Seq(Peer)],
         \/ UNCHANGED partner /\ (l \in Starting \cup {"accept"} => pc[p] \in Starting)
         \/ \E q \in Peer : /\ pc[p] \in {"connect", "accept"} /\ l = "poll"
                            /\ partner' = [partner EXCEPT ![p] = q]
  PROVE  OrderInv'
<1>0. ChatTypeOK
  BY DEF OrderInv
<1>1. \A r \in Peer : pc'[r] = IF r = p THEN l ELSE pc[r]
  BY <1>0 DEF ChatTypeOK, Goto
<1>2. /\ \A r \in Peer : r # p => partner'[r] = partner[r]
      /\ partner'[p] # partner[p] => partner[p] = None /\ l = "poll"
  BY <1>0 DEF ChatTypeOK, OrderInv, Starting
<1>3. \A r \in Peer : Mutual(r) => Mutual(r)' /\ partner'[r] = partner[r]
  BY <1>2, NobodyAssumption DEF Mutual
<1>4. ChatTypeOK'
  <2>1. pc' \in [Peer -> Starting \cup Keyed \cup {"ended"}]
    BY <1>0 DEF ChatTypeOK, Goto
  <2>2. partner' \in [Peer -> Peer \cup {None}]
    BY <1>0 DEF ChatTypeOK
  <2>3. QED BY <1>0, <2>1, <2>2 DEF ChatTypeOK, chatVars
<1>5. UNCHANGED <<out, revents, sent, printed>>
  BY DEF chatVars
<1>6. \A r \in Peer : pc'[r] \in Starting \cup {"accept"} => partner'[r] = None
  BY <1>1, <1>2 DEF OrderInv, Starting
<1>7. \A r \in Peer : "POLLIN" \in revents'[r] \/ printed'[r] # <<>> => Mutual(r)'
  BY <1>3, <1>5 DEF OrderInv
<1>8. \A r \in Peer : pc'[r] = "read_fd" /\ "POLLIN" \in revents'[r] =>
                       out'[partner'[r]] # <<>>
  BY <1>1, <1>2, <1>5 DEF OrderInv
<1>9. \A r, f \in Peer :
        printed'[r] = <<>> \/ (Mutual(r)' /\ partner'[r] = f)
          => InOrder(Through(printed'[r], out'[f]), sent'[f])
  <2> SUFFICES ASSUME NEW r \in Peer, NEW f \in Peer,
                      printed'[r] = <<>> \/ (Mutual(r)' /\ partner'[r] = f)
               PROVE  InOrder(Through(printed[r], out[f]), sent[f])
    BY <1>5
  <2>1. CASE printed[r] = <<>>
    BY <2>1 DEF OrderInv
  <2>2. CASE printed[r] # <<>>
    <3>1. Mutual(r) /\ partner[r] = f
      BY <1>3, <1>5, <2>2 DEF OrderInv
    <3>2. QED BY <3>1 DEF OrderInv
  <2>3. QED BY <2>1, <2>2
<1>10. QED BY <1>4, <1>6, <1>7, <1>8, <1>9 DEF OrderInv

\* poll() reports data only from one that has p for a partner too.
LEMMA PollOrder == ASSUME OrderInv, NEW p \in Peer, Poll(p) PROVE OrderInv'
<1>0. ChatTypeOK
  BY DEF OrderInv
<1>1. /\ pc[p] = "poll" /\ revents' = [revents EXCEPT ![p] = Events(p)]
      /\ UNCHANGED <<partner, backlog, out, sent, printed>>
  BY DEF Poll, sockVars
<1>2. PICK l \in {"close", "read_fd"} : pc' = [pc EXCEPT ![p] = l]
  BY DEF Poll, Goto
<1>3. Events(p) \in SUBSET {"POLLIN", "POLLHUP"}
  BY DEF Events
<1>4. ChatTypeOK'
  BY <1>0, <1>1, <1>2, <1>3 DEF ChatTypeOK, Keyed
<1>5. "POLLIN" \in Events(p) => Mutual(p) /\ out[partner[p]] # <<>>
  BY <1>0 DEF ChatTypeOK, Events, Mutual
<1>6. \A r \in Peer : /\ pc'[r] = IF r = p THEN l ELSE pc[r]
                      /\ revents'[r] = IF r = p THEN Events(p) ELSE revents[r]
                      /\ Mutual(r)' = Mutual(r)
  BY <1>0, <1>1, <1>2 DEF ChatTypeOK, Mutual
<1>7. l \notin Starting \cup {"accept"}
  BY DEF Starting
<1>8. QED BY <1>1, <1>4, <1>5, <1>6, <1>7 DEF OrderInv

\* What is read is taken out of the stream of the partner, which nobody else reads;
\* what cannot be decrypted is garbage.
LEMMA ReadOrder == ASSUME OrderInv, NEW p \in Peer, ReadFd(p) PROVE OrderInv'
<1> DEFINE from == partner[p]
<1>0. /\ ChatTypeOK /\ pc[p] = "read_fd"
      /\ UNCHANGED <<partner, backlog, revents, sent>> /\ \A r \in Peer : Mutual(r)' = Mutual(r)
  BY DEF OrderInv, ReadFd, sockVars, Mutual
<1>1. PICK l \in {"read_stdin", "ended"} : pc' = [pc EXCEPT ![p] = l]
  BY DEF ReadFd, Goto
<1>2. /\ \A r \in Peer : pc'[r] = IF r = p THEN l ELSE pc[r]
      /\ pc' \in [Peer -> Starting \cup Keyed \cup {"ended"}]
      /\ l \notin Starting \cup {"accept", "read_fd"}
  BY <1>0, <1>1 DEF ChatTypeOK, Keyed, Starting
<1>3. CASE "POLLIN" \notin revents[p]
  <2>1. UNCHANGED <<out, printed>>
    BY <1>3 DEF ReadFd
  <2>2. ChatTypeOK'
    BY <1>0, <1>2, <2>1 DEF ChatTypeOK
  <2>3. QED BY <1>0, <1>2, <2>1, <2>2 DEF OrderInv
<1>4. CASE "POLLIN" \in revents[p]
  <2>1. /\ Mutual(p) /\ from \in Peer /\ out[from] # <<>> /\ out[from] \in Seq(Unit)
        /\ \A r \in Peer : Mutual(r) /\ partner[r] = from => r = p
    BY <1>0, <1>4 DEF OrderInv, Mutual, ChatTypeOK
  <2>2. out' = [out EXCEPT ![from] = Left(@)]
    BY <1>4 DEF ReadFd
  <2>3. PICK text \in Decoded(Taken(out[from])) \cup {<<>>, <<Garbage>>} :
          printed' = [printed EXCEPT ![p] = @ \o text]
    <3>1. CASE UNCHANGED printed
      <4>1. printed[p] \o <<>> = printed[p]
        BY <1>0, ConcatEmptySeq DEF ChatTypeOK
      <4>2. printed' = [printed EXCEPT ![p] = printed[p] \o <<>>]
        BY <1>0, <3>1, <4>1 DEF ChatTypeOK
      <4>3. QED BY <4>2
    <3>2. ASSUME NEW made \in Decoded(Taken(out[from])),
                 printed' = [printed EXCEPT ![p] = @ \o
                               IF key[p] = key[from] THEN made ELSE <<Garbage>>]
          PROVE  \E text \in Decoded(Taken(out[from])) \cup {<<>>, <<Garbage>>} :
                   printed' = [printed EXCEPT ![p] = @ \o text]
      BY <3>2
    <3>3. QED BY <1>4, <3>1, <3>2 DEF ReadFd
  <2>4. /\ text \in Seq(Text) /\ printed[p] \o text \in Seq(Text) /\ Left(out[from]) \in Seq(Unit)
    <3>1. <<>> \in Seq(Text) /\ <<Garbage>> \in Seq(Text)
      BY DEF Text
    <3>2. text \in Seq(Text)
      BY <2>1, <3>1, StreamIsRead
    <3>3. QED BY <1>0, <2>1, <3>2, StreamIsRead, ConcatProperties DEF ChatTypeOK
  <2>5. ChatTypeOK'
    BY <1>0, <1>2, <2>1, <2>2, <2>3, <2>4 DEF ChatTypeOK
  <2>6. /\ \A r \in Peer : r # p => printed'[r] = printed[r]
        /\ \A f \in Peer : f # from => out'[f] = out[f]
        /\ printed'[p] = printed[p] \o text /\ out'[from] = Left(out[from])
    BY <1>0, <2>1, <2>2, <2>3 DEF ChatTypeOK
  <2>7. \A r \in Peer : "POLLIN" \in revents[r] \/ printed'[r] # <<>> => Mutual(r)
    BY <2>1, <2>6 DEF OrderInv
  <2>8. \A r \in Peer : pc'[r] = "read_fd" /\ "POLLIN" \in revents[r] => out'[partner[r]] # <<>>
    <3> SUFFICES ASSUME NEW r \in Peer, pc'[r] = "read_fd", "POLLIN" \in revents[r]
                 PROVE  out'[partner[r]] # <<>>
      OBVIOUS
    <3>1. r # p /\ Mutual(r) /\ out[partner[r]] # <<>>
      BY <1>2 DEF OrderInv
    <3>2. partner[r] # from /\ partner[r] \in Peer
      BY <2>1, <3>1 DEF Mutual
    <3>3. QED BY <2>6, <3>1, <3>2
  <2>9. \A r, f \in Peer :
          printed'[r] = <<>> \/ (Mutual(r) /\ partner[r] = f)
            => InOrder(Through(printed'[r], out'[f]), sent[f])
    <3> SUFFICES ASSUME NEW r \in Peer, NEW f \in Peer,
                        printed'[r] = <<>> \/ (Mutual(r) /\ partner[r] = f)
                 PROVE  InOrder(Through(printed'[r], out'[f]), sent[f])
      OBVIOUS
    <3>1. printed[r] \in Seq(Text) /\ sent[f] \in Seq(Text)
      BY <1>0 DEF ChatTypeOK
    <3>2. CASE r = p /\ f = from
      <4>1. InOrder(Through(printed[p], out[from]), sent[from])
        BY <2>1 DEF OrderInv
      <4>2. InOrder(Through(printed[p] \o text, Left(out[from])), sent[from])
        BY <2>1, <3>1, <3>2, <4>1, ReadInOrder
      <4>3. QED BY <2>6, <3>2, <4>2
    <3>3. CASE r = p /\ f # from
      <4>1. printed'[p] = <<>>
        BY <3>3
      <4>2. printed[p] = <<>>
        <5>1. printed[p] \o text = <<>> /\ printed[p] \in Seq(Text) /\ text \in Seq(Text)
          BY <2>4, <2>6, <3>1, <3>3, <4>1
        <5>2. Len(printed[p] \o text) = Len(printed[p]) + Len(text)
          BY <5>1, ConcatProperties
        <5>3. Len(printed[p]) = 0
          BY <5>1, <5>2
        <5>4. QED BY <5>1, <5>3, EmptySeq
      <4>3. printed'[r] = printed[r] /\ out'[f] = out[f]
        BY <2>6, <3>3, <4>1, <4>2
      <4>4. QED BY <3>3, <4>2, <4>3 DEF OrderInv
    <3>4. CASE r # p /\ f = from
      <4>1. printed'[r] = printed[r] /\ printed[r] = <<>>
        BY <2>1, <2>6, <3>4
      <4>2. InOrder(Through(printed[r], out[from]), sent[from])
        BY <2>1, <4>1 DEF OrderInv
      <4>3. InOrder(Through(printed[r] \o <<>>, Left(out[from])), sent[from])
        BY <2>1, <3>1, <3>4, <4>2, ReadInOrder
      <4>4. printed[r] \o <<>> = printed[r]
        BY <3>1, ConcatEmptySeq
      <4>5. QED BY <2>6, <3>4, <4>1, <4>3, <4>4
    <3>5. CASE r # p /\ f # from
      BY <2>6, <3>5 DEF OrderInv
    <3>6. QED BY <3>2, <3>3, <3>4, <3>5
  <2>10. QED BY <1>0, <1>2, <2>5, <2>7, <2>8, <2>9 DEF OrderInv
<1>5. QED BY <1>3, <1>4

\* What is written comes behind what is on the way, and so does what nobody gets.
LEMMA WriteOrder == ASSUME OrderInv, NEW p \in Peer, ReadStdin(p) PROVE OrderInv'
<1>0. /\ ChatTypeOK /\ pc[p] = "read_stdin"
      /\ UNCHANGED <<partner, backlog, revents, printed>>
      /\ \A r \in Peer : Mutual(r)' = Mutual(r)
  BY DEF OrderInv, ReadStdin, sockVars, Mutual
<1>1. PICK l \in {"poll", "ended"} : pc' = [pc EXCEPT ![p] = l]
  BY DEF ReadStdin, Goto
<1>2. /\ \A r \in Peer : pc'[r] = IF r = p THEN l ELSE pc[r]
      /\ pc' \in [Peer -> Starting \cup Keyed \cup {"ended"}]
      /\ l \notin Starting \cup {"accept", "read_fd"}
  BY <1>0, <1>1 DEF ChatTypeOK, Keyed, Starting
<1>3. CASE UNCHANGED <<out, sent>>
  <2>1. ChatTypeOK'
    BY <1>0, <1>2, <1>3 DEF ChatTypeOK
  <2>2. QED BY <1>0, <1>2, <1>3, <2>1 DEF OrderInv
<1>4. ASSUME NEW m \in Msg, sent' = [sent EXCEPT ![p] = Append(@, m)],
             UNCHANGED out \/ out' = [out EXCEPT ![p] = @ \o Frame(m)]
      PROVE  OrderInv'
  <2>1. m \in Text /\ out[p] \in Seq(Unit) /\ sent[p] \in Seq(Text)
    BY <1>0 DEF ChatTypeOK, Text
  <2>2. /\ out[p] \o Frame(m) \in Seq(Unit) /\ out[p] \o Frame(m) # <<>>
        /\ Append(sent[p], m) \in Seq(Text)
    <3>1. Frame(m) \in Seq(Unit) /\ Len(Frame(m)) \in Nat \ {0}
      BY <2>1, FrameIsRead, FrameAssumption
    <3>2. out[p] \o Frame(m) \in Seq(Unit)
          /\ Len(out[p] \o Frame(m)) = Len(out[p]) + Len(Frame(m))
      BY <2>1, <3>1, ConcatProperties
    <3>3. Len(out[p] \o Frame(m)) # 0
      BY <2>1, <3>1, <3>2
    <3>4. QED BY <2>1, <3>2, <3>3, AppendProperties
  <2>3. ChatTypeOK'
    BY <1>0, <1>2, <1>4, <2>2 DEF ChatTypeOK
  <2>4. /\ \A f \in Peer : f # p => out'[f] = out[f] /\ sent'[f] = sent[f]
        /\ sent'[p] = Append(sent[p], m)
        /\ out'[p] = out[p] \/ out'[p] = out[p] \o Frame(m)
        /\ \A f \in Peer : out[f] # <<>> => out'[f] # <<>>
    BY <1>0, <1>4, <2>2 DEF ChatTypeOK
  <2>5. \A r \in Peer : pc'[r] = "read_fd" /\ "POLLIN" \in revents[r] => out'[partner[r]] # <<>>
    BY <1>2, <2>4 DEF OrderInv, Mutual
  <2>6. \A r, f \in Peer :
          printed[r] = <<>> \/ (Mutual(r) /\ partner[r] = f)
            => InOrder(Through(printed[r], out'[f]), sent'[f])
    <3> SUFFICES ASSUME NEW r \in Peer, NEW f \in Peer,
                        printed[r] = <<>> \/ (Mutual(r) /\ partner[r] = f)
                 PROVE  InOrder(Through(printed[r], out'[f]), sent'[f])
      OBVIOUS
    <3>1. InOrder(Through(printed[r], out[f]), sent[f]) /\ printed[r] \in Seq(Text)
      BY <1>0 DEF OrderInv, ChatTypeOK
    <3>2. CASE f # p
      BY <2>4, <3>1, <3>2
    <3>3. CASE f = p /\ out'[p] = out[p]
      <4>1. Through(printed[r], out[p]) \in Seq(Text)
        BY <2>1, <3>1, ThroughOf
      <4>2. QED BY <2>1, <2>4, <3>1, <3>3, <4>1, SentInOrder
    <3>4. CASE f = p /\ out'[p] = out[p] \o Frame(m)
      BY <2>1, <2>4, <3>1, <3>4, WriteInOrder
    <3>5. QED BY <2>4, <3>2, <3>3, <3>4
  <2>7. QED BY <1>0, <1>2, <2>3, <2>5, <2>6 DEF OrderInv
<1>5. QED BY <1>3, <1>4 DEF ReadStdin

\* Every step of any peer keeps the order.
LEMMA OrderStep == OrderInv /\ [Next]_vars => OrderInv'
<1> SUFFICES ASSUME OrderInv, [Next]_vars PROVE OrderInv'
  OBVIOUS
<1>0. ChatTypeOK /\ backlog \in [Peer -> Seq(Peer)]
  BY DEF OrderInv, ChatTypeOK
<1>1. ASSUME NEW p \in Peer,
             OpenKey(p) \/ ReadKey(p) \/ CreateKey(p) \/ WriteKey(p) \/ Bind(p) \/ Unlink(p)
               \/ Rebind(p) \/ Listen(p)
      PROVE  OrderInv'
  <2>1. PICK l \in Starting \cup {"accept", "ended"} : Goto(p, l)
    BY <1>1 DEF OpenKey, ReadKey, CreateKey, WriteKey, Bind, Unlink, Rebind, Listen, Starting
  <2>2. pc[p] \in Starting /\ UNCHANGED <<partner, backlog, chatVars>>
    BY <1>1 DEF OpenKey, ReadKey, CreateKey, WriteKey, Bind, Unlink, Rebind, Listen, Starting,
                sockVars
  <2>3. l \in Starting \cup Keyed \cup {"ended"} /\ l # "read_fd"
    BY <2>1 DEF Starting, Keyed
  <2>4. QED BY <1>0, <2>1, <2>2, <2>3, KeptOrder
<1>2. ASSUME NEW p \in Peer, Connect(p) PROVE OrderInv'
  <2>1. pc[p] = "connect" /\ UNCHANGED chatVars
    BY <1>2 DEF Connect
  <2>2. ASSUME NEW q \in Peer, partner' = [partner EXCEPT ![p] = q],
               backlog' = [backlog EXCEPT ![q] = Append(@, p)], Goto(p, "poll")
        PROVE  OrderInv'
    <3>1. backlog' \in [Peer -> Seq(Peer)]
      BY <1>0, <2>2
    <3>2. "poll" \in Keyed
      BY DEF Keyed
    <3>3. QED BY <2>1, <2>2, <3>1, <3>2, KeptOrder
  <2>3. CASE Goto(p, "bind") /\ UNCHANGED <<partner, backlog>>
    <3>1. "bind" \in Starting /\ pc[p] \in Starting
      BY <2>1 DEF Starting
    <3>2. QED BY <1>0, <2>1, <2>3, <3>1, KeptOrder
  <2>4. QED BY <1>2, <2>2, <2>3 DEF Connect
<1>3. ASSUME NEW p \in Peer, Accept(p) PROVE OrderInv'
  <2>1. pc[p] = "accept" /\ UNCHANGED chatVars /\ Goto(p, "poll") /\ "poll" \in Keyed
        /\ "poll" \notin Starting
    BY <1>3 DEF Accept, Keyed, Starting
  <2>2. CASE /\ backlog[p] # <<>> /\ partner' = [partner EXCEPT ![p] = Head(backlog[p])]
             /\ backlog' = [backlog EXCEPT ![p] = Tail(@)]
    <3>1. Head(backlog[p]) \in Peer /\ Tail(backlog[p]) \in Seq(Peer)
      BY <1>0, <2>2, HeadTailProperties
    <3>2. backlog' \in [Peer -> Seq(Peer)]
      BY <1>0, <2>2, <3>1
    <3>3. QED BY <2>1, <2>2, <3>1, <3>2, KeptOrder
  <2>3. CASE UNCHANGED <<partner, backlog>>
    BY <1>0, <2>1, <2>3, KeptOrder
  <2>4. QED BY <1>3, <2>2, <2>3 DEF Accept
<1>4. ASSUME NEW p \in Peer, CloseSock(p) \/ UnlinkPath(p) \/ Kill(p) PROVE OrderInv'
  <2>1. PICK l \in {"unlink_path", "remove_path", "ended"} : Goto(p, l)
    BY <1>4 DEF CloseSock, UnlinkPath, Kill
  <2>2. UNCHANGED <<partner, backlog, chatVars>>
    BY <1>4 DEF CloseSock, UnlinkPath, Kill, sockVars
  <2>3. l \in Keyed \cup {"ended"} /\ l \notin Starting \cup {"accept", "read_fd"}
    BY DEF Keyed, Starting
  <2>4. QED BY <1>0, <2>1, <2>2, <2>3, KeptOrder
<1>5. CASE UNCHANGED vars
  BY <1>5 DEF vars, sockVars, chatVars, OrderInv, ChatTypeOK, Mutual
<1>6. QED BY <1>1, <1>2, <1>3, <1>4, <1>5, PollOrder, ReadOrder, WriteOrder DEF Next

\* Among any number of peers, whoever connects to whom, waits or leaves: what a peer
\* prints was written by the one that has it for a partner, once and in order.
THEOREM PrintedInOrderCorrect == Spec => []PrintedInOrder
<1>1. OrderInv => PrintedInOrder
  <2> SUFFICES ASSUME OrderInv, NEW p \in Peer, Legible(printed[p]) # {}
               PROVE  partner[partner[p]] = p /\ InOrder(printed[p], sent[partner[p]])
    BY DEF PrintedInOrder
  <2>1. printed[p] # <<>>
    BY DEF Legible
  <2>2. Mutual(p) /\ partner[p] \in Peer
    BY <2>1 DEF OrderInv, Mutual
  <2>3. /\ printed[p] \in Seq(Text) /\ out[partner[p]] \in Seq(Unit)
        /\ sent[partner[p]] \in Seq(Text)
        /\ InOrder(Through(printed[p], out[partner[p]]), sent[partner[p]])
    BY <2>2 DEF OrderInv, ChatTypeOK
  <2>4. QED BY <2>2, <2>3, PrintedOfThrough DEF Mutual
<1>2. QED BY <1>1, OrderInit, OrderStep, PTL DEF Spec
=============================================================================
