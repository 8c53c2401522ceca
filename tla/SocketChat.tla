----------------------------- MODULE SocketChat -----------------------------
(***************************************************************************)
(* The chat over a Unix stream socket (hw1_task3, its default protocol).   *)
(* Peers are all started with one socket path and one key file.  Each      *)
(* reads the key file or makes it, connects to whoever listens at the path *)
(* or else listens there itself, and then loops as the pipe chat does, but *)
(* looks for the hang-up before it reads.  The steps of create_sock and    *)
(* crypto_options_create are one system call each.                         *)
(***************************************************************************)
EXTENDS ChatFrames, FiniteSets

CONSTANTS Peer, None,
          CryptoKey,        \* what rand() may make: peers of one second make one key
          MAX_TYPED         \* bound on the lines a user types

\* Nobody is no peer and no key, and the file of a key is not one that is not whole.
ASSUME NobodyAssumption == /\ None \notin Peer \cup CryptoKey
                           /\ {"absent", "empty"} \cap CryptoKey = {}

VARIABLES pc,               \* where a peer's program is
          key_file,         \* "absent", "empty" or the key in it
          key_readable,     \* what open() without a mode made of its permissions
          key,              \* the key a peer has
          path,             \* whose socket is bound to the path
          bound, listening, \* is a peer's socket, is it listening
          backlog,          \* who connected to it and was not accepted
          partner,          \* the other end of a peer's fd, None for no fd
          out,              \* the units a peer wrote that were not read
          revents,          \* the events of its fd
          line_ready,       \* the event of stdin
          sent, printed,    \* history: messages it wrote, what it printed
          raced             \* history: who looked for a listener before a peer was one

keyVars == <<key_file, key_readable, key>>
sockVars == <<path, bound, listening, backlog, partner, raced>>
chatVars == <<out, revents, line_ready, sent, printed>>
vars == <<pc, keyVars, sockVars, chatVars>>

Goto(p, label) == pc' = [pc EXCEPT ![p] = label]

\* Has p still its sockets?
IsOpen(p) == pc[p] \notin {"unlink_path", "remove_path", "ended"}

Init == /\ pc = [p \in Peer |-> "open_key"]
        /\ key_file = "absent" /\ key_readable = TRUE
        /\ key = [p \in Peer |-> None]
        /\ path = None
        /\ bound = [p \in Peer |-> FALSE]
        /\ listening = [p \in Peer |-> FALSE]
        /\ backlog = [p \in Peer |-> <<>>]
        /\ partner = [p \in Peer |-> None]
        /\ out = [p \in Peer |-> <<>>]
        /\ revents = [p \in Peer |-> {}]
        /\ line_ready = [p \in Peer |-> FALSE]
        /\ sent = [p \in Peer |-> <<>>]
        /\ printed = [p \in Peer |-> <<>>]
        /\ raced = [p \in Peer |-> {}]
-----------------------------------------------------------------------------
\* crypto_options_create

\* The key file is opened; if that fails, a key is made up.
OpenKey(p) == /\ pc[p] = "open_key"
              /\ \/ /\ key_file # "absent" /\ key_readable
                    /\ Goto(p, "read_key")
                    /\ UNCHANGED key
                 \/ /\ key_file = "absent" \/ ~ key_readable
                    /\ \E k \in CryptoKey : key' = [key EXCEPT ![p] = k]
                    /\ Goto(p, "create_key")
              /\ UNCHANGED <<key_file, key_readable, sockVars, chatVars>>

\* The file is read; a file that is not whole yet fails the assert.
ReadKey(p) == /\ pc[p] = "read_key"
              /\ \/ /\ key_file = "empty"
                    /\ Goto(p, "ended")
                    /\ UNCHANGED key
                 \/ /\ key_file # "empty"
                    /\ key' = [key EXCEPT ![p] = key_file]
                    /\ Goto(p, "connect")
              /\ UNCHANGED <<key_file, key_readable, sockVars, chatVars>>

\* Mutant: without O_EXCL the file of another peer is taken over.
CreateKey_Shared(p) == /\ pc[p] = "create_key"
                       /\ key_file' = "empty"
                       /\ key_readable' \in BOOLEAN
                       /\ Goto(p, "write_key")
                       /\ UNCHANGED <<key, sockVars, chatVars>>

\* The file is created, with O_EXCL; if it exists by now, the assert fails.
CreateKey(p) == /\ pc[p] = "create_key"
                /\ \/ /\ key_file = "absent"
                      /\ key_file' = "empty"
                      /\ key_readable' \in BOOLEAN
                      /\ Goto(p, "write_key")
                   \/ /\ key_file # "absent"
                      /\ Goto(p, "ended")
                      /\ UNCHANGED <<key_file, key_readable>>
                /\ UNCHANGED <<key, sockVars, chatVars>>

WriteKey(p) == /\ pc[p] = "write_key"
               /\ key_file' = key[p]
               /\ Goto(p, "connect")
               /\ UNCHANGED <<key_readable, key, sockVars, chatVars>>
-----------------------------------------------------------------------------
\* create_sock

\* Mutant: the path is bound without a look for a listener.
Connect_Never(p) == /\ pc[p] = "connect"
                    /\ Goto(p, "bind")
                    /\ UNCHANGED <<keyVars, sockVars, chatVars>>

\* Does connect() find a listener at the path?
Listener(q) == q = path /\ listening[q] /\ IsOpen(q)

\* connect() succeeds, before any accept(), if someone listens at the path.
Connect(p) ==
  /\ pc[p] = "connect"
  /\ \/ \E q \in Peer : /\ Listener(q)
                        /\ partner' = [partner EXCEPT ![p] = q]
                        /\ backlog' = [backlog EXCEPT ![q] = Append(@, p)]
                        /\ Goto(p, "poll")
                        /\ UNCHANGED raced
     \/ /\ ~ \E q \in Peer : Listener(q)
        /\ raced' = [q \in Peer |-> IF listening[q] THEN raced[q] ELSE raced[q] \cup {p}]
        /\ Goto(p, "bind")
        /\ UNCHANGED <<partner, backlog>>
  /\ UNCHANGED <<path, bound, listening, keyVars, chatVars>>

\* bind(): to a path that is free.
BindTo(p) == /\ path = None
             /\ path' = p
             /\ bound' = [bound EXCEPT ![p] = TRUE]

Bind(p) == /\ pc[p] = "bind"
           /\ \/ BindTo(p) /\ Goto(p, "listen")
              \/ path # None /\ Goto(p, "unlink") /\ UNCHANGED <<path, bound>>
           /\ UNCHANGED <<listening, backlog, partner, raced, keyVars, chatVars>>

Unlink(p) == /\ pc[p] = "unlink"
             /\ path' = None
             /\ Goto(p, "rebind")
             /\ UNCHANGED <<bound, listening, backlog, partner, raced, keyVars, chatVars>>

\* The second bind(), whose failure nobody looks at.
Rebind(p) == /\ pc[p] = "rebind"
             /\ BindTo(p) \/ (path # None /\ UNCHANGED <<path, bound>>)
             /\ Goto(p, "listen")
             /\ UNCHANGED <<listening, backlog, partner, raced, keyVars, chatVars>>

\* listen() fails for a socket without a path.
Listen(p) == /\ pc[p] = "listen"
             /\ listening' = [listening EXCEPT ![p] = bound[p]]
             /\ Goto(p, "accept")
             /\ UNCHANGED <<path, bound, backlog, partner, raced, keyVars, chatVars>>

\* accept() waits for the first client, or fails at once: then the fd is -1.
Accept(p) == /\ pc[p] = "accept"
             /\ \/ /\ listening[p] /\ backlog[p] # <<>>
                   /\ partner' = [partner EXCEPT ![p] = Head(backlog[p])]
                   /\ backlog' = [backlog EXCEPT ![p] = Tail(@)]
                \/ ~ listening[p] /\ UNCHANGED <<partner, backlog>>
             /\ Goto(p, "poll")
             /\ UNCHANGED <<path, bound, listening, raced, keyVars, chatVars>>
-----------------------------------------------------------------------------
\* The loop of run_data_transfer

\* The events of p's fd: a stream from whoever has p at his other end, and a
\* hang-up when that end, or the listener it waits at, is closed.
Events(p) == IF partner[p] = None THEN {}
             ELSE (IF partner[partner[p]] = p /\ out[partner[p]] # <<>>
                   THEN {"POLLIN"} ELSE {}) \cup
                  (IF IsOpen(partner[p]) THEN {} ELSE {"POLLHUP"})

Poll(p) == /\ pc[p] = "poll"
           /\ \E ready \in {FALSE} \cup {Len(sent[p]) < MAX_TYPED} :
                /\ ready \/ Events(p) # {}
                /\ line_ready' = [line_ready EXCEPT ![p] = ready]
           /\ revents' = [revents EXCEPT ![p] = Events(p)]
           /\ Goto(p, IF "POLLHUP" \in Events(p) THEN "close" ELSE "read_fd")
           /\ UNCHANGED <<out, sent, printed, keyVars, sockVars>>

\* close_sock: the sockets, and then twice, by unlink() and by remove(), the
\* path, whoever is bound to it by now.
CloseSock(p) == /\ pc[p] = "close"
                /\ Goto(p, "unlink_path")
                /\ UNCHANGED <<keyVars, sockVars, chatVars>>

UnlinkPath(p) == /\ pc[p] \in {"unlink_path", "remove_path"}
                 /\ path' = None
                 /\ Goto(p, IF pc[p] = "unlink_path" THEN "remove_path" ELSE "ended")
                 /\ UNCHANGED <<bound, listening, backlog, partner, raced, keyVars, chatVars>>

\* A buffer is read, its messages are decrypted with p's key and printed.
ReadFd(p) ==
  /\ pc[p] = "read_fd"
  /\ LET from == partner[p]
     IN \/ /\ "POLLIN" \in revents[p]
           /\ out' = [out EXCEPT ![from] = Left(@)]
           /\ \/ /\ \E text \in Decoded(Taken(out[from])) :
                      printed' = [printed EXCEPT ![p] = @ \o
                                    IF key[p] = key[from] THEN text ELSE <<Garbage>>]
                 /\ Goto(p, "read_stdin")
              \/ /\ MayCrash(Taken(out[from]))
                 /\ Goto(p, "ended")
                 /\ UNCHANGED printed
        \/ /\ "POLLIN" \notin revents[p]
           /\ Goto(p, "read_stdin")
           /\ UNCHANGED <<out, printed>>
  /\ UNCHANGED <<revents, line_ready, sent, keyVars, sockVars>>

\* A line of the user is encrypted and written: to the partner, to nobody when
\* the fd is -1, and SIGPIPE ends the program when the partner is gone.
ReadStdin(p) ==
  /\ pc[p] = "read_stdin"
  /\ \/ /\ ~ line_ready[p]
        /\ Goto(p, "poll")
        /\ UNCHANGED <<out, sent>>
     \/ /\ line_ready[p]
        /\ \E m \in Msg :
             /\ sent' = [sent EXCEPT ![p] = Append(@, m)]
             /\ \/ /\ partner[p] = None
                   /\ Goto(p, "poll") /\ UNCHANGED out
                \/ /\ partner[p] # None /\ IsOpen(partner[p])
                   /\ out' = [out EXCEPT ![p] = @ \o Frame(m)]
                   /\ Goto(p, "poll")
                \/ /\ partner[p] # None /\ ~ IsOpen(partner[p])
                   /\ Goto(p, "ended") /\ UNCHANGED out
  /\ UNCHANGED <<revents, line_ready, printed, keyVars, sockVars>>

\* The user ends a peer: its sockets are closed, the path stays.
Kill(p) == /\ pc[p] # "ended"
           /\ Goto(p, "ended")
           /\ UNCHANGED <<keyVars, sockVars, chatVars>>

Next == \E p \in Peer :
  \/ OpenKey(p) \/ ReadKey(p) \/ CreateKey(p) \/ WriteKey(p)
  \/ Connect(p) \/ Bind(p) \/ Unlink(p) \/ Rebind(p) \/ Listen(p) \/ Accept(p)
  \/ Poll(p) \/ CloseSock(p) \/ UnlinkPath(p) \/ ReadFd(p) \/ ReadStdin(p) \/ Kill(p)

Spec == Init /\ [][Next]_vars
-----------------------------------------------------------------------------
\* Peers that got past the key file have one key, the one in the file, whoever
\* of them made it and however they overlapped: O_EXCL lets one of them write.
KeysAgree == \A p, q \in Peer :
  LET HasKey(r) == pc[r] \in {"connect", "bind", "unlink", "rebind", "listen", "accept",
                              "poll", "read_fd", "read_stdin", "close", "unlink_path",
                              "remove_path"}
  IN HasKey(p) /\ HasKey(q) => key[p] = key[q] /\ key_file = key[p]

\* What a peer prints of its partner's messages was written for it, and is
\* printed once and in order, whoever else connected to either of them.
PrintedInOrder == \A p \in Peer : Legible(printed[p]) # {} =>
  /\ partner[partner[p]] = p
  /\ InOrder(printed[p], sent[partner[p]])

\* A peer that listens has its path unlinked by one that starts only if that
\* one had looked for a listener before it was one; who starts later connects
\* to it, also after others have come, gone and unlinked the path.
PathIsTakenInRace == [][\A p, q \in Peer :
  path = p /\ listening[p] /\ IsOpen(p) /\ Unlink(q) => q \in raced[p]]_vars
=============================================================================
