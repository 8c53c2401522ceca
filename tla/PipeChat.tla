------------------------------ MODULE PipeChat ------------------------------
(***************************************************************************)
(* Two peers that chat over two named pipes (run_named_pipe): each opens   *)
(* the pipe it reads, waits until the other one has opened the pipe it     *)
(* writes, and loops: poll, read a buffer of the pipe, read a line of the  *)
(* user and write it, look for the hang-up.  Everything the loop does is   *)
(* decided by the events its poll() saw, while the other peer goes on.     *)
(***************************************************************************)
EXTENDS ChatFrames, FiniteSets

CONSTANTS Peer,
          PIPE_UNITS,       \* what a pipe holds (64 KiB)
          MAX_TYPED         \* bound on the lines the user of a peer types

ASSUME PeerAssumption == Cardinality(Peer) = 2

\* A pipe holds a read, and so any frame.
ASSUME PipeAssumption == PIPE_UNITS \in Nat /\ READ_UNITS <= PIPE_UNITS

VARIABLES pc,               \* where a peer's program is
          how,              \* how it ended
          pipe,             \* the units in the pipe a peer reads
          had_writer,       \* that pipe was opened for writing since
          revents,          \* the events of the input pipe, as the code holds them
          line_ready,       \* the event of stdin
          typed,            \* lines the user has typed
          sent,             \* history: the messages a peer wrote
          printed,          \* what a peer has printed of the other's messages
          paced             \* history: none was written to it while another was waiting

vars == <<pc, how, pipe, had_writer, revents, line_ready, typed, sent, printed, paced>>

Other(p) == CHOOSE q \in Peer : q # p

HasReader(p) == pc[p] \notin {"open_input", "ended"}
HasWriter(p) == pc[Other(p)] \notin {"open_input", "open_output", "ended"}

Init == /\ pc = [p \in Peer |-> "open_input"]
        /\ how = [p \in Peer |-> "running"]
        /\ pipe = [p \in Peer |-> <<>>]
        /\ had_writer = [p \in Peer |-> FALSE]
        /\ revents = [p \in Peer |-> {}]
        /\ line_ready = [p \in Peer |-> FALSE]
        /\ typed = [p \in Peer |-> 0]
        /\ sent = [p \in Peer |-> <<>>]
        /\ printed = [p \in Peer |-> <<>>]
        /\ paced = [p \in Peer |-> TRUE]

End(p, reason) == /\ pc' = [pc EXCEPT ![p] = "ended"]
                  /\ how' = [how EXCEPT ![p] = reason]

Goto(p, label) == pc' = [pc EXCEPT ![p] = label] /\ UNCHANGED how

OpenInput(p) == /\ pc[p] = "open_input"
                /\ Goto(p, "open_output")
                /\ UNCHANGED <<pipe, had_writer, revents, line_ready, typed, sent, printed, paced>>

\* The open() of the output pipe that succeeds, as soon as it has a reader.
OpenOutput(p) == /\ pc[p] = "open_output"
                 /\ HasReader(Other(p))
                 /\ had_writer' = [had_writer EXCEPT ![Other(p)] = TRUE]
                 /\ Goto(p, "poll")
                 /\ UNCHANGED <<pipe, revents, line_ready, typed, sent, printed, paced>>

\* The events of p's input pipe.  A pipe that never had a writer is not hung up.
Events(p) == (IF pipe[p] # <<>> THEN {"POLLIN"} ELSE {}) \cup
             (IF had_writer[p] /\ ~ HasWriter(p) THEN {"POLLHUP"} ELSE {})

\* A poll() that returns events; one that times out changes nothing.
PollThen(p, more, next) ==
  /\ \E ready \in {FALSE} \cup {more} :
       /\ ready \/ Events(p) # {}
       /\ line_ready' = [line_ready EXCEPT ![p] = ready]
  /\ revents' = [revents EXCEPT ![p] = Events(p)]
  /\ Goto(p, next)
  /\ UNCHANGED <<pipe, had_writer, typed, sent, printed, paced>>

Poll(p) == pc[p] = "poll" /\ PollThen(p, typed[p] < MAX_TYPED[p], "read_pipe")

\* Mutant: the events of the pipe are kept when it was read.
ReadThen_KeepsEvents(p, next) ==
  /\ "POLLIN" \in revents[p]
  /\ pipe' = [pipe EXCEPT ![p] = Left(@)]
  /\ \/ /\ \E text \in Decoded(Taken(pipe[p])) : printed' = [printed EXCEPT ![p] = @ \o text]
        /\ Goto(p, next)
     \/ /\ MayCrash(Taken(pipe[p])) /\ End(p, "crashed")
        /\ UNCHANGED printed
  /\ UNCHANGED <<revents, had_writer, line_ready, typed, sent, paced>>

\* A buffer is read and its messages are printed; the events are cleared, a
\* hang-up that came with the data among them.
ReadThen(p, next) ==
  /\ "POLLIN" \in revents[p]
  /\ pipe' = [pipe EXCEPT ![p] = Left(@)]
  /\ revents' = [revents EXCEPT ![p] = {}]
  /\ \/ /\ \E text \in Decoded(Taken(pipe[p])) : printed' = [printed EXCEPT ![p] = @ \o text]
        /\ Goto(p, next)
     \/ /\ MayCrash(Taken(pipe[p])) /\ End(p, "crashed")
        /\ UNCHANGED printed
  /\ UNCHANGED <<had_writer, line_ready, typed, sent, paced>>

ReadPipe(p) == pc[p] = "read_pipe" /\ ReadThen(p, "read_stdin")

NothingToRead(p) == /\ pc[p] = "read_pipe"
                    /\ "POLLIN" \notin revents[p]
                    /\ Goto(p, "read_stdin")
                    /\ UNCHANGED <<pipe, had_writer, revents, line_ready, typed, sent,
                                   printed, paced>>

\* write() to the pipe of q: it takes the frame, or has no room and the message
\* is lost (O_NONBLOCK, the result is not looked at).
Write(p, q, m) ==
  /\ pipe' = [pipe EXCEPT ![q] = IF Len(@) + Size[m] <= PIPE_UNITS THEN @ \o Frame(m) ELSE @]
  /\ sent' = [sent EXCEPT ![p] = Append(@, m)]
  /\ paced' = [paced EXCEPT ![q] = @ /\ pipe[q] = <<>>]

\* A line of the user (an empty one again and again once stdin has ended) is
\* written to the other peer; without a reader there, SIGPIPE ends this one.
ReadStdin(p) ==
  /\ pc[p] = "read_stdin"
  /\ line_ready[p]
  /\ typed' = [typed EXCEPT ![p] = @ + 1]
  /\ \/ /\ HasReader(Other(p))
        /\ \E m \in Msg : Write(p, Other(p), m)
        /\ Goto(p, "look_for_hang_up")
     \/ /\ ~ HasReader(Other(p))
        /\ End(p, "SIGPIPE")
        /\ UNCHANGED <<pipe, sent, paced>>
  /\ UNCHANGED <<had_writer, revents, line_ready, printed>>

NothingTyped(p) == /\ pc[p] = "read_stdin"
                   /\ ~ line_ready[p]
                   /\ Goto(p, "look_for_hang_up")
                   /\ UNCHANGED <<pipe, had_writer, revents, line_ready, typed, sent,
                                  printed, paced>>

\* Mutant: the hang-up is not looked for.
LookForHangUp_Not(p) ==
  /\ pc[p] = "look_for_hang_up"
  /\ Goto(p, "poll")
  /\ UNCHANGED <<pipe, had_writer, revents, line_ready, typed, sent, printed, paced>>

LookForHangUp(p) ==
  /\ pc[p] = "look_for_hang_up"
  /\ IF "POLLHUP" \in revents[p] THEN End(p, "hang_up") ELSE Goto(p, "poll")
  /\ UNCHANGED <<pipe, had_writer, revents, line_ready, typed, sent, printed, paced>>

\* The user ends a peer, or types more than string_create's assert allows.
Kill(p) == /\ pc[p] # "ended"
           /\ End(p, "killed")
           /\ UNCHANGED <<pipe, had_writer, revents, line_ready, typed, sent, printed, paced>>

Loop(p) == Poll(p) \/ ReadPipe(p) \/ NothingToRead(p) \/ ReadStdin(p) \/ NothingTyped(p)
             \/ LookForHangUp(p)

run_named_pipe == \E p \in Peer : OpenInput(p) \/ OpenOutput(p) \/ Loop(p)
-----------------------------------------------------------------------------
\* Messages are lost when several wait in the pipe, but those that are printed
\* are printed once and in the order they were sent.
PrintedInOrder == \A p \in Peer : InOrder(printed[p], sent[Other(p)])

\* As long as no message was sent while another one waited, nothing is lost:
\* what has left the pipe was printed, and nothing else was.
PacedIsWhole == \A p \in Peer :
  paced[p] /\ pipe[p] = <<>> => printed[p] = sent[Other(p)]

\* Who leaves because the other hung up has read everything from the pipe
\* first, since a poll that saw data does not count as a hang-up.
DrainedAtHangUp == \A p \in Peer : how[p] = "hang_up" => pipe[p] = <<>>

\* Two peers that were connected end together: when one is gone, the other
\* comes to its end too.
HangUpIsSeen == \A p \in Peer :
  had_writer[p] /\ had_writer[Other(p)] /\ pc[Other(p)] = "ended" ~> pc[p] = "ended"
=============================================================================
