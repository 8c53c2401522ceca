---------------------------- MODULE UnnamedPipes ----------------------------
(***************************************************************************)
(* The pipe chat started without paths (run_unnamed_pipes): the program    *)
(* forks a child, sends it the lines of its user and prints what the child *)
(* sends back.  The pipes, and how a buffer of them is read, are those of  *)
(* PipeChat; but a write() waits for room here, since only the read ends   *)
(* are O_NONBLOCK, and neither process looks for the other's end.          *)
(***************************************************************************)
EXTENDS PipeChat

CONSTANTS parent, child,
          Dialog            \* bound: what the user of the parent may type, line after line

ASSUME ForkAssumption == Peer = {parent, child} /\ Dialog \subseteq Seq(Msg)

VARIABLE writing            \* the message a process is about to write

\* After pipe() and fork(); a process closes the ends it does not use first.
\* had_writer is of named pipes: nobody looks at a hang-up here.
ForkInit == /\ pc = [p \in Peer |-> IF p = parent THEN "signal_SIGTERM" ELSE "child_poll"]
            /\ how = [p \in Peer |-> "running"]
            /\ pipe = [p \in Peer |-> <<>>]
            /\ had_writer = [p \in Peer |-> FALSE]
            /\ revents = [p \in Peer |-> {}]
            /\ line_ready = [p \in Peer |-> FALSE]
            /\ typed = [p \in Peer |-> 0]
            /\ sent = [p \in Peer |-> <<>>]
            /\ printed = [p \in Peer |-> <<>>]
            /\ paced = [p \in Peer |-> TRUE]
            /\ writing = [p \in Peer |-> Garbage]

GotoOnly(p, label) ==
  /\ Goto(p, label)
  /\ UNCHANGED <<pipe, had_writer, revents, line_ready, typed, sent, printed, paced, writing>>

\* Mutant: a process keeps the end of its own output pipe that the other reads.
NoReader_EndKept(p) == FALSE

\* The other process was the only one to hold the read end of p's output pipe.
NoReader(p) == pc[Other(p)] = "ended"

\* A write() that waits for room, and is SIGPIPE's without a reader.
WriteThen(p, next) ==
  /\ \/ /\ NoReader(p)
        /\ End(p, "SIGPIPE")
        /\ UNCHANGED <<pipe, sent, paced>>
     \/ /\ ~ NoReader(p)
        /\ Len(pipe[Other(p)]) + Size[writing[p]] <= PIPE_UNITS
        /\ Write(p, Other(p), writing[p])
        /\ Goto(p, next)
  /\ UNCHANGED <<had_writer, revents, line_ready, typed, printed, writing>>

\* The child takes a buffer of its pipe, prints the first message of it and
\* clears the buffer: what was behind that message is lost.  A buffer that
\* starts within a text crashes it, or is a message of no meaning.
ChildRead ==
  LET buff == Taken(pipe[child]) IN
  /\ pc[child] = "child_poll"
  /\ buff # <<>>
  /\ pipe' = [pipe EXCEPT ![child] = Left(@)]
  /\ \/ \E m \in {IF Framed(buff) THEN buff[1].msg ELSE Garbage} :
          /\ printed' = [printed EXCEPT ![child] = Append(@, m)]
          /\ writing' = [writing EXCEPT ![child] = m]
          /\ Goto(child, "child_write")
     \/ /\ ~ Framed(buff)
        /\ End(child, "crashed")
        /\ UNCHANGED <<printed, writing>>
  /\ UNCHANGED <<had_writer, revents, line_ready, typed, sent, paced>>

ChildWrite == pc[child] = "child_write" /\ WriteThen(child, "child_poll")

\* signal() for one signal after the other.
InstallHandlers == \/ pc[parent] = "signal_SIGTERM" /\ GotoOnly(parent, "signal_SIGINT")
                   \/ pc[parent] = "signal_SIGINT" /\ GotoOnly(parent, "parent_poll")

\* A signal that has its handler: kill(CHILD_PID, SIGTERM) and exit.
handler == /\ pc[parent] \notin {"signal_SIGTERM", "ended"}
           /\ pc' = [p \in Peer |-> "ended"]
           /\ how' = [p \in Peer |-> IF pc[p] = "ended" THEN how[p] ELSE "killed"]
           /\ UNCHANGED <<pipe, had_writer, revents, line_ready, typed, sent, printed, paced,
                          writing>>

ParentPoll == /\ pc[parent] = "parent_poll"
              /\ PollThen(parent, TRUE, "parent_stdin")
              /\ UNCHANGED writing

\* The lines that may be typed next.
NextLines == {d[Len(sent[parent]) + 1] : d \in {s \in Dialog :
                 Len(s) > Len(sent[parent]) /\ SubSeq(s, 1, Len(sent[parent])) = sent[parent]}}

\* A line of the user; at the end of stdin there is none, though poll() says so.
ParentStdin ==
  /\ pc[parent] = "parent_stdin"
  /\ line_ready[parent]
  /\ \/ \E m \in NextLines :
          /\ writing' = [writing EXCEPT ![parent] = m]
          /\ Goto(parent, "parent_write")
     \/ Goto(parent, "parent_pipe") /\ UNCHANGED writing
  /\ UNCHANGED <<pipe, had_writer, revents, line_ready, typed, sent, printed, paced>>

\* Mutant: the pipe is read only when no line was.
ParentWrite_NotBoth == pc[parent] = "parent_write" /\ WriteThen(parent, "parent_poll")

ParentWrite == pc[parent] = "parent_write" /\ WriteThen(parent, "parent_pipe")

ParentPipe == /\ pc[parent] = "parent_pipe"
              /\ ReadThen(parent, "parent_poll")
              /\ UNCHANGED writing

ParentSkips ==
  \/ pc[parent] = "parent_stdin" /\ ~ line_ready[parent] /\ GotoOnly(parent, "parent_pipe")
  \/ pc[parent] = "parent_pipe" /\ "POLLIN" \notin revents[parent]
       /\ GotoOnly(parent, "parent_poll")

child_process == ChildRead \/ ChildWrite
parent_process == InstallHandlers \/ ParentPoll \/ ParentStdin \/ ParentWrite \/ ParentPipe
                    \/ ParentSkips
-----------------------------------------------------------------------------
\* A process that writes comes back, though it waits for room in a pipe whose
\* reader may be writing too: the two never wait for each other for good.
WriteComesBack == \A p \in Peer :
  pc[p] \in {"child_write", "parent_write"} ~> pc[p] \notin {"child_write", "parent_write"}

\* A child whose parent is gone is ended by its next message, if there is one.
OrphanEnds ==
  (/\ pc[parent] = "ended"
   /\ \/ pc[child] = "child_write"
      \/ pc[child] = "child_poll" /\ pipe[child] # <<>>)
     ~> pc[child] = "ended"
=============================================================================
