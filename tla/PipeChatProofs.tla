--------------------------- MODULE PipeChatProofs ---------------------------
(***************************************************************************)
(* The pipe chat, over named pipes and over those of a fork: a hang-up     *)
(* that is acted on left nothing in the pipe, nothing is lost that was not *)
(* sent while something else waited, and what is printed is in order, each *)
(* message once; for messages and pipes of any size.                       *)
(***************************************************************************)
EXTENDS PipeProgram, ChatFramesProofs, FiniteSetTheorems

Looping == {"poll", "read_pipe", "read_stdin", "look_for_hang_up"}
ParentLabels == {"signal_SIGTERM", "signal_SIGINT", "parent_poll", "parent_stdin", "parent_write",
                 "parent_pipe"}
ChildLabels == {"child_poll", "child_write"}

PipeTypeOK ==
  /\ pc \in [Peer -> {"open_input", "open_output", "ended"} \cup Looping \cup ParentLabels
                       \cup ChildLabels]
  /\ how \in [Peer -> {"running", "SIGPIPE", "crashed", "hang_up", "killed"}]
  /\ pipe \in [Peer -> Seq(Unit)]
  /\ had_writer \in [Peer -> BOOLEAN] /\ paced \in [Peer -> BOOLEAN]
  /\ revents \in [Peer -> SUBSET {"POLLIN", "POLLHUP"}]
  /\ sent \in [Peer -> Seq(Text)] /\ printed \in [Peer -> Seq(Text)]
  /\ writing \in [Peer -> Text]

\* The events a peer holds are true of its pipe until it acts on them: nobody else
\* reads it, and after a hang-up nobody writes to it.
EventsInv == \A p \in Peer :
  /\ had_writer[p] => pc[Other(p)] \notin {"open_input", "open_output"}
  /\ "POLLIN" \in revents[p] => pipe[p] # <<>>
  /\ "POLLHUP" \in revents[p] => pc[Other(p)] = "ended"
  /\ "POLLHUP" \in revents[p] /\ "POLLIN" \notin revents[p] => pipe[p] = <<>>
  /\ pc[p] \in {"read_stdin", "look_for_hang_up"} => "POLLIN" \notin revents[p]
  /\ pc[p] \in ChildLabels => revents[p] = {}
  /\ how[p] = "hang_up" => pc[p] = "ended" /\ pipe[p] = <<>>

\* As long as no message was sent while another one waited: the pipe is empty and
\* all is printed, or it holds one message, whole, and the others are printed.
PacedInv == \A p \in Peer : paced[p] =>
  \/ pipe[p] = <<>> /\ printed[p] = sent[Other(p)]
  \/ \E m \in Text : pipe[p] = Frame(m) /\ sent[Other(p)] = Append(printed[p], m)

\* What was printed and what is in the pipe are, together, in the order of what was
\* sent: reading only takes out of it, and writing adds at the end of both.
OrderInv == \A p \in Peer : InOrder(Through(printed[p], pipe[p]), sent[Other(p)])

PipeInv == PipeTypeOK /\ EventsInv /\ PacedInv /\ OrderInv
-----------------------------------------------------------------------------
\* The two processes.
LEMMA TwoPeers ==
  /\ parent \in Peer /\ child \in Peer /\ parent # child
  /\ \A p \in Peer : /\ Other(p) \in Peer /\ Other(p) # p /\ Other(Other(p)) = p
                     /\ \A q \in Peer : q = p \/ q = Other(p)
<1>1. Peer = {parent, child}
  BY ForkAssumption
<1>2. parent # child
  <2>1. ASSUME parent = child PROVE FALSE
    <3>1. Peer = {parent}
      BY <1>1, <2>1
    <3>2. Cardinality(Peer) = 1
      BY <3>1, FS_Singleton
    <3>3. QED BY <3>2, PeerAssumption
  <2>2. QED BY <2>1
<1>3. \A p \in Peer : \E q \in Peer : q # p
  BY <1>1, <1>2
<1>4. \A p \in Peer : Other(p) \in Peer /\ Other(p) # p
  BY <1>3 DEF Other
<1>5. QED BY <1>1, <1>2, <1>4
-----------------------------------------------------------------------------
\* The steps

Labels == {"open_input", "open_output", "ended"} \cup Looping \cup ParentLabels \cup ChildLabels
Reasons == {"running", "SIGPIPE", "crashed", "hang_up", "killed"}

\* A process goes on to a label, or ends for a reason, with no effect on the pipes.
LEMMA MoveKeeps ==
  ASSUME PipeInv, NEW p \in Peer, pc[p] # "ended",
         NEW l \in Labels, pc' = [pc EXCEPT ![p] = l],
         l \in {"open_input", "open_output"} => ~ had_writer[Other(p)],
         l \in {"read_stdin", "look_for_hang_up"} => "POLLIN" \notin revents[p],
         l \in ChildLabels => revents[p] = {},
         NEW h \in Reasons, UNCHANGED how \/ how' = [how EXCEPT ![p] = h],
         h = "hang_up" => l = "ended" /\ pipe[p] = <<>>,
         UNCHANGED <<pipe, had_writer, revents, sent, printed, paced>>,
         writing' \in [Peer -> Text]
  PROVE  PipeInv'
<1>0. PipeTypeOK /\ EventsInv /\ PacedInv /\ OrderInv
  BY DEF PipeInv
<1>1. PipeTypeOK'
  BY <1>0 DEF PipeTypeOK, Labels, Reasons
<1>2. \A q \in Peer : pc'[q] = IF q = p THEN l ELSE pc[q]
  BY <1>0 DEF PipeTypeOK
<1>3. \A q \in Peer : how'[q] = "hang_up" =>
        \/ q = p /\ h = "hang_up"
        \/ how[q] = "hang_up" /\ q # p
  BY <1>0 DEF PipeTypeOK, EventsInv
<1>4. \A q \in Peer : Other(q) = p <=> q = Other(p)
  BY TwoPeers
<1>5. EventsInv'
  BY <1>0, <1>2, <1>3, <1>4, TwoPeers DEF EventsInv
<1>6. PacedInv' /\ OrderInv'
  BY <1>0 DEF PacedInv, OrderInv
<1>7. QED BY <1>1, <1>5, <1>6 DEF PipeInv

\* poll(): what it says of the pipe is so.
LEMMA PollKeeps ==
  ASSUME PipeInv, NEW p \in Peer, NEW more, NEW l \in {"read_pipe", "parent_stdin"},
         pc[p] \in {"poll", "parent_poll"}, PollThen(p, more, l), UNCHANGED writing
  PROVE  PipeInv'
<1>0. PipeTypeOK /\ EventsInv /\ PacedInv /\ OrderInv
  BY DEF PipeInv
<1>1. /\ pc' = [pc EXCEPT ![p] = l] /\ revents' = [revents EXCEPT ![p] = Events(p)]
      /\ UNCHANGED <<how, pipe, had_writer, sent, printed, paced, writing>>
  BY DEF PollThen, Goto
<1>2. Events(p) \in SUBSET {"POLLIN", "POLLHUP"}
  BY DEF Events
<1>3. PipeTypeOK'
  BY <1>0, <1>1, <1>2 DEF PipeTypeOK, Looping, ParentLabels
<1>4. \A q \in Peer : /\ pc'[q] = IF q = p THEN l ELSE pc[q]
                      /\ revents'[q] = IF q = p THEN Events(p) ELSE revents[q]
  BY <1>0, <1>1 DEF PipeTypeOK
<1>5. /\ "POLLIN" \in Events(p) <=> pipe[p] # <<>>
      /\ "POLLHUP" \in Events(p) => pc[Other(p)] = "ended"
  BY <1>0 DEF Events, HasWriter, EventsInv
<1>6. l \notin ChildLabels \cup {"open_input", "open_output", "read_stdin",
                                 "look_for_hang_up", "ended"}
  BY DEF ChildLabels
<1>7. EventsInv'
  BY <1>0, <1>1, <1>4, <1>5, <1>6, TwoPeers DEF EventsInv
<1>8. PacedInv' /\ OrderInv'
  BY <1>0, <1>1 DEF PacedInv, OrderInv
<1>9. QED BY <1>3, <1>7, <1>8 DEF PipeInv

\* Reading a pipe that holds something: of a paced one, the one message in it.
LEMMA PacedRead ==
  ASSUME PipeInv, NEW p \in Peer, paced[p], pipe[p] # <<>>
  PROVE  \E m \in Text : /\ Taken(pipe[p]) = Frame(m) /\ Left(pipe[p]) = <<>>
                         /\ sent[Other(p)] = Append(printed[p], m)
<1>1. PICK m \in Text : pipe[p] = Frame(m) /\ sent[Other(p)] = Append(printed[p], m)
  BY DEF PipeInv, PacedInv
<1>2. QED BY <1>1, FrameIsRead

\* A buffer is taken from p's pipe, and what is printed of it, if it is paced, is
\* its message.
LEMMA ReadKeeps ==
  ASSUME PipeInv, NEW p \in Peer, pc[p] # "ended", pipe[p] # <<>>,
         NEW l \in Labels \ {"open_input", "open_output"}, pc' = [pc EXCEPT ![p] = l],
         UNCHANGED how \/ (how' = [how EXCEPT ![p] = "crashed"] /\ l = "ended"),
         pipe' = [pipe EXCEPT ![p] = Left(@)],
         revents' = [revents EXCEPT ![p] = {}],
         NEW text \in Decoded(Taken(pipe[p])) \cup {<<>>, <<Garbage>>},
         printed' = [printed EXCEPT ![p] = @ \o text],
         \A m \in Text : paced[p] /\ Taken(pipe[p]) = Frame(m) => text = <<m>>,
         UNCHANGED <<had_writer, sent, paced>>, writing' \in [Peer -> Text]
  PROVE  PipeInv'
<1>0. PipeTypeOK /\ EventsInv /\ PacedInv /\ OrderInv
  BY DEF PipeInv
<1>1. Left(pipe[p]) \in Seq(Unit) /\ printed[p] \o text \in Seq(Text)
  <2>1. <<>> \in Seq(Text) /\ <<Garbage>> \in Seq(Text)
    BY DEF Text
  <2>2. text \in Seq(Text)
    BY <1>0, <2>1, StreamIsRead DEF PipeTypeOK
  <2>3. QED BY <1>0, <2>2, StreamIsRead, ConcatProperties DEF PipeTypeOK
<1>2. PipeTypeOK'
  BY <1>0, <1>1 DEF PipeTypeOK, Labels
<1>3. \A q \in Peer : /\ pc'[q] = IF q = p THEN l ELSE pc[q]
                      /\ pipe'[q] = IF q = p THEN Left(pipe[p]) ELSE pipe[q]
                      /\ revents'[q] = IF q = p THEN {} ELSE revents[q]
                      /\ printed'[q] = IF q = p THEN printed[p] \o text ELSE printed[q]
                      /\ how'[q] = "hang_up" => how[q] = "hang_up" /\ q # p
  BY <1>0 DEF PipeTypeOK, EventsInv
<1>4. \A q \in Peer : Other(q) = p <=> q = Other(p)
  BY TwoPeers
<1>5. EventsInv'
  BY <1>0, <1>3, <1>4, TwoPeers DEF EventsInv
<1>6. ASSUME paced[p]
      PROVE  pipe'[p] = <<>> /\ printed'[p] = sent[Other(p)]
  <2>1. PICK m \in Text : /\ Taken(pipe[p]) = Frame(m) /\ Left(pipe[p]) = <<>>
                          /\ sent[Other(p)] = Append(printed[p], m)
    BY <1>6, PacedRead
  <2>2. text = <<m>>
    BY <1>6, <2>1
  <2>3. printed[p] \o <<m>> = Append(printed[p], m)
    BY <1>0, <2>1, AppendIsConcat DEF PipeTypeOK
  <2>4. QED BY <1>3, <2>1, <2>2, <2>3
<1>7. PacedInv'
  BY <1>0, <1>3, <1>6 DEF PacedInv
<1>8. InOrder(Through(printed[p] \o text, Left(pipe[p])), sent[Other(p)])
  <2>1. /\ printed[p] \in Seq(Text) /\ pipe[p] \in Seq(Unit) /\ sent[Other(p)] \in Seq(Text)
        /\ InOrder(Through(printed[p], pipe[p]), sent[Other(p)])
    BY <1>0, TwoPeers DEF PipeTypeOK, OrderInv
  <2>2. QED BY <2>1, ReadInOrder
<1>9. OrderInv'
  BY <1>0, <1>3, <1>8 DEF OrderInv
<1>10. QED BY <1>2, <1>5, <1>7, <1>9 DEF PipeInv

\* A frame is written: into an empty pipe, as the only message there, or it is no
\* longer paced.
LEMMA WriteKeeps ==
  ASSUME PipeInv, NEW p \in Peer, NEW m \in Text, Write(p, Other(p), m),
         pc[p] \in {"read_stdin", "child_write", "parent_write"}, pc[Other(p)] # "ended",
         NEW l \in {"look_for_hang_up", "child_poll", "parent_pipe"},
         l = "look_for_hang_up" => pc[p] = "read_stdin",
         l = "child_poll" => pc[p] = "child_write",
         pc' = [pc EXCEPT ![p] = l],
         UNCHANGED <<how, had_writer, revents, printed, writing>>
  PROVE  PipeInv'
<1> DEFINE q == Other(p)
<1>0. PipeTypeOK /\ EventsInv /\ PacedInv /\ OrderInv
  BY DEF PipeInv
<1>1. q \in Peer /\ q # p /\ Other(q) = p
  BY TwoPeers
<1> HIDE DEF q
<1>2. /\ pipe' = [pipe EXCEPT ![q] = IF Len(@) + Size[m] <= PIPE_UNITS THEN @ \o Frame(m) ELSE @]
      /\ sent' = [sent EXCEPT ![p] = Append(@, m)]
      /\ paced' = [paced EXCEPT ![q] = @ /\ pipe[q] = <<>>]
  BY DEF Write, q
<1>3. /\ Frame(m) \in Seq(Unit) /\ Len(Frame(m)) = Size[m] /\ Frame(m) # <<>>
      /\ Size[m] \in 1..READ_UNITS /\ pipe[q] \in Seq(Unit)
  BY <1>0, <1>1, FrameIsRead DEF PipeTypeOK
<1>4. pipe[q] \o Frame(m) \in Seq(Unit) /\ pipe[q] \o Frame(m) # <<>>
  <2>1. Len(pipe[q] \o Frame(m)) = Len(pipe[q]) + Size[m]
    BY <1>3, ConcatProperties
  <2>2. Len(pipe[q]) \in Nat /\ Len(pipe[q] \o Frame(m)) # 0
    BY <1>3, <2>1, FrameAssumption
  <2>3. QED BY <1>3, <2>2, ConcatProperties
<1>5. /\ pipe' \in [Peer -> Seq(Unit)] /\ paced' \in [Peer -> BOOLEAN]
      /\ sent' \in [Peer -> Seq(Text)]
  BY <1>0, <1>1, <1>2, <1>4 DEF PipeTypeOK
<1>6. PipeTypeOK'
  BY <1>0, <1>5 DEF PipeTypeOK, Looping, ParentLabels, ChildLabels
<1>7. \A r \in Peer : /\ pc'[r] = IF r = p THEN l ELSE pc[r]
                      /\ r # q => pipe'[r] = pipe[r]
                      /\ pipe[r] # <<>> => pipe'[r] # <<>>
                      /\ Other(r) = p <=> r = q
  BY <1>0, <1>1, <1>2, <1>4, TwoPeers DEF PipeTypeOK, q
<1>8. how[q] # "hang_up" /\ "POLLHUP" \notin revents[q]
  BY <1>0, <1>1 DEF EventsInv, q
<1>9. EventsInv'
  <2>1. l \in ChildLabels => pc[p] \in ChildLabels
    BY DEF ChildLabels
  <2>2. l \notin {"open_input", "open_output", "read_stdin", "ended"} /\ how[p] # "hang_up"
    BY <1>0 DEF EventsInv
  <2>3. QED BY <1>0, <1>7, <1>8, <2>1, <2>2, TwoPeers DEF EventsInv
<1>10. ASSUME paced'[q]
       PROVE  pipe'[q] = Frame(m) /\ sent'[p] = Append(printed[q], m)
  <2>1. paced[q] /\ pipe[q] = <<>>
    BY <1>0, <1>1, <1>2, <1>10 DEF PipeTypeOK
  <2>2. printed[q] = sent[p]
    BY <1>0, <1>1, <2>1, FrameIsRead DEF PacedInv
  <2>3. Len(pipe[q]) + Size[m] <= PIPE_UNITS
    BY <1>3, <2>1, FrameAssumption, PipeAssumption
  <2>4. <<>> \o Frame(m) = Frame(m)
    BY <1>3, ConcatEmptySeq
  <2>5. pipe'[q] = Frame(m)
    BY <1>0, <1>1, <1>2, <2>1, <2>3, <2>4 DEF PipeTypeOK
  <2>6. sent'[p] = Append(sent[p], m)
    BY <1>0, <1>2 DEF PipeTypeOK
  <2>7. QED BY <2>2, <2>5, <2>6
<1>11. \A r \in Peer : r # q => /\ pipe'[r] = pipe[r] /\ paced'[r] = paced[r]
                                /\ sent'[Other(r)] = sent[Other(r)]
  BY <1>0, <1>1, <1>2, <1>7, TwoPeers DEF PipeTypeOK
<1>12. PacedInv'
  BY <1>0, <1>1, <1>10, <1>11 DEF PacedInv
<1>13. InOrder(Through(printed[q], pipe'[q]), sent'[p])
  <2>1. /\ printed[q] \in Seq(Text) /\ sent[p] \in Seq(Text)
        /\ InOrder(Through(printed[q], pipe[q]), sent[p])
    BY <1>0, <1>1 DEF PipeTypeOK, OrderInv
  <2>2. sent'[p] = Append(sent[p], m)
    BY <1>0, <1>2 DEF PipeTypeOK
  <2>3. CASE pipe'[q] = pipe[q] \o Frame(m)
    BY <1>3, <2>1, <2>2, <2>3, WriteInOrder
  <2>4. CASE pipe'[q] = pipe[q]
    <3>1. Through(printed[q], pipe[q]) \in Seq(Text)
      BY <1>3, <2>1, ThroughOf
    <3>2. InOrder(Through(printed[q], pipe[q]), Append(sent[p], m))
      BY <2>1, <3>1, SentInOrder
    <3>3. QED BY <2>2, <2>4, <3>2
  <2>5. QED BY <1>0, <1>1, <1>2, <2>3, <2>4 DEF PipeTypeOK
<1>14. OrderInv'
  BY <1>0, <1>1, <1>11, <1>13 DEF OrderInv
<1>15. QED BY <1>6, <1>9, <1>12, <1>14 DEF PipeInv
-----------------------------------------------------------------------------
\* The two programs

\* read_pipe and parent_pipe: what is printed of a buffer is what the loop made of it.
LEMMA ReadThenKeeps ==
  ASSUME PipeInv, NEW p \in Peer, pc[p] # "ended",
         NEW l \in Labels \ {"open_input", "open_output"}, ReadThen(p, l), UNCHANGED writing
  PROVE  PipeInv'
<1>0. PipeTypeOK /\ EventsInv
  BY DEF PipeInv
<1>1. pipe[p] # <<>> /\ pipe[p] \in Seq(Unit)
  BY <1>0 DEF ReadThen, EventsInv, PipeTypeOK
<1>2. /\ pipe' = [pipe EXCEPT ![p] = Left(@)] /\ revents' = [revents EXCEPT ![p] = {}]
      /\ UNCHANGED <<had_writer, sent, paced>> /\ writing' \in [Peer -> Text]
  BY <1>0 DEF ReadThen, PipeTypeOK
<1>3. ASSUME NEW text \in Decoded(Taken(pipe[p])), printed' = [printed EXCEPT ![p] = @ \o text],
             Goto(p, l)
      PROVE  PipeInv'
  <2>1. \A m \in Text : Taken(pipe[p]) = Frame(m) => text = <<m>>
    BY FrameIsRead
  <2>2. text \in Decoded(Taken(pipe[p])) \cup {<<>>, <<Garbage>>}
    OBVIOUS
  <2>3. UNCHANGED how /\ pc' = [pc EXCEPT ![p] = l]
    BY <1>3 DEF Goto
  <2>4. QED BY <1>1, <1>2, <1>3, <2>1, <2>2, <2>3, ReadKeeps
<1>4. CASE MayCrash(Taken(pipe[p])) /\ End(p, "crashed") /\ UNCHANGED printed
  <2>1. \A m \in Text : Taken(pipe[p]) # Frame(m)
    BY <1>4, FrameIsRead
  <2>2. "ended" \in Labels \ {"open_input", "open_output"}
    BY DEF Labels
  <2>3. printed' = [printed EXCEPT ![p] = @ \o <<>>]
    <3>1. printed[p] \o <<>> = printed[p]
      BY <1>0, ConcatEmptySeq DEF PipeTypeOK
    <3>2. QED BY <1>0, <1>4, <3>1 DEF PipeTypeOK
  <2>4. QED BY <1>1, <1>2, <1>4, <2>1, <2>2, <2>3, ReadKeeps DEF End
<1>5. QED BY <1>3, <1>4 DEF ReadThen

\* Every step over named pipes keeps the invariant.
LEMMA NamedKeeps == PipeInv /\ NamedNext => PipeInv'
<1> SUFFICES ASSUME PipeInv, NEW p \in Peer, OpenInput(p) \/ OpenOutput(p) \/ Loop(p),
                    UNCHANGED writing
             PROVE  PipeInv'
  BY DEF NamedNext, run_named_pipe
<1>0. PipeTypeOK /\ EventsInv /\ PacedInv /\ OrderInv /\ writing' \in [Peer -> Text]
  BY DEF PipeInv, PipeTypeOK
<1> USE DEF Labels, Looping, Reasons, ChildLabels
<1>1. CASE OpenInput(p)
  <2>1. /\ pc[p] = "open_input" /\ pc' = [pc EXCEPT ![p] = "open_output"]
        /\ UNCHANGED <<how, pipe, had_writer, revents, sent, printed, paced>>
    BY <1>1 DEF OpenInput, Goto
  <2>2. ~ had_writer[Other(p)]
    BY <1>0, <2>1, TwoPeers DEF EventsInv
  <2>3. QED BY <1>0, <2>1, <2>2, MoveKeeps
<1>2. CASE OpenOutput(p)
  <2>1. /\ pc[p] = "open_output" /\ pc' = [pc EXCEPT ![p] = "poll"]
        /\ had_writer' = [had_writer EXCEPT ![Other(p)] = TRUE]
        /\ UNCHANGED <<how, pipe, revents, sent, printed, paced>>
    BY <1>2 DEF OpenOutput, Goto
  <2>2. PipeTypeOK'
    BY <1>0, <2>1, TwoPeers DEF PipeTypeOK
  <2>3. \A q \in Peer : /\ pc'[q] = IF q = p THEN "poll" ELSE pc[q]
                        /\ q # Other(p) => had_writer'[q] = had_writer[q]
                        /\ Other(q) = p <=> q = Other(p)
    BY <1>0, <2>1, TwoPeers DEF PipeTypeOK
  <2>4. how[p] # "hang_up" /\ "POLLHUP" \notin revents[Other(p)]
    BY <1>0, <2>1, TwoPeers DEF EventsInv
  <2>5. EventsInv'
    <3> SUFFICES ASSUME NEW q \in Peer
                 PROVE  /\ had_writer'[q] => pc'[Other(q)] \notin {"open_input", "open_output"}
                        /\ "POLLIN" \in revents[q] => pipe[q] # <<>>
                        /\ "POLLHUP" \in revents[q] => pc'[Other(q)] = "ended"
                        /\ "POLLHUP" \in revents[q] /\ "POLLIN" \notin revents[q] => pipe[q] = <<>>
                        /\ pc'[q] \in {"read_stdin", "look_for_hang_up"} => "POLLIN" \notin revents[q]
                        /\ pc'[q] \in ChildLabels => revents[q] = {}
                        /\ how[q] = "hang_up" => pc'[q] = "ended" /\ pipe[q] = <<>>
      BY <2>1, TwoPeers DEF EventsInv
    <3>1. CASE q = p
      BY <1>0, <2>3, <2>4, <3>1, TwoPeers DEF EventsInv
    <3>2. CASE q = Other(p)
      BY <1>0, <2>3, <2>4, <3>2, TwoPeers DEF EventsInv
    <3>3. QED BY <3>1, <3>2, TwoPeers
  <2>6. PacedInv' /\ OrderInv'
    BY <1>0, <2>1 DEF PacedInv, OrderInv
  <2>7. QED BY <2>2, <2>5, <2>6 DEF PipeInv
<1>3. CASE Poll(p)
  BY <1>3, PollKeeps DEF Poll
<1>4. CASE ReadPipe(p)
  BY <1>4, ReadThenKeeps DEF ReadPipe
<1>5. CASE NothingToRead(p)
  BY <1>0, <1>5, MoveKeeps DEF NothingToRead, Goto
<1>6. CASE ReadStdin(p)
  <2>1. CASE /\ HasReader(Other(p)) /\ \E m \in Msg : Write(p, Other(p), m)
             /\ Goto(p, "look_for_hang_up")
    BY <1>0, <1>6, <2>1, WriteKeeps DEF ReadStdin, Goto, HasReader, Text
  <2>2. CASE End(p, "SIGPIPE") /\ UNCHANGED <<pipe, sent, paced>>
    BY <1>0, <1>6, <2>2, MoveKeeps DEF ReadStdin, End
  <2>3. QED BY <1>6, <2>1, <2>2 DEF ReadStdin
<1>7. CASE NothingTyped(p)
  <2>1. "POLLIN" \notin revents[p]
    BY <1>0, <1>7 DEF NothingTyped, EventsInv
  <2>2. QED BY <1>0, <1>7, <2>1, MoveKeeps DEF NothingTyped, Goto
<1>8. CASE LookForHangUp(p)
  <2>1. CASE "POLLHUP" \in revents[p]
    <3>1. pipe[p] = <<>>
      BY <1>0, <1>8, <2>1 DEF LookForHangUp, EventsInv
    <3>2. QED BY <1>0, <1>8, <2>1, <3>1, MoveKeeps DEF LookForHangUp, End
  <2>2. CASE "POLLHUP" \notin revents[p]
    BY <1>0, <1>8, <2>2, MoveKeeps DEF LookForHangUp, Goto
  <2>3. QED BY <2>1, <2>2
<1>9. QED BY <1>1, <1>2, <1>3, <1>4, <1>5, <1>6, <1>7, <1>8 DEF Loop

\* So does the end of a program at any step.
LEMMA KillKeeps == PipeInv /\ KillNext => PipeInv'
<1> SUFFICES ASSUME PipeInv, NEW p \in Peer, Kill(p), UNCHANGED writing PROVE PipeInv'
  BY DEF KillNext
<1>1. /\ pc[p] # "ended" /\ pc' = [pc EXCEPT ![p] = "ended"]
      /\ how' = [how EXCEPT ![p] = "killed"] /\ "ended" \in Labels /\ "killed" \in Reasons
      /\ UNCHANGED <<pipe, had_writer, revents, sent, printed, paced>>
  BY DEF Kill, End, Labels, Reasons
<1>2. writing' \in [Peer -> Text]
  BY DEF PipeInv, PipeTypeOK
<1>3. QED BY <1>1, <1>2, MoveKeeps DEF ChildLabels

\* A write() that waits for room.
LEMMA WriteThenKeeps ==
  ASSUME PipeInv, NEW p \in Peer, NEW l \in {"child_poll", "parent_pipe"}, WriteThen(p, l),
         pc[p] \in {"child_write", "parent_write"}, l = "child_poll" => pc[p] = "child_write"
  PROVE  PipeInv'
<1>0. PipeTypeOK /\ writing[p] \in Text /\ writing' = writing
  BY DEF PipeInv, PipeTypeOK, WriteThen
<1>1. CASE End(p, "SIGPIPE") /\ UNCHANGED <<pipe, sent, paced>>
  BY <1>0, <1>1, MoveKeeps
     DEF WriteThen, End, Labels, Reasons, Looping, ChildLabels, PipeTypeOK
<1>2. CASE ~ NoReader(p) /\ Write(p, Other(p), writing[p]) /\ Goto(p, l)
  BY <1>0, <1>2, WriteKeeps DEF WriteThen, NoReader, Goto
<1>3. QED BY <1>1, <1>2 DEF WriteThen

\* The child prints, and will send back, the first message of its buffer.
LEMMA ChildReadKeeps == PipeInv /\ ChildRead => PipeInv'
<1> SUFFICES ASSUME PipeInv, ChildRead PROVE PipeInv'
  OBVIOUS
<1> DEFINE buff == Taken(pipe[child])
<1>0. PipeTypeOK /\ EventsInv /\ child \in Peer
  BY TwoPeers DEF PipeInv
<1>1. /\ pc[child] = "child_poll" /\ buff # <<>>
      /\ pipe' = [pipe EXCEPT ![child] = Left(@)]
      /\ UNCHANGED <<had_writer, revents, sent, paced>>
  BY DEF ChildRead
<1>2. revents[child] = {} /\ revents' = [revents EXCEPT ![child] = {}]
  BY <1>0, <1>1 DEF EventsInv, PipeTypeOK, ChildLabels
<1>3. pipe[child] \in Seq(Unit) /\ pipe[child] # <<>>
  <2>1. pipe[child] \in Seq(Unit)
    BY <1>0 DEF PipeTypeOK
  <2>2. pipe[child] = <<>> => buff = <<>>
    BY FrameAssumption, SubSeqProperties DEF Taken
  <2>3. QED BY <1>1, <2>1, <2>2
<1>4. buff[1].msg \in Text /\ Garbage \in Text
  BY <1>3, StreamIsRead DEF Text
<1>5. ASSUME NEW m \in Text, m = IF Framed(buff) THEN buff[1].msg ELSE Garbage,
             printed' = [printed EXCEPT ![child] = Append(@, m)],
             writing' = [writing EXCEPT ![child] = m], Goto(child, "child_write")
      PROVE  PipeInv'
  <2>1. printed' = [printed EXCEPT ![child] = @ \o <<m>>]
    <3>1. printed[child] \in Seq(Text)
      BY <1>0 DEF PipeTypeOK
    <3>2. Append(printed[child], m) = printed[child] \o <<m>>
      BY <3>1, AppendIsConcat
    <3>3. printed' = [printed EXCEPT ![child] = Append(printed[child], m)]
      BY <1>5
    <3>4. printed' = [printed EXCEPT ![child] = printed[child] \o <<m>>]
      BY <3>2, <3>3, Zenon
    <3>5. QED BY <3>4
  <2>2. \A m2 \in Text : buff = Frame(m2) => <<m>> = <<m2>>
    BY <1>5, FrameIsRead
  <2>3. writing' \in [Peer -> Text]
    BY <1>0, <1>5 DEF PipeTypeOK
  <2>4. "child_write" \in Labels \ {"open_input", "open_output"}
    BY DEF Labels, ChildLabels
  <2>5. UNCHANGED how /\ pc' = [pc EXCEPT ![child] = "child_write"]
    BY <1>5 DEF Goto
  <2>6. <<m>> \in Decoded(buff) \cup {<<>>, <<Garbage>>}
    <3>1. CASE Framed(buff)
      <4>1. <<m>> \o <<>> = <<m>>
        OBVIOUS
      <4>2. <<m>> \o <<>> \in Decoded(buff)
        BY <1>5, <3>1 DEF Decoded
      <4>3. QED BY <4>1, <4>2
    <3>2. QED BY <1>5, <3>1
  <2>7. QED BY <1>0, <1>1, <1>2, <1>3, <2>1, <2>2, <2>3, <2>4, <2>5, <2>6, ReadKeeps
<1>6. CASE ~ Framed(buff) /\ End(child, "crashed") /\ UNCHANGED <<printed, writing>>
  <2>1. \A m \in Text : buff # Frame(m)
    BY <1>6, FrameIsRead
  <2>2. "ended" \in Labels \ {"open_input", "open_output"}
    BY DEF Labels
  <2>3. printed' = [printed EXCEPT ![child] = @ \o <<>>]
    <3>1. printed[child] \o <<>> = printed[child]
      BY <1>0, ConcatEmptySeq DEF PipeTypeOK
    <3>2. QED BY <1>0, <1>6, <3>1 DEF PipeTypeOK
  <2>4. writing' \in [Peer -> Text]
    BY <1>0, <1>6 DEF PipeTypeOK
  <2>5. how' = [how EXCEPT ![child] = "crashed"] /\ pc' = [pc EXCEPT ![child] = "ended"]
    BY <1>6 DEF End
  <2>6. QED BY <1>0, <1>1, <1>2, <1>3, <2>1, <2>2, <2>3, <2>4, <2>5, ReadKeeps
<1>7. QED BY <1>4, <1>5, <1>6 DEF ChildRead

\* The handler ends both processes, and touches no pipe.
LEMMA HandlerKeeps == PipeInv /\ handler => PipeInv'
<1> SUFFICES ASSUME PipeInv, handler PROVE PipeInv'
  OBVIOUS
<1>0. PipeTypeOK /\ EventsInv /\ PacedInv /\ OrderInv
  BY DEF PipeInv
<1>1. /\ pc' = [p \in Peer |-> "ended"]
      /\ how' = [p \in Peer |-> IF pc[p] = "ended" THEN how[p] ELSE "killed"]
      /\ UNCHANGED <<pipe, had_writer, revents, sent, printed, paced, writing>>
  BY DEF handler
<1>2. PipeTypeOK'
  BY <1>0, <1>1 DEF PipeTypeOK
<1>3. EventsInv'
  BY <1>0, <1>1, TwoPeers DEF EventsInv, ChildLabels
<1>4. PacedInv' /\ OrderInv'
  BY <1>0, <1>1 DEF PacedInv, OrderInv
<1>5. QED BY <1>2, <1>3, <1>4 DEF PipeInv

\* So does every step of the parent and of the child.
LEMMA ForkKeeps == PipeInv /\ ForkNext => PipeInv'
<1> SUFFICES ASSUME PipeInv, ForkNext PROVE PipeInv'
  OBVIOUS
<1>0. PipeTypeOK /\ EventsInv /\ parent \in Peer /\ child \in Peer
  BY TwoPeers DEF PipeInv
<1> USE DEF Labels, ParentLabels, Looping, ChildLabels, Reasons
<1>1. ASSUME NEW l \in ParentLabels, pc[parent] \in ParentLabels, Goto(parent, l),
             UNCHANGED <<pipe, had_writer, revents, sent, printed, paced>>,
             writing' \in [Peer -> Text]
      PROVE  PipeInv'
  BY <1>0, <1>1, MoveKeeps DEF Goto
<1>2. writing \in [Peer -> Text] /\ Msg \subseteq Text
  BY <1>0 DEF PipeTypeOK, Text
<1>3. CASE child_process
  BY <1>0, <1>3, ChildReadKeeps, WriteThenKeeps DEF child_process, ChildWrite
<1>4. CASE InstallHandlers \/ ParentSkips
  BY <1>1, <1>2, <1>4 DEF InstallHandlers, ParentSkips, GotoOnly
<1>5. CASE ParentPoll
  BY <1>0, <1>5, PollKeeps DEF ParentPoll
<1>6. CASE ParentStdin
  <2>1. ASSUME NEW m \in NextLines, writing' = [writing EXCEPT ![parent] = m],
               Goto(parent, "parent_write")
        PROVE  writing' \in [Peer -> Text]
    <3>1. PICK d \in Dialog : m = d[Len(sent[parent]) + 1] /\ Len(d) > Len(sent[parent])
      BY <2>1 DEF NextLines
    <3>2. d \in Seq(Msg) /\ Len(sent[parent]) \in Nat /\ Len(d) \in Nat
      BY <1>0, <3>1, ForkAssumption DEF PipeTypeOK
    <3>3. m \in Msg
      BY <3>1, <3>2, ElementOfSeq
    <3>4. QED BY <1>2, <2>1, <3>3
  <2>2. writing' \in [Peer -> Text]
    BY <1>2, <1>6, <2>1 DEF ParentStdin
  <2>3. QED BY <1>1, <1>6, <2>2 DEF ParentStdin
<1>7. CASE ParentWrite
  BY <1>0, <1>7, WriteThenKeeps DEF ParentWrite
<1>8. CASE ParentPipe
  BY <1>0, <1>8, ReadThenKeeps DEF ParentPipe
<1>9. CASE handler
  BY <1>9, HandlerKeeps
<1>10. QED BY <1>3, <1>4, <1>5, <1>6, <1>7, <1>8, <1>9 DEF ForkNext, parent_process

\* The invariant holds when the program starts, over either kind of pipe.
LEMMA RunStarts == run => PipeInv
<1> SUFFICES ASSUME run PROVE PipeInv
  OBVIOUS
<1>1. /\ pc \in [Peer -> {"open_input", "signal_SIGTERM", "child_poll"}]
      /\ how = [p \in Peer |-> "running"]
      /\ pipe = [p \in Peer |-> <<>>] /\ had_writer = [p \in Peer |-> FALSE]
      /\ revents = [p \in Peer |-> {}]
      /\ sent = [p \in Peer |-> <<>>] /\ printed = [p \in Peer |-> <<>>]
      /\ paced = [p \in Peer |-> TRUE] /\ writing = [p \in Peer |-> Garbage]
  BY DEF run, Init, ForkInit
<1>2. <<>> \in Seq(Unit) /\ <<>> \in Seq(Text)
  OBVIOUS
<1>3. PipeTypeOK
  BY <1>1, <1>2 DEF PipeTypeOK, ParentLabels, ChildLabels, Text
<1>4. EventsInv
  BY <1>1, TwoPeers DEF EventsInv
<1>5. PacedInv
  BY <1>1, TwoPeers DEF PacedInv
<1>6. OrderInv
  BY <1>1, TwoPeers, NothingInOrder DEF OrderInv
<1>7. QED BY <1>3, <1>4, <1>5, <1>6 DEF PipeInv

\* Both ways to start the program, with messages, reads and pipes of any size.
THEOREM PipeInvariant == ProgramSpec => []PipeInv
<1>1. PipeInv /\ UNCHANGED program_vars => PipeInv'
  BY DEF PipeInv, PipeTypeOK, EventsInv, PacedInv, OrderInv, program_vars, vars
<1>2. PipeInv /\ [ProgramNext]_program_vars => PipeInv'
  BY <1>1, NamedKeeps, KillKeeps, ForkKeeps DEF ProgramNext
<1>3. QED BY <1>2, RunStarts, PTL DEF ProgramSpec

\* Who leaves because of a hang-up has read all that was written to it.
THEOREM DrainedAtHangUpCorrect == ProgramSpec => []DrainedAtHangUp
<1>1. PipeInv => DrainedAtHangUp
  BY DEF PipeInv, EventsInv, DrainedAtHangUp
<1>2. QED BY <1>1, PipeInvariant, PTL

\* A conversation in which nobody writes while something waits loses nothing and
\* makes nothing up, whatever the sizes of its messages.
THEOREM PacedIsWholeCorrect == ProgramSpec => []PacedIsWhole
<1>1. PipeInv => PacedIsWhole
  BY FrameIsRead DEF PipeInv, PacedInv, PacedIsWhole
<1>2. QED BY <1>1, PipeInvariant, PTL

\* Over either kind of pipe, whatever waits there and whatever the pipe has no room
\* for: no message is printed twice, and none before one that was sent earlier.
THEOREM PrintedInOrderCorrect == ProgramSpec => []PrintedInOrder
<1>1. PipeInv => PrintedInOrder
  <2> SUFFICES ASSUME PipeInv, NEW p \in Peer PROVE InOrder(printed[p], sent[Other(p)])
    BY DEF PrintedInOrder
  <2>1. /\ printed[p] \in Seq(Text) /\ pipe[p] \in Seq(Unit) /\ sent[Other(p)] \in Seq(Text)
        /\ InOrder(Through(printed[p], pipe[p]), sent[Other(p)])
    BY TwoPeers DEF PipeInv, PipeTypeOK, OrderInv
  <2>2. QED BY <2>1, PrintedOfThrough
<1>2. QED BY <1>1, PipeInvariant, PTL
=============================================================================
