----------------------------- MODULE ChatFrames -----------------------------
(***************************************************************************)
(* The messages of the chats (hw1_task2, hw1_task3) on the wire: a length, *)
(* then the text.  A byte stream is a sequence of units; a frame is as     *)
(* many of them as its Size says, and one read() takes READ_UNITS at most, *)
(* which any frame fits (string_create asserts it).                        *)
(***************************************************************************)
EXTENDS Naturals, Sequences

CONSTANTS Msg,
          Size,             \* units the frame of a message takes
          READ_UNITS,       \* units of the buffer (4099 bytes)
          Garbage           \* what is printed of memory nobody wrote

ASSUME FrameAssumption == /\ READ_UNITS \in Nat \ {0}
                          /\ Size \in [Msg \cup {Garbage} -> 1..READ_UNITS]
                          /\ Garbage \notin Msg

Unit == [msg : Msg \cup {Garbage}, part : 1..READ_UNITS]

\* What string_serialize_to_buffer leaves to be written.
Frame(m) == [i \in 1..Size[m] |-> [msg |-> m, part |-> i]]

\* Mutant: the buffer is too small for the longest frame.
Taken_Short(stream) ==
  SubSeq(stream, 1, IF Len(stream) < READ_UNITS - 1 THEN Len(stream) ELSE READ_UNITS - 1)

\* What one read() takes of a stream, and what it leaves.
Taken(stream) == SubSeq(stream, 1, IF Len(stream) < READ_UNITS THEN Len(stream)
                                                                ELSE READ_UNITS)
Left(stream) == SubSeq(stream, Len(Taken(stream)) + 1, Len(stream))

\* Does a buffer start with a frame?  If not, eight bytes of a text are taken
\* for its length.
Framed(buff) == buff[1].part = 1

\* What is left of a buffer behind its first frame.
Rest(buff) == Len(buff) - Size[buff[1].msg]

\* Mutant: the loop does not move on in the buffer.
Decoded_Again(buff) ==
  IF ~ Framed(buff) THEN {<<>>, <<Garbage>>}
  ELSE {<<buff[1].msg>> \o s : s \in IF Rest(buff) > 0 THEN {<<buff[1].msg>>} ELSE {<<>>}}

\* What the loop over a buffer can print: its first frame.  Then the buffer is
\* cleared, so that what was behind that frame is lost: it counts as frames of
\* no length, whose text is memory nobody wrote.
Decoded(buff) ==
  IF ~ Framed(buff) THEN {<<>>, <<Garbage>>}
  ELSE {<<buff[1].msg>> \o s : s \in IF Rest(buff) > 0 THEN {<<>>, <<Garbage>>} ELSE {<<>>}}

\* Can the loop crash?  A text taken for a length asks malloc for too much; so
\* do the bytes behind a full buffer, when the loop runs to the end of it.
MayCrash(buff) == \/ ~ Framed(buff)
                  \/ Len(buff) = READ_UNITS /\ Rest(buff) > 0

\* Where a message was printed, and not garbage.
Legible(printed) == {at \in DOMAIN printed : printed[at] # Garbage}

\* The messages printed are some of those sent, each once and in their order.
InOrder(printed, sent) ==
  \E place \in [Legible(printed) -> DOMAIN sent] :
     /\ \A i \in Legible(printed) : printed[i] = sent[place[i]]
     /\ \A i, j \in Legible(printed) : i < j => place[i] < place[j]
=============================================================================
