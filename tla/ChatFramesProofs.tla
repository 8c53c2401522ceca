-------------------------- MODULE ChatFramesProofs --------------------------
(***************************************************************************)
(* Lemmas on what the chats put on the wire and what their loops make of a *)
(* buffer, for messages and buffers of any size.  The order of what was    *)
(* printed is kept together with that of the frames that are still on the  *)
(* way: both as one sequence, of which reading takes something out, and to *)
(* which writing adds at the end.                                          *)
(***************************************************************************)
EXTENDS ChatFrames, SequenceTheorems, TLAPS

Text == Msg \cup {Garbage}

\* The message whose frame starts at each unit of a stream, if one does.
Starts(stream) ==
  [at \in DOMAIN stream |-> IF stream[at].part = 1 THEN stream[at].msg ELSE Garbage]

\* What was printed, and then what is on the way.
Through(done, stream) == done \o Starts(stream)
-----------------------------------------------------------------------------
\* The frame of a message is read whole, and nothing but the message is made of it.
LEMMA FrameIsRead ==
  ASSUME NEW m \in Text
  PROVE  /\ Frame(m) \in Seq(Unit) /\ Frame(m) # <<>> /\ Len(Frame(m)) = Size[m]
         /\ Size[m] \in 1..READ_UNITS
         /\ Taken(Frame(m)) = Frame(m) /\ Left(Frame(m)) = <<>>
         /\ Decoded(Frame(m)) = {<<m>>} /\ ~ MayCrash(Frame(m))
         /\ Framed(Frame(m)) /\ Frame(m)[1].msg = m
<1>1. Size[m] \in 1..READ_UNITS /\ READ_UNITS \in Nat
  BY FrameAssumption DEF Text
<1>2. Frame(m) \in Seq(Unit) /\ Len(Frame(m)) = Size[m]
  <2>1. \A k \in 1..Size[m] : [msg |-> m, part |-> k] \in Unit
    BY <1>1 DEF Unit, Text
  <2>2. Frame(m) \in [1..Size[m] -> Unit] /\ DOMAIN Frame(m) = 1..Size[m]
    BY <2>1 DEF Frame
  <2>3. Frame(m) \in Seq(Unit)
    BY <1>1, <2>2, SeqDef
  <2>4. QED BY <1>1, <2>2, <2>3, LenProperties
<1>3. Frame(m)[1] = [msg |-> m, part |-> 1]
  BY <1>1 DEF Frame
<1>4. Frame(m) # <<>>
  BY <1>1, <1>2
<1>5. Taken(Frame(m)) = Frame(m)
  <2>1. Taken(Frame(m)) = SubSeq(Frame(m), 1, Len(Frame(m)))
    BY <1>1, <1>2 DEF Taken
  <2>2. QED BY <1>2, <2>1
<1>6. Left(Frame(m)) = <<>>
  <2>1. Left(Frame(m)) = SubSeq(Frame(m), Len(Frame(m)) + 1, Len(Frame(m)))
    BY <1>5 DEF Left
  <2>2. QED BY <1>1, <1>2, <2>1, SubSeqProperties
<1>7. Framed(Frame(m)) /\ Rest(Frame(m)) = 0
  BY <1>1, <1>2, <1>3 DEF Framed, Rest
<1>8. Decoded(Frame(m)) = {<<m>>}
  <2>1. Decoded(Frame(m)) = {<<m>> \o s : s \in {<<>>}}
    BY <1>3, <1>7 DEF Decoded
  <2>2. <<m>> \o <<>> = <<m>>
    OBVIOUS
  <2>3. QED BY <2>1, <2>2
<1>9. ~ MayCrash(Frame(m))
  BY <1>7 DEF MayCrash
<1>10. QED BY <1>1, <1>2, <1>3, <1>4, <1>5, <1>6, <1>7, <1>8, <1>9

\* Whatever is read, the rest of the stream is a stream, and texts are printed.
LEMMA StreamIsRead ==
  ASSUME NEW stream \in Seq(Unit)
  PROVE  /\ Left(stream) \in Seq(Unit)
         /\ Taken(stream) \in Seq(Unit)
         /\ stream # <<>> => /\ Taken(stream) # <<>> /\ Taken(stream)[1].msg \in Text
                             /\ \A text \in Decoded(Taken(stream)) : text \in Seq(Text)
<1> DEFINE k == IF Len(stream) < READ_UNITS THEN Len(stream) ELSE READ_UNITS
<1>1. k \in 0..Len(stream) /\ (Len(stream) > 0 => k > 0) /\ Len(stream) \in Nat
  BY FrameAssumption
<1>2. Taken(stream) = SubSeq(stream, 1, k)
  BY DEF Taken
<1> HIDE DEF k
<1>3. Taken(stream) \in Seq(Unit) /\ Len(Taken(stream)) = k
  BY <1>1, <1>2, SubSeqProperties
<1>4. Left(stream) \in Seq(Unit)
  BY <1>1, <1>3, SubSeqProperties DEF Left
<1>5. ASSUME stream # <<>>
      PROVE  /\ Taken(stream) # <<>> /\ Taken(stream)[1].msg \in Text
             /\ \A text \in Decoded(Taken(stream)) : text \in Seq(Text)
  <2>1. k > 0
    BY <1>1, <1>5, EmptySeq
  <2>2. Taken(stream)[1] \in Unit /\ Taken(stream) # <<>>
    BY <1>1, <1>3, <2>1
  <2>3. Taken(stream)[1].msg \in Text
    BY <2>2 DEF Unit, Text
  <2>4. <<>> \in Seq(Text) /\ <<Garbage>> \in Seq(Text)
        /\ <<Taken(stream)[1].msg>> \in Seq(Text)
    BY <2>3 DEF Text
  <2>5. ASSUME NEW text \in Decoded(Taken(stream)) PROVE text \in Seq(Text)
    <3>1. \/ text \in {<<>>, <<Garbage>>}
          \/ \E s \in {<<>>, <<Garbage>>} : text = <<Taken(stream)[1].msg>> \o s
      BY <2>5 DEF Decoded
    <3>2. CASE text \in {<<>>, <<Garbage>>}
      BY <2>4, <3>2
    <3>3. ASSUME NEW s \in {<<>>, <<Garbage>>}, text = <<Taken(stream)[1].msg>> \o s
          PROVE  text \in Seq(Text)
      <4>1. s \in Seq(Text)
        BY <2>4
      <4>2. QED BY <2>4, <3>3, <4>1, ConcatProperties
    <3>4. QED BY <3>1, <3>2, <3>3
  <2>6. QED BY <2>2, <2>3, <2>5
<1>6. QED BY <1>3, <1>4, <1>5
-----------------------------------------------------------------------------
\* Order

\* Where the frames of a stream start, and of which message they are.
LEMMA StartsOf ==
  ASSUME NEW stream \in Seq(Unit)
  PROVE  /\ Starts(stream) \in Seq(Text) /\ Len(Starts(stream)) = Len(stream)
         /\ \A at \in 1..Len(stream) :
              Starts(stream)[at] = IF stream[at].part = 1 THEN stream[at].msg ELSE Garbage
<1>1. DOMAIN stream = 1..Len(stream) /\ Len(stream) \in Nat
  OBVIOUS
<1>2. \A at \in 1..Len(stream) : stream[at].msg \in Text
  <2>1. \A at \in 1..Len(stream) : stream[at] \in Unit
    BY <1>1, ElementOfSeq
  <2>2. QED BY <2>1 DEF Unit, Text
<1>3. Starts(stream) \in [1..Len(stream) -> Text]
  BY <1>1, <1>2 DEF Starts, Text
<1>4. Starts(stream) \in Seq(Text)
  BY <1>1, <1>3, SeqDef
<1>5. DOMAIN Starts(stream) = 1..Len(stream)
  BY <1>3
<1>6. Len(Starts(stream)) = Len(stream)
  BY <1>1, <1>4, <1>5, LenProperties
<1>7. QED BY <1>1, <1>4, <1>6 DEF Starts

\* What is in order stays so when some of it is left out.
LEMMA Thinned ==
  ASSUME NEW s, NEW t, NEW sent, InOrder(s, sent),
         NEW of \in [Legible(t) -> Legible(s)],
         Legible(s) \subseteq Nat, Legible(t) \subseteq Nat, DOMAIN sent \subseteq Nat,
         \A i \in Legible(t) : t[i] = s[of[i]],
         \A i, j \in Legible(t) : i < j => of[i] < of[j]
  PROVE  InOrder(t, sent)
<1>1. PICK place \in [Legible(s) -> DOMAIN sent] :
        /\ \A i \in Legible(s) : s[i] = sent[place[i]]
        /\ \A i, j \in Legible(s) : i < j => place[i] < place[j]
  BY DEF InOrder
<1> DEFINE new == [i \in Legible(t) |-> place[of[i]]]
<1>2. new \in [Legible(t) -> DOMAIN sent]
  OBVIOUS
<1>3. \A i \in Legible(t) : t[i] = sent[new[i]]
  BY <1>1
<1>4. \A i, j \in Legible(t) : i < j => new[i] < new[j]
  BY <1>1
<1>5. QED BY <1>2, <1>3, <1>4 DEF InOrder

\* What was sent may go on.
LEMMA SentInOrder ==
  ASSUME NEW s \in Seq(Text), NEW sent \in Seq(Text), NEW m \in Text, InOrder(s, sent)
  PROVE  InOrder(s, Append(sent, m))
<1>1. PICK place \in [Legible(s) -> DOMAIN sent] :
        /\ \A i \in Legible(s) : s[i] = sent[place[i]]
        /\ \A i, j \in Legible(s) : i < j => place[i] < place[j]
  BY DEF InOrder
<1>2. /\ DOMAIN sent \subseteq DOMAIN Append(sent, m)
      /\ \A k \in DOMAIN sent : Append(sent, m)[k] = sent[k]
  BY AppendProperties
<1>3. place \in [Legible(s) -> DOMAIN Append(sent, m)]
  BY <1>2
<1>4. QED BY <1>1, <1>2, <1>3 DEF InOrder

\* The elements of what was printed and is on the way.
LEMMA ThroughOf ==
  ASSUME NEW done \in Seq(Text), NEW stream \in Seq(Unit)
  PROVE  /\ Through(done, stream) \in Seq(Text)
         /\ Len(Through(done, stream)) = Len(done) + Len(stream)
         /\ Legible(Through(done, stream)) \subseteq 1..(Len(done) + Len(stream))
         /\ \A i \in 1..(Len(done) + Len(stream)) :
              Through(done, stream)[i] =
                IF i <= Len(done) THEN done[i] ELSE Starts(stream)[i - Len(done)]
<1>1. Starts(stream) \in Seq(Text) /\ Len(Starts(stream)) = Len(stream)
  BY StartsOf
<1>2. /\ Through(done, stream) \in Seq(Text)
      /\ Len(Through(done, stream)) = Len(done) + Len(stream)
  <2>1. done \o Starts(stream) \in Seq(Text)
    BY <1>1
  <2>2. Len(done \o Starts(stream)) = Len(done) + Len(Starts(stream))
    BY <1>1
  <2>3. QED BY <1>1, <2>1, <2>2 DEF Through
<1>3. \A i \in 1..(Len(done) + Len(stream)) :
        Through(done, stream)[i] =
          IF i <= Len(done) THEN done[i] ELSE Starts(stream)[i - Len(done)]
  BY <1>1, ConcatProperties DEF Through
<1>4. DOMAIN Through(done, stream) = 1..(Len(done) + Len(stream))
  BY <1>2, LenProperties
<1>5. QED BY <1>2, <1>3, <1>4 DEF Legible

\* What the loop makes of a buffer: the message that starts it, at most, and garbage.
LEMMA DecodedIs ==
  ASSUME NEW stream \in Seq(Unit), stream # <<>>, NEW text \in Decoded(Taken(stream))
  PROVE  /\ text \in Seq(Text)
         /\ \A i \in 1..Len(text) :
              text[i] # Garbage => i = 1 /\ text[1] = Starts(stream)[1]
<1> DEFINE buff == Taken(stream)
<1>1. text \in Seq(Text)
  BY StreamIsRead
<1>2. Len(stream) \in Nat \ {0} /\ READ_UNITS \in Nat \ {0}
  BY FrameAssumption
<1>3. buff[1] = stream[1]
  BY <1>2 DEF Taken
<1>4. CASE text \in {<<>>, <<Garbage>>}
  <2>1. CASE text = <<>>
    BY <2>1
  <2>2. CASE text = <<Garbage>>
    <3>1. text \in Seq(Text) /\ Len(text) = 1 /\ text[1] = Garbage
      BY <2>2 DEF Text
    <3>2. QED BY <3>1
  <2>3. QED BY <1>4, <2>1, <2>2
<1>5. ASSUME Framed(buff), NEW s \in {<<>>, <<Garbage>>}, text = <<buff[1].msg>> \o s
      PROVE  \A i \in 1..Len(text) :
               text[i] # Garbage => i = 1 /\ text[1] = Starts(stream)[1]
  <2>1. Starts(stream)[1] = buff[1].msg
    BY <1>2, <1>3, <1>5, StartsOf DEF Framed
  <2> DEFINE first == buff[1].msg
  <2>2. first \in Text /\ Garbage \in Text
    BY StreamIsRead DEF Text
  <2> HIDE DEF first, buff
  <2>3. s \in Seq(Text) /\ Len(s) \in 0..1 /\ \A i \in 1..Len(s) : s[i] = Garbage
    <3>1. CASE s = <<>>
      BY <3>1
    <3>2. CASE s = <<Garbage>>
      BY <2>2, <3>2
    <3>3. QED BY <1>5, <3>1, <3>2
  <2>4. <<first>> \in Seq(Text) /\ Len(<<first>>) = 1 /\ <<first>>[1] = first
    BY <2>2
  <2>5. text = <<first>> \o s
    BY <1>5 DEF first
  <2>6. /\ Len(text) = 1 + Len(s)
        /\ \A i \in 1..(1 + Len(s)) : text[i] = IF i <= 1 THEN <<first>>[i] ELSE s[i - 1]
    BY <2>3, <2>4, <2>5, ConcatProperties
  <2>7. text[1] = first /\ \A i \in 1..Len(text) : i # 1 => text[i] = Garbage
    BY <2>3, <2>4, <2>6
  <2>8. QED BY <2>1, <2>7 DEF first
<1>6. CASE ~ Framed(buff)
  <2>1. text \in {<<>>, <<Garbage>>}
    BY <1>6 DEF Decoded
  <2>2. QED BY <1>1, <1>4, <2>1
<1>7. CASE Framed(buff)
  <2>1. PICK s \in {<<>>, <<Garbage>>} : text = <<buff[1].msg>> \o s
    BY <1>7 DEF Decoded
  <2>2. QED BY <1>1, <1>5, <1>7, <2>1
<1>8. QED BY <1>6, <1>7

\* Reading takes something out of the sequence: what was cleared away, a message
\* that could not be decrypted, and the pieces of the frame that was printed.
LEMMA ReadInOrder ==
  ASSUME NEW done \in Seq(Text), NEW stream \in Seq(Unit), stream # <<>>,
         NEW sent \in Seq(Text), InOrder(Through(done, stream), sent),
         NEW text \in Decoded(Taken(stream)) \cup {<<>>, <<Garbage>>}
  PROVE  InOrder(Through(done \o text, Left(stream)), sent)
<1> DEFINE k == Len(Taken(stream))
           d == Len(done)
           x == Len(text)
           n == Len(stream)
           rest == Left(stream)
           printed == done \o text
           s == Through(done, stream)
           t == Through(printed, rest)
           of == [i \in Legible(t) |-> IF i <= d THEN i
                                       ELSE IF i <= d + x THEN d + 1
                                       ELSE i - x + k]
<1>1. k \in 1..Len(stream) /\ Len(stream) \in Nat /\ Len(done) \in Nat
  <2>1. Len(stream) \in Nat \ {0} /\ READ_UNITS \in Nat \ {0}
    BY FrameAssumption
  <2>2. QED BY <2>1 DEF Taken
<1>2. /\ text \in Seq(Text) /\ Len(text) \in Nat
      /\ \A i \in 1..Len(text) : text[i] # Garbage => i = 1 /\ text[1] = Starts(stream)[1]
  <2>1. CASE text = <<>>
    BY <2>1
  <2>2. CASE text = <<Garbage>>
    <3>1. text \in Seq(Text) /\ Len(text) = 1 /\ text[1] = Garbage
      BY <2>2 DEF Text
    <3>2. QED BY <3>1
  <2>3. CASE text \in Decoded(Taken(stream))
    BY <2>3, DecodedIs
  <2>4. QED BY <2>1, <2>2, <2>3
<1>3. /\ printed \in Seq(Text) /\ Len(printed) = Len(done) + Len(text)
      /\ \A i \in 1..(Len(done) + Len(text)) :
            printed[i] = IF i <= Len(done) THEN done[i] ELSE text[i - Len(done)]
  BY <1>2, ConcatProperties
<1>4. /\ rest \in Seq(Unit) /\ Len(rest) = Len(stream) - k
      /\ \A i \in 1..(Len(stream) - k) : rest[i] = stream[k + i]
  <2>1. rest = SubSeq(stream, k + 1, Len(stream))
    BY DEF Left
  <2>2. k + 1 \in 1..(Len(stream) + 1)
    BY <1>1
  <2> HIDE DEF k, rest
  <2>3. QED BY <1>1, <2>1, <2>2, SubSeqProperties
<1> HIDE DEF k, d, x, n, rest, printed
<1>5. /\ k \in 1..n /\ n \in Nat /\ d \in Nat /\ x \in Nat
      /\ Len(printed) = d + x /\ Len(rest) = n - k
      /\ \A i \in 1..x : text[i] # Garbage => i = 1 /\ text[1] = Starts(stream)[1]
  BY <1>1, <1>2, <1>3, <1>4 DEF d, x, n
<1>6. /\ Legible(s) \subseteq 1..(d + n)
      /\ \A i \in 1..(d + n) : s[i] = IF i <= d THEN done[i] ELSE Starts(stream)[i - d]
      /\ DOMAIN s = 1..(d + n)
  <2>1. s \in Seq(Text) /\ Len(s) = d + n
    BY ThroughOf DEF d, n
  <2>2. QED BY <2>1, ThroughOf, LenProperties DEF d, n
<1>7. /\ Legible(t) \subseteq 1..(d + x + n - k)
      /\ \A i \in 1..(d + x + n - k) :
           t[i] = IF i <= d + x THEN printed[i] ELSE Starts(rest)[i - (d + x)]
  <2>1. Len(printed) + Len(rest) = d + x + n - k
    BY <1>5
  <2>2. /\ Legible(t) \subseteq 1..(Len(printed) + Len(rest))
        /\ \A i \in 1..(Len(printed) + Len(rest)) :
             t[i] = IF i <= Len(printed) THEN printed[i]
                                         ELSE Starts(rest)[i - Len(printed)]
    BY <1>3, <1>4, ThroughOf
  <2>3. QED BY <1>5, <2>1, <2>2
<1>8. \A i \in 1..(d + x) : printed[i] = IF i <= d THEN done[i] ELSE text[i - d]
  BY <1>3 DEF d, x
<1>9. \A i \in 1..(n - k) : Starts(rest)[i] = Starts(stream)[k + i]
  <2> SUFFICES ASSUME NEW i \in 1..(n - k)
               PROVE  Starts(rest)[i] = Starts(stream)[k + i]
    OBVIOUS
  <2>1. i \in 1..Len(rest) /\ k + i \in 1..Len(stream)
    BY <1>5 DEF n
  <2>2. rest[i] = stream[k + i]
    BY <1>4 DEF n
  <2>3. QED BY <1>4, <2>1, <2>2, StartsOf
<1>10. InOrder(s, sent)
  OBVIOUS
<1> HIDE DEF s, t
<1>11. /\ \A i \in Legible(t) : t[i] # Garbage
       /\ \A i \in 1..(d + n) : s[i] # Garbage => i \in Legible(s)
  BY <1>6 DEF Legible
<1>12. ASSUME NEW i \in Legible(t)
       PROVE  /\ i \in Nat
              /\ i <= d => i \in 1..(d + n) /\ t[i] = s[i]
              /\ i > d /\ i <= d + x => i = d + 1 /\ i \in 1..(d + n) /\ t[i] = s[i]
              /\ i > d + x => i - x + k \in 1..(d + n) /\ t[i] = s[i - x + k]
  <2>1. i \in 1..(d + x + n - k) /\ t[i] # Garbage
    BY <1>7, <1>11
  <2>2. CASE i <= d
    BY <1>5, <1>6, <1>7, <1>8, <2>1, <2>2
  <2>3. CASE i > d /\ i <= d + x
    <3>1. t[i] = text[i - d] /\ i - d \in 1..x
      BY <1>5, <1>7, <1>8, <2>1, <2>3
    <3>2. i - d = 1 /\ t[i] = Starts(stream)[1]
      BY <1>5, <2>1, <3>1
    <3>3. i = d + 1 /\ i \in 1..(d + n)
      BY <1>5, <2>1, <3>2
    <3>4. i \in Nat /\ ~ (i <= d)
      BY <1>5, <2>1, <2>3
    <3>5. s[i] = Starts(stream)[i - d]
      BY <1>6, <3>3, <3>4
    <3>6. QED BY <1>5, <2>3, <3>2, <3>3, <3>4, <3>5
  <2>4. CASE i > d + x
    <3>1. i - (d + x) \in 1..(n - k) /\ t[i] = Starts(rest)[i - (d + x)]
      BY <1>5, <1>7, <2>1, <2>4
    <3>2. t[i] = Starts(stream)[k + (i - (d + x))]
      BY <1>9, <3>1
    <3>3. /\ i - x + k \in 1..(d + n) /\ ~ (i - x + k <= d)
          /\ (i - x + k) - d = k + (i - (d + x))
      <4> HIDE <1>6
      <4>1. QED BY <1>5, <2>1, <2>4, <3>1
    <3>4. s[i - x + k] = Starts(stream)[(i - x + k) - d]
      BY <1>6, <3>3
    <3>5. QED BY <1>5, <2>1, <2>4, <3>2, <3>3, <3>4
  <2>5. QED BY <1>5, <2>1, <2>2, <2>3, <2>4
<1>13. \A i \in Legible(t) : of[i] \in Legible(s) /\ t[i] = s[of[i]]
  BY <1>5, <1>11, <1>12
<1>14. \A i, j \in Legible(t) : i < j => of[i] < of[j]
  BY <1>5, <1>12
<1>15. of \in [Legible(t) -> Legible(s)]
  BY <1>13
<1> HIDE DEF of
<1>16. Legible(s) \subseteq Nat /\ Legible(t) \subseteq Nat /\ DOMAIN sent \subseteq Nat
  BY <1>5, <1>6, <1>12
<1>17. InOrder(t, sent)
  BY <1>10, <1>13, <1>14, <1>15, <1>16, Thinned
<1>18. QED BY <1>17 DEF t, printed, rest

\* Writing adds the message at the end of both sequences, and pieces of its frame.
LEMMA WriteInOrder ==
  ASSUME NEW done \in Seq(Text), NEW stream \in Seq(Unit), NEW sent \in Seq(Text),
         InOrder(Through(done, stream), sent), NEW m \in Text
  PROVE  InOrder(Through(done, stream \o Frame(m)), Append(sent, m))
<1> DEFINE d == Len(done)
           n == Len(stream)
           z == Size[m]
           more == stream \o Frame(m)
           s == Through(done, stream)
           t == Through(done, more)
           u == Append(sent, m)
<1>1. d \in Nat /\ n \in Nat /\ z \in Nat \ {0} /\ Len(sent) \in Nat
  BY FrameIsRead, FrameAssumption
<1>2. /\ more \in Seq(Unit) /\ Len(more) = n + z
      /\ \A i \in 1..(n + z) : more[i] = IF i <= n THEN stream[i] ELSE Frame(m)[i - n]
  BY FrameIsRead, ConcatProperties
<1>3. \A i \in 1..z : Frame(m)[i] = [msg |-> m, part |-> i]
  BY DEF Frame
<1>4. /\ u \in Seq(Text) /\ Len(u) = Len(sent) + 1 /\ u[Len(sent) + 1] = m
      /\ \A i \in 1..Len(sent) : u[i] = sent[i]
      /\ DOMAIN u = 1..(Len(sent) + 1) /\ DOMAIN sent = 1..Len(sent)
  BY AppendProperties
<1>5. /\ Legible(s) \subseteq 1..(d + n) /\ DOMAIN s = 1..(d + n)
      /\ \A i \in 1..(d + n) : s[i] = IF i <= d THEN done[i] ELSE Starts(stream)[i - d]
  BY ThroughOf, LenProperties
<1>6. /\ Legible(t) \subseteq 1..(d + (n + z))
      /\ \A i \in 1..(d + (n + z)) : t[i] = IF i <= d THEN done[i] ELSE Starts(more)[i - d]
  <2> HIDE DEF more
  <2>1. QED BY <1>2, ThroughOf
<1>7. PICK place \in [Legible(s) -> DOMAIN sent] :
        /\ \A i \in Legible(s) : s[i] = sent[place[i]]
        /\ \A i, j \in Legible(s) : i < j => place[i] < place[j]
  BY DEF InOrder
<1>8. \A i \in 1..(n + z) :
        Starts(more)[i] = IF more[i].part = 1 THEN more[i].msg ELSE Garbage
  <2> HIDE DEF more
  <2>1. QED BY <1>2, StartsOf
<1> HIDE DEF d, n, z, more, s, t, u
<1>9. \A i \in 1..n : Starts(more)[i] = Starts(stream)[i]
  <2> SUFFICES ASSUME NEW i \in 1..n PROVE Starts(more)[i] = Starts(stream)[i]
    OBVIOUS
  <2>1. i \in 1..(n + z) /\ more[i] = stream[i]
    BY <1>1, <1>2
  <2>2. QED BY <1>8, <2>1, StartsOf DEF n
<1>10. \A i \in 1..z : Starts(more)[n + i] = IF i = 1 THEN m ELSE Garbage
  <2> SUFFICES ASSUME NEW i \in 1..z PROVE Starts(more)[n + i] = IF i = 1 THEN m ELSE Garbage
    OBVIOUS
  <2>1. n + i \in 1..(n + z) /\ ~ (n + i <= n) /\ (n + i) - n = i
    BY <1>1
  <2>2. more[n + i] = [msg |-> m, part |-> i]
    BY <1>2, <1>3, <2>1
  <2>3. QED BY <1>8, <2>1, <2>2
\* What was on the way is where it was, and behind it is the message.
<1>11. ASSUME NEW i \in Legible(t)
       PROVE  /\ i \in Nat
              /\ i <= d + n => i \in Legible(s) /\ t[i] = s[i]
              /\ i > d + n => i = d + n + 1 /\ t[i] = m
  <2>1. i \in 1..(d + (n + z)) /\ t[i] # Garbage
    BY <1>6 DEF Legible
  <2>2. CASE i <= d + n
    <3>1. i \in 1..(d + n)
      BY <1>1, <2>1, <2>2
    <3>2. t[i] = s[i]
      <4>1. CASE i <= d
        BY <1>5, <1>6, <2>1, <3>1, <4>1
      <4>2. CASE ~ (i <= d)
        <5>1. i - d \in 1..n
          BY <1>1, <3>1, <4>2
        <5>2. t[i] = Starts(more)[i - d] /\ s[i] = Starts(stream)[i - d]
          BY <1>5, <1>6, <2>1, <3>1, <4>2
        <5>3. QED BY <1>9, <5>1, <5>2
      <4>3. QED BY <4>1, <4>2
    <3>3. i \in Legible(s)
      BY <1>5, <2>1, <3>1, <3>2 DEF Legible
    <3>4. QED BY <1>1, <2>2, <3>1, <3>2, <3>3
  <2>3. CASE i > d + n
    <3>1. i - (d + n) \in 1..z /\ ~ (i <= d) /\ i - d = n + (i - (d + n))
      BY <1>1, <2>1, <2>3
    <3>2. t[i] = IF i - (d + n) = 1 THEN m ELSE Garbage
      BY <1>6, <1>10, <2>1, <3>1
    <3>3. QED BY <1>1, <2>1, <2>3, <3>2
  <2>4. QED BY <1>1, <2>1, <2>2, <2>3
<1> DEFINE new == [i \in Legible(t) |-> IF i <= d + n THEN place[i] ELSE Len(sent) + 1]
<1>12. new \in [Legible(t) -> DOMAIN u]
  BY <1>1, <1>4, <1>11
<1>13. \A i \in Legible(t) : t[i] = u[new[i]]
  <2> SUFFICES ASSUME NEW i \in Legible(t) PROVE t[i] = u[new[i]]
    OBVIOUS
  <2>1. CASE i <= d + n
    <3>1. i \in Legible(s) /\ t[i] = s[i] /\ new[i] = place[i]
      BY <1>11, <2>1
    <3>2. place[i] \in 1..Len(sent) /\ s[i] = sent[place[i]]
      BY <1>4, <1>7, <3>1
    <3>3. QED BY <1>4, <3>1, <3>2
  <2>2. CASE ~ (i <= d + n)
    BY <1>1, <1>4, <1>11, <2>2
  <2>3. QED BY <2>1, <2>2
<1>14. \A i, j \in Legible(t) : i < j => new[i] < new[j]
  <2> SUFFICES ASSUME NEW i \in Legible(t), NEW j \in Legible(t), i < j
               PROVE  new[i] < new[j]
    OBVIOUS
  <2>1. CASE j <= d + n
    BY <1>1, <1>7, <1>11, <2>1
  <2>2. CASE j > d + n
    <3>1. i <= d + n
      BY <1>1, <1>11, <2>2
    <3>2. place[i] \in 1..Len(sent)
      BY <1>4, <1>11, <3>1
    <3>3. QED BY <1>1, <1>11, <2>2, <3>1, <3>2
  <2>3. QED BY <1>1, <1>11, <2>1, <2>2
<1>15. InOrder(t, u)
  BY <1>12, <1>13, <1>14 DEF InOrder
<1>16. QED BY <1>15 DEF t, u, more

\* What has been printed is in order by itself.
LEMMA PrintedOfThrough ==
  ASSUME NEW done \in Seq(Text), NEW stream \in Seq(Unit), NEW sent \in Seq(Text),
         InOrder(Through(done, stream), sent)
  PROVE  InOrder(done, sent)
<1> DEFINE s == Through(done, stream)
           of == [i \in Legible(done) |-> i]
<1>1. /\ Len(done) \in Nat /\ Len(stream) \in Nat /\ DOMAIN done = 1..Len(done)
      /\ DOMAIN s = 1..(Len(done) + Len(stream))
  BY ThroughOf, LenProperties
<1>2. \A i \in 1..Len(done) : s[i] = done[i]
  <2>1. \A i \in 1..(Len(done) + Len(stream)) : i <= Len(done) => s[i] = done[i]
    BY ThroughOf
  <2>2. QED BY <1>1, <2>1
<1>3. InOrder(s, sent)
  OBVIOUS
<1> HIDE DEF s
<1>4. Legible(done) \subseteq Legible(s) /\ Legible(s) \subseteq Nat
  BY <1>1, <1>2 DEF Legible
<1>5. of \in [Legible(done) -> Legible(s)] /\ \A i \in Legible(done) : done[i] = s[of[i]]
  BY <1>1, <1>2, <1>4 DEF Legible
<1>6. DOMAIN sent \subseteq Nat
  OBVIOUS
<1>7. QED BY <1>3, <1>4, <1>5, <1>6, Thinned

\* Before anything was sent.
LEMMA NothingInOrder == InOrder(Through(<<>>, <<>>), <<>>)
<1>1. <<>> \in Seq(Text) /\ <<>> \in Seq(Unit) /\ Len(<<>>) = 0
  OBVIOUS
<1>2. Legible(Through(<<>>, <<>>)) = {}
  <2>1. Legible(Through(<<>>, <<>>)) \subseteq 1..(0 + 0)
    BY <1>1, ThroughOf
  <2>2. QED BY <2>1
<1>3. [i \in {} |-> 0] \in [{} -> DOMAIN <<>>]
  OBVIOUS
<1>4. QED BY <1>2, <1>3 DEF InOrder
=============================================================================
