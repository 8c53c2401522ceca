--------------------------- MODULE ProgramsProofs ---------------------------
(***************************************************************************)
(* The smaller programs of the repository, and both containers of the      *)
(* password manager: what their runs check, for every value of their       *)
(* constants.                                                              *)
(***************************************************************************)
EXTENDS Programs, PasswordStack, PasswordList, FiniteSetTheorems, SequenceTheorems,
        WellFoundedInduction, TLAPS

\* A step of Programs is one of each of the programs, or leaves it alone.
LEMMA EachProgram ==
  ASSUME [Next]_program_vars
  PROVE  /\ [LoadNext]_load_vars /\ [SortNext]_sort_vars /\ [FileNext]_file_vars
         /\ [RotatorNext]_rotator_vars /\ [SignalNext]_signal_vars
         /\ [CipherNext]_cipher_vars
BY DEF Next, RunLoad, RunSort, RunFile, RunRotator, RunSignal, RunCipher, program_vars

\* Each program starts in its own first state.
LEMMA EachInit ==
  ASSUME Init
  PROVE  LoadInit /\ SortInit /\ FileInit /\ RotatorInit /\ SignalInit /\ CipherInit
BY DEF Init
-----------------------------------------------------------------------------
\* One message of the socket chat in bytes

\* The variables have their types.
CipherTypeOK ==
  /\ stage \in {"stdin", "encrypt", "aborted", "serialize", "overrun", "socket", "loop",
                "printed"}
  /\ skip_crypto \in BOOLEAN
  /\ cipher \in {"works", "encrypt_fails", "decrypt_fails"}
  /\ skip_crypto => cipher = "works"
  /\ text_size \in 1..STRING_T_MAX_SIZE
  /\ message_size \in Nat /\ bytes_read \in Int
  /\ cleared \in BOOLEAN
  /\ texts \in Nat /\ nulls \in Nat

\* What has been printed so far, and what is left of the buffer, make up the frame.
LoopInv ==
  IF cipher = "works"
  THEN /\ nulls = 0
       /\ \/ ~ cleared /\ texts = 0 /\ bytes_read = message_size + HEADER
          \/ cleared /\ texts = 1 /\ bytes_read = 0
  ELSE /\ texts = 0
       /\ bytes_read >= 0
       /\ bytes_read + HEADER * nulls = message_size + HEADER

\* A text gets its frame, fits it, and is read back from it.
CipherInv ==
  /\ CipherTypeOK
  /\ stage \in {"stdin", "encrypt", "aborted", "serialize", "overrun", "socket"}
       => ~ cleared /\ texts = 0 /\ nulls = 0
  /\ stage \notin {"stdin", "aborted"} => text_size + HEADER < STRING_T_MAX_SIZE
  /\ stage \notin {"stdin", "aborted", "encrypt"} => message_size = EncryptedSize
  /\ stage = "overrun" => message_size + HEADER > STRING_T_MAX_SIZE
  /\ stage \in {"socket", "loop", "printed"} => message_size + HEADER < STRING_T_MAX_SIZE
  /\ stage \in {"loop", "printed"} => LoopInv
  /\ stage = "printed" => bytes_read = 0

\* The padding of a text that string_create lets through: a multiple of eight
\* that is larger than the text, and overruns the buffer from 4080 on.
LEMMA PaddedSize ==
  ASSUME NEW t \in Nat, t > 0
  PROVE  /\ Padded(t) \in Nat /\ Padded(t) > 0
         /\ \E k \in Nat : Padded(t) = 8 * k
         /\ t + HEADER < STRING_T_MAX_SIZE =>
              /\ t >= 4080 => Padded(t) + HEADER > STRING_T_MAX_SIZE
              /\ t < 4080 => Padded(t) + HEADER < STRING_T_MAX_SIZE
<1>1. PICK q \in Nat : q = t \div 16 /\ 16 * q <= t /\ t < 16 * q + 16
  OBVIOUS
<1>2. Padded(t) = 16 * (q + 1)
  BY <1>1 DEF Padded, BLOCK
<1>3. \E k \in Nat : Padded(t) = 8 * k
  <2>1. 2 * (q + 1) \in Nat /\ Padded(t) = 8 * (2 * (q + 1))
    BY <1>1, <1>2
  <2>2. QED BY <2>1
<1>4. QED BY <1>1, <1>2, <1>3 DEF HEADER, STRING_T_MAX_SIZE

\* With a cipher that is used, the message in a frame is a multiple of eight.
LEMMA FrameInEights ==
  ASSUME CipherTypeOK
  PROVE  /\ EncryptedSize \in Nat
         /\ ~ skip_crypto => \E k \in Nat : EncryptedSize = 8 * k
<1>1. text_size \in Nat /\ text_size > 0
  BY DEF CipherTypeOK, STRING_T_MAX_SIZE
<1>2. Padded(text_size) \in Nat /\ \E k \in Nat : Padded(text_size) = 8 * k
  BY <1>1, PaddedSize
<1>3. 0 \in Nat /\ 0 = 8 * 0
  OBVIOUS
<1>4. QED BY <1>1, <1>2, <1>3 DEF EncryptedSize, CipherTypeOK

\* Each step of the message's way keeps the invariant.
LEMMA CipherStep == CipherInv /\ [CipherNext]_cipher_vars => CipherInv'
<1> SUFFICES ASSUME CipherInv, [CipherNext]_cipher_vars
             PROVE  CipherInv'
  OBVIOUS
<1> USE DEF HEADER, STRING_T_MAX_SIZE
<1>0. CipherTypeOK /\ EncryptedSize \in Nat
  BY FrameInEights DEF CipherInv
<1>1. CASE Type
  <2>1. ~ cleared /\ texts = 0 /\ nulls = 0 /\ UNCHANGED <<cleared, texts, nulls>>
    BY <1>1 DEF Type, CipherInv
  <2>2. skip_crypto' => cipher' = "works"
    BY <1>1 DEF Type
  <2>3. cipher' \in {"works", "encrypt_fails", "decrypt_fails"} /\ skip_crypto' \in BOOLEAN
    BY <1>1 DEF Type
  <2>4. text_size' \in 1..4100
    <3>1. text_size' \in Typed
      BY <1>1 DEF Type
    <3>2. QED BY <3>1, TypedAssumption
  <2>5. stage' = IF text_size' + 8 < 4100 THEN "encrypt" ELSE "aborted"
    BY <1>1 DEF Type, string_required_buffer_size
  <2>6. stage' \in {"encrypt", "aborted"} /\ (stage' = "encrypt" => text_size' + 8 < 4100)
    <3>1. CASE text_size' + 8 < 4100
      BY <2>5, <3>1
    <3>2. CASE ~ (text_size' + 8 < 4100)
      <4>1. stage' = "aborted"
        BY <2>5, <3>2
      <4>2. QED BY <4>1
    <3>3. QED BY <3>1, <3>2
  <2>7. CipherTypeOK'
    BY <1>0, <1>1, <2>1, <2>2, <2>3, <2>4, <2>6 DEF Type, CipherTypeOK
  <2>8. ~ cleared' /\ texts' = 0 /\ nulls' = 0
    BY <2>1
  <2>9. QED BY <2>6, <2>7, <2>8 DEF CipherInv
<1>2. CASE encrypt_data
  <2>1. message_size' = EncryptedSize /\ EncryptedSize' = EncryptedSize
    BY <1>2 DEF encrypt_data, EncryptedSize
  <2>2. QED BY <1>0, <1>2, <2>1 DEF encrypt_data, CipherInv, CipherTypeOK
<1>3. CASE string_serialize_to_buffer
  <2>1. EncryptedSize' = EncryptedSize
    BY <1>3 DEF string_serialize_to_buffer, EncryptedSize
  <2>2. message_size + HEADER # STRING_T_MAX_SIZE
    <3>1. CASE skip_crypto
      BY <1>0, <1>3, <3>1 DEF CipherInv, string_serialize_to_buffer, EncryptedSize, CipherTypeOK
    <3>2. CASE ~ skip_crypto
      <4>1. PICK k \in Nat : message_size = 8 * k
        BY <1>0, <1>3, <3>2, FrameInEights DEF CipherInv, string_serialize_to_buffer
      <4>2. QED BY <4>1
    <3>3. QED BY <3>1, <3>2
  <2>3. QED
    BY <1>0, <1>3, <2>1, <2>2
       DEF string_serialize_to_buffer, CipherInv, CipherTypeOK, string_required_buffer_size
<1>4. CASE Read
  <2>1. EncryptedSize' = EncryptedSize
    BY <1>4 DEF Read, EncryptedSize
  <2>2. bytes_read' = message_size + HEADER
    BY <1>4 DEF Read, CipherInv, string_required_buffer_size
  <2>3. LoopInv'
    BY <1>0, <1>4, <2>2 DEF Read, CipherInv, CipherTypeOK, LoopInv
  <2>4. QED BY <1>0, <1>4, <2>1, <2>2, <2>3 DEF Read, CipherInv, CipherTypeOK
<1>5. CASE ReadLoop
  <2>1. EncryptedSize' = EncryptedSize
    BY <1>5 DEF ReadLoop, EncryptedSize
  <2>2. LoopInv /\ message_size = EncryptedSize
    BY <1>5 DEF ReadLoop, CipherInv
  <2>3. CipherTypeOK' /\ LoopInv'
    <3>1. CASE cipher = "works"
      <4>1. ~ cleared /\ texts = 0 /\ nulls = 0 /\ bytes_read = message_size + HEADER
        BY <1>5, <2>2, <3>1 DEF LoopInv, ReadLoop
      <4>2. message_size > 0
        <5>1. text_size \in Nat /\ text_size > 0
          BY <1>0 DEF CipherTypeOK
        <5>2. Padded(text_size) > 0
          BY <5>1, PaddedSize
        <5>3. QED BY <2>2, <3>1, <5>1, <5>2 DEF EncryptedSize
      <4>3. texts' = 1 /\ nulls' = 0 /\ bytes_read' = 0
        BY <1>0, <1>5, <3>1, <4>1, <4>2
           DEF ReadLoop, DecryptedSize, FoundSize, string_required_buffer_size, CipherTypeOK
      <4>4. QED BY <1>0, <1>5, <3>1, <4>3 DEF ReadLoop, CipherTypeOK, LoopInv
    <3>2. CASE cipher # "works"
      <4>1. ~ skip_crypto /\ texts = 0
        BY <1>0, <2>2, <3>2 DEF CipherTypeOK, LoopInv
      <4>2. DecryptedSize = 0
        BY <1>0, <2>2, <3>2, <4>1 DEF DecryptedSize, FoundSize, EncryptedSize, CipherTypeOK
      <4>3. texts' = 0 /\ nulls' = nulls + 1 /\ bytes_read' = bytes_read - 8
        BY <1>0, <1>5, <4>1, <4>2 DEF ReadLoop, string_required_buffer_size, CipherTypeOK
      <4>4. bytes_read >= 8
        <5>1. PICK k \in Nat : message_size = 8 * k
          BY <1>0, <2>2, <4>1, FrameInEights
        <5>2. bytes_read + 8 * nulls = 8 * k + 8 /\ bytes_read > 0
          BY <1>5, <2>2, <3>2, <5>1 DEF LoopInv, ReadLoop
        <5>3. bytes_read \in Int /\ nulls \in Nat
          BY <1>0 DEF CipherTypeOK
        <5>4. QED BY <5>2, <5>3
      <4>5. QED
        BY <1>0, <1>5, <2>2, <3>2, <4>1, <4>3, <4>4 DEF ReadLoop, CipherTypeOK, LoopInv
    <3>3. QED BY <3>1, <3>2
  <2>4. QED BY <1>5, <2>1, <2>3 DEF ReadLoop, CipherInv
<1>6. CASE Printed
  <2>1. EncryptedSize' = EncryptedSize /\ (LoopInv' <=> LoopInv)
    BY <1>6 DEF Printed, EncryptedSize, LoopInv
  <2>2. LoopInv /\ bytes_read = 0
    BY <1>0, <1>6 DEF Printed, CipherInv, CipherTypeOK, LoopInv
  <2>3. QED BY <1>0, <1>6, <2>1, <2>2 DEF Printed, CipherInv, CipherTypeOK
<1>7. CASE UNCHANGED cipher_vars
  BY <1>7 DEF cipher_vars, CipherInv, CipherTypeOK, LoopInv, EncryptedSize
<1>8. QED BY <1>1, <1>2, <1>3, <1>4, <1>5, <1>6, <1>7 DEF CipherNext

\* At the end, the invariant says what was printed and what overran.
LEMMA InvIsClean == CipherInv => CleanTransfer
<1> SUFFICES ASSUME CipherInv PROVE CleanTransfer
  OBVIOUS
<1> USE DEF HEADER, STRING_T_MAX_SIZE
<1>0. CipherTypeOK /\ text_size \in Nat /\ text_size > 0
  BY DEF CipherInv, CipherTypeOK
<1>1. PrintedExactly
  <2> SUFFICES ASSUME stage = "printed"
               PROVE  IF cipher = "works" THEN texts = 1 /\ nulls = 0
                      ELSE texts = 0 /\ nulls = (message_size + 8) \div 8
    BY DEF PrintedExactly, string_required_buffer_size
  <2>1. LoopInv /\ bytes_read = 0 /\ message_size \in Nat /\ nulls \in Nat
    BY <1>0 DEF CipherInv, CipherTypeOK
  <2>2. CASE cipher = "works"
    BY <2>1, <2>2 DEF LoopInv
  <2>3. CASE cipher # "works"
    <3>1. texts = 0 /\ 8 * nulls = message_size + 8
      BY <2>1, <2>3 DEF LoopInv
    <3>2. QED BY <2>1, <2>3, <3>1
  <2>4. QED BY <2>2, <2>3
<1>2. OverrunByPadding
  BY <1>0, PaddedSize DEF OverrunByPadding, CipherInv, CipherTypeOK, EncryptedSize
<1>3. QED BY <1>1, <1>2 DEF CleanTransfer

\* Whatever sizes are typed, with and without the cipher: a text is printed as it
\* was typed, once, or it is one of the twelve sizes that overrun the buffer.
THEOREM CleanTransferCorrect == Spec => []CleanTransfer
<1>1. Init => CipherInv
  <2> SUFFICES ASSUME Init PROVE CipherInv
    OBVIOUS
  <2>1. /\ stage = "stdin" /\ ~ cleared /\ texts = 0 /\ nulls = 0
        /\ skip_crypto \in BOOLEAN /\ cleared \in BOOLEAN /\ cipher = "works"
        /\ text_size = 1 /\ message_size = 0 /\ bytes_read = 0
    BY EachInit DEF CipherInit
  <2>2. CipherTypeOK
    BY <2>1 DEF CipherTypeOK, STRING_T_MAX_SIZE
  <2>3. QED BY <2>1, <2>2 DEF CipherInv
<1>2. CipherInv /\ [Next]_program_vars => CipherInv'
  BY EachProgram, CipherStep
<1>3. QED BY <1>1, <1>2, InvIsClean, PTL DEF Spec
-----------------------------------------------------------------------------
\* The stack of the password manager

\* A stack whose buffer has room for one more pair, or is not allocated.
Roomy(s) == Len(s.data) < s.capacity \/ (s.data = <<>> /\ s.capacity = 0)

\* A push leaves a stack that has room again: the capacity is doubled before
\* the last place is taken, and no later.
LEMMA PushKeepsRoom ==
  ASSUME NEW s \in Stack, Roomy(s), NEW pair \in Pair
  PROVE  push_stack(s, pair) \in Stack /\ Roomy(push_stack(s, pair))
<1> DEFINE allocated == IF s.capacity = 0 THEN FIRST_CAPACITY ELSE s.capacity
<1>1. /\ s.data \in Seq(Pair) /\ Len(s.data) \in Nat
      /\ s.capacity \in Nat
  BY DEF Stack
<1>2. allocated \in Nat /\ Len(s.data) < allocated
  BY <1>1, StackAssumption DEF Roomy
<1>3. Capacity(s) = IF allocated <= Len(s.data) + 1 THEN 2 * allocated ELSE allocated
  BY DEF Capacity
<1>4. Capacity(s) \in Nat /\ Len(s.data) + 1 < Capacity(s)
  <2> HIDE DEF allocated
  <2> QED BY <1>1, <1>2, <1>3
<1>5. Append(s.data, pair) \in Seq(Pair) /\ Len(Append(s.data, pair)) = Len(s.data) + 1
  BY <1>1
<1> QED
  BY <1>4, <1>5 DEF push_stack, Stack, Roomy

\* A pop of a stack that holds a pair leaves a stack with room.
LEMMA PopKeepsRoom ==
  ASSUME NEW s \in Stack, Roomy(s), s.data # <<>>
  PROVE  /\ pop_stack(s) \in Stack /\ Roomy(pop_stack(s))
         /\ Last(s.data) \in Pair
<1>1. /\ s.data \in Seq(Pair) /\ Len(s.data) \in Nat \ {0}
      /\ s.capacity \in Nat
  BY EmptySeq DEF Stack
<1>2. Front(s.data) \in Seq(Pair) /\ Len(Front(s.data)) = Len(s.data) - 1
  BY <1>1 DEF Front
<1>3. Last(s.data) \in Pair
  BY <1>1 DEF Last
<1>4. pop_stack(s) = [data |-> Front(s.data), capacity |-> s.capacity]
  BY DEF pop_stack, Stack
<1> QED
  BY <1>1, <1>2, <1>3, <1>4 DEF Stack, Roomy

\* The stack that is created empty has no buffer.
LEMMA CreateHasRoom == create_stack \in Stack /\ Roomy(create_stack)
BY DEF create_stack, Stack, Roomy

StackInv == StackTypeOK /\ Roomy(stack) /\ Roomy(tmp_stack)

\* Roomy stacks are all that SpareRoom asks for.
LEMMA StackInvIsSpareRoom == StackInv => SpareRoom
BY DEF StackInv, SpareRoom, Roomy

\* Every step of the program keeps both stacks typed and roomy.
LEMMA StackStep == StackInv /\ [StackNext]_stackVars => StackInv'
<1> SUFFICES ASSUME StackInv, [StackNext]_stackVars PROVE StackInv'
  OBVIOUS
<1> USE DEF StackInv, StackTypeOK
<1>1. ASSUME NEW pair \in Pair, StackAdd(pair) PROVE StackInv'
  BY <1>1, PushKeepsRoom DEF StackAdd
<1>2. ASSUME NEW c \in Command, NEW key \in Key, StackCommand(c, key) PROVE StackInv'
  BY <1>2, CreateHasRoom DEF StackCommand
<1>3. CASE Empty
  <2>1. stack.data # <<>>
    BY <1>3 DEF Empty, is_stack_empty
  <2>2. /\ Last(stack.data) \in Pair
        /\ stack' \in Stack /\ Roomy(stack')
    BY <1>3, <2>1, PopKeepsRoom DEF Empty
  <2>3. tmp_stack' \in {tmp_stack, push_stack(tmp_stack, Last(stack.data))}
    BY <1>3 DEF Empty
  <2>4. tmp_stack' \in Stack /\ Roomy(tmp_stack')
    BY <2>2, <2>3, PushKeepsRoom
  <2>5. stack_printed' \in Seq(Pair)
    BY <1>3, <2>2 DEF Empty
  <2> QED
    BY <1>3, <2>2, <2>4, <2>5 DEF Empty
<1>4. CASE EmptyDone
  BY <1>4 DEF EmptyDone
<1>5. CASE Refill
  <2>1. tmp_stack.data # <<>>
    BY <1>5 DEF Refill, is_stack_empty
  <2>2. /\ Last(tmp_stack.data) \in Pair
        /\ tmp_stack' \in Stack /\ Roomy(tmp_stack')
    BY <1>5, <2>1, PopKeepsRoom DEF Refill
  <2>3. stack' \in Stack /\ Roomy(stack')
    BY <1>5, <2>2, PushKeepsRoom DEF Refill
  <2> QED
    BY <1>5, <2>2, <2>3 DEF Refill
<1>6. CASE RefillDone
  BY <1>6 DEF RefillDone
<1>7. CASE UNCHANGED stackVars
  BY <1>7 DEF stackVars
<1> QED
  BY <1>1, <1>2, <1>3, <1>4, <1>5, <1>6, <1>7 DEF StackNext

\* run_stack starts with two stacks that have no buffer.
LEMMA StackStart == StackInit => StackInv
BY CreateHasRoom DEF StackInit, StackInv, StackTypeOK, Command

\* No push of run_stack, in whatever loop of whatever command, writes beyond
\* the buffer it pushes to.
THEOREM SpareRoomCorrect == StackSpec => []SpareRoom
<1>1. StackSpec => []StackInv
  BY StackStart, StackStep, PTL DEF StackSpec
<1> QED
  BY <1>1, StackInvIsSpareRoom, PTL
\* Who picks every position picks the sequence.
LEMMA PickedAll ==
  ASSUME NEW s \in Seq(Pair)
  PROVE  Picked(s, DOMAIN s) = s
<1> DEFINE S == 1..Len(s)
<1>1. DOMAIN s = S /\ Len(s) \in Nat /\ Cardinality(S) = Len(s)
  <2>1. DOMAIN s = S /\ Len(s) \in Nat
    OBVIOUS
  <2>2. Cardinality(S) = Len(s)
    BY <2>1, FS_Interval
  <2>3. QED BY <2>1, <2>2
<1>2. \A x \in S : {k \in S : k <= x} = 1..x
  BY <1>1
<1>3. \A x \in S : Cardinality(1..x) = x
  BY <1>1, FS_Interval
<1>4. \A x \in S : Cardinality({k \in S : k <= x}) = x
  BY <1>2, <1>3
<1>5. \A j \in S : (CHOOSE x \in S : Cardinality({k \in S : k <= x}) = j) = j
  BY <1>4
<1>6. Picked(s, S) = [j \in S |-> s[j]]
  <2> HIDE DEF S
  <2>1. Picked(s, S) = [j \in 1..Cardinality(S) |->
                          s[CHOOSE x \in S : Cardinality({k \in S : k <= x}) = j]]
    BY DEF Picked
  <2>2. 1..Cardinality(S) = S
    BY <1>1 DEF S
  <2>3. QED BY <1>5, <2>1, <2>2
<1>7. [j \in S |-> s[j]] = s
  BY <1>1
<1>8. QED BY <1>1, <1>6, <1>7

\* Nothing is picked of nothing.
LEMMA PickedNone == ASSUME NEW s PROVE Picked(s, {}) = <<>>
BY FS_EmptySet DEF Picked

\* The position of rank j among those that are picked.
RankIn(S, y) == Cardinality({k \in S : k <= y})
PlaceOf(S, j) == CHOOSE y \in S : RankIn(S, y) = j

\* There is one position of each rank.
LEMMA PlaceIsPicked ==
  ASSUME NEW S, S \subseteq Nat, IsFiniteSet(S)
  PROVE  /\ Cardinality(S) \in Nat
         /\ \A y \in S : RankIn(S, y) \in 1..Cardinality(S)
         /\ \A x, y \in S : RankIn(S, x) = RankIn(S, y) => x = y
         /\ \A j \in 1..Cardinality(S) : PlaceOf(S, j) \in S /\ RankIn(S, PlaceOf(S, j)) = j
<1> DEFINE m == Cardinality(S)
           Upto(y) == {k \in S : k <= y}
           f == [y \in S |-> RankIn(S, y)]
<1>1. m \in Nat
  BY FS_CardinalityType
<1>2. \A y \in S : /\ IsFiniteSet(Upto(y)) /\ Cardinality(Upto(y)) \in Nat
                   /\ Cardinality(Upto(y)) <= m
                   /\ Cardinality(Upto(y)) # 0
  <2> SUFFICES ASSUME NEW y \in S
               PROVE  /\ IsFiniteSet(Upto(y)) /\ Cardinality(Upto(y)) \in Nat
                      /\ Cardinality(Upto(y)) <= m
                      /\ Cardinality(Upto(y)) # 0
    OBVIOUS
  <2>1. Upto(y) \in SUBSET S /\ y \in Upto(y)
    OBVIOUS
  <2> HIDE DEF Upto, m
  <2>2. IsFiniteSet(Upto(y)) /\ Cardinality(Upto(y)) <= m
    BY <2>1, FS_Subset DEF m
  <2>3. Cardinality(Upto(y)) \in Nat /\ (Cardinality(Upto(y)) = 0 <=> Upto(y) = {})
    BY <2>2, FS_CardinalityType, FS_EmptySet
  <2>4. QED BY <2>1, <2>2, <2>3
<1>3. \A y \in S : RankIn(S, y) = Cardinality(Upto(y))
  BY DEF RankIn
<1>4. \A y \in S : RankIn(S, y) \in 1..m
  <2> HIDE DEF Upto, m
  <2>1. QED BY <1>1, <1>2, <1>3
<1>5. ASSUME NEW x \in S, NEW y \in S, RankIn(S, x) = RankIn(S, y), x < y
      PROVE  FALSE
  <2>1. Upto(x) \in SUBSET Upto(y) /\ y \in Upto(y) /\ y \notin Upto(x)
    <3>1. x \in Nat /\ y \in Nat /\ \A k \in S : k \in Nat
      OBVIOUS
    <3>2. \A k \in S : k <= x => k <= y
      BY <1>5, <3>1
    <3>3. ~ (y <= x) /\ y <= y
      BY <1>5, <3>1
    <3>4. QED BY <3>2, <3>3
  <2>2. Cardinality(Upto(x)) = Cardinality(Upto(y))
    BY <1>3, <1>5
  <2> HIDE DEF Upto
  <2>3. Upto(y) = Upto(x)
    BY <1>2, <2>1, <2>2, FS_Subset
  <2>4. QED BY <2>1, <2>3
<1>6. \A x, y \in S : RankIn(S, x) = RankIn(S, y) => x = y
  BY <1>5
<1>7. f \in Surjection(S, 1..m)
  <2>1. f \in Injection(S, 1..m)
    BY <1>4, <1>6 DEF Injection, IsInjective
  <2>2. IsFiniteSet(1..m) /\ Cardinality(1..m) = m
    BY <1>1, FS_Interval
  <2> HIDE DEF f
  <2>3. QED BY <2>1, <2>2, FS_Injection
<1>8. ASSUME NEW j \in 1..m PROVE \E y \in S : RankIn(S, y) = j
  BY <1>7 DEF Surjection
<1>9. QED BY <1>1, <1>4, <1>6, <1>8 DEF PlaceOf

\* Picked, in these words.
LEMMA PickedOf ==
  ASSUME NEW s, NEW S
  PROVE  Picked(s, S) = [j \in 1..Cardinality(S) |-> s[PlaceOf(S, j)]]
BY DEF Picked, PlaceOf, RankIn

\* What is picked of a sequence with one more element: that element is behind the
\* others, or it is not picked.
LEMMA PickedAppend ==
  ASSUME NEW s \in Seq(Pair), NEW x \in Pair, NEW S, S \subseteq 1..Len(s)
  PROVE  /\ Picked(s, S) \in Seq(Pair)
         /\ Picked(Append(s, x), S) = Picked(s, S)
         /\ Picked(Append(s, x), S \cup {Len(s) + 1}) = Append(Picked(s, S), x)
<1> DEFINE m == Cardinality(S)
           last == Len(s) + 1
           R == S \cup {last}
           t == Append(s, x)
<1>1. Len(s) \in Nat /\ S \subseteq Nat /\ R \subseteq Nat
  <2>1. Len(s) \in Nat
    OBVIOUS
  <2>2. \A y \in S : y \in Nat
    BY <2>1
  <2>3. last \in Nat
    BY <2>1
  <2>4. QED BY <2>1, <2>2, <2>3
<1>2. /\ t[last] = x
      /\ \A y \in S : t[y] = s[y] /\ s[y] \in Pair
  BY <1>1
<1>3. IsFiniteSet(S)
  <2>1. IsFiniteSet(1..Len(s))
    BY <1>1, FS_Interval
  <2>2. QED BY <2>1, FS_Subset
<1>4. last \notin S /\ IsFiniteSet(R) /\ Cardinality(R) = m + 1 /\ m \in Nat
  <2>1. last \notin S
    BY <1>1
  <2>2. m \in Nat
    BY <1>3, FS_CardinalityType
  <2> HIDE DEF last, m
  <2>3. IsFiniteSet(R) /\ Cardinality(R) = m + 1
    BY <1>3, <2>1, FS_AddElement DEF m
  <2>4. QED BY <2>1, <2>2, <2>3
<1>5. \A y \in S : RankIn(R, y) = RankIn(S, y)
  <2>1. ASSUME NEW y \in S PROVE {k \in R : k <= y} = {k \in S : k <= y}
    BY <1>1
  <2>2. QED BY <2>1 DEF RankIn
<1>6. RankIn(R, last) = m + 1
  <2>1. {k \in R : k <= last} = R
    BY <1>1
  <2>2. QED BY <1>4, <2>1 DEF RankIn
<1>7. /\ \A y \in S : RankIn(S, y) \in 1..m
      /\ \A j \in 1..m : PlaceOf(S, j) \in S /\ RankIn(S, PlaceOf(S, j)) = j
  BY <1>1, <1>3, PlaceIsPicked
<1>8. \A j \in 1..(m + 1) : PlaceOf(R, j) \in R /\ RankIn(R, PlaceOf(R, j)) = j
  <2> HIDE DEF R, m, last
  <2>1. QED BY <1>1, <1>4, PlaceIsPicked
<1>9. \A y, z \in S : RankIn(S, y) = RankIn(S, z) => y = z
  BY <1>1, <1>3, PlaceIsPicked
<1> HIDE DEF m, last, R, t
<1>10. ASSUME NEW j \in 1..m PROVE PlaceOf(R, j) = PlaceOf(S, j)
  <2>1. j \in 1..(m + 1) /\ j # m + 1
    BY <1>4
  <2>2. PlaceOf(R, j) \in S
    BY <1>6, <1>8, <2>1 DEF R
  <2>3. RankIn(S, PlaceOf(R, j)) = j
    BY <1>5, <1>8, <2>1, <2>2
  <2>4. QED BY <1>7, <1>9, <2>2, <2>3
<1>11. PlaceOf(R, m + 1) = last
  <2>1. m + 1 \in 1..(m + 1)
    BY <1>4
  <2>2. PlaceOf(R, m + 1) \in S \cup {last} /\ RankIn(R, PlaceOf(R, m + 1)) = m + 1
    BY <1>8, <2>1 DEF R
  <2>3. \A y \in S : RankIn(R, y) # m + 1
    BY <1>4, <1>5, <1>7
  <2>4. QED BY <2>2, <2>3
<1>12. /\ Picked(s, S) = [j \in 1..m |-> s[PlaceOf(S, j)]]
       /\ Picked(t, S) = [j \in 1..m |-> t[PlaceOf(S, j)]]
       /\ Picked(t, R) = [j \in 1..(m + 1) |-> t[PlaceOf(R, j)]]
  BY <1>4, PickedOf DEF m
<1>13. Picked(t, S) = Picked(s, S)
  BY <1>2, <1>7, <1>12
<1>14. \A j \in 1..m : s[PlaceOf(S, j)] \in Pair
  BY <1>2, <1>7
<1>15. Picked(s, S) \in Seq(Pair) /\ Len(Picked(s, S)) = m
  BY <1>4, <1>12, <1>14
<1>16. Picked(t, R) = Append(Picked(s, S), x)
  <2> DEFINE p == Append(Picked(s, S), x)
             q == Picked(t, R)
  <2>1. p \in Seq(Pair) /\ Len(p) = m + 1 /\ p[m + 1] = x
        /\ \A j \in 1..m : p[j] = Picked(s, S)[j]
    BY <1>4, <1>15
  <2>2. \A j \in 1..m : q[j] = p[j]
    <3> SUFFICES ASSUME NEW j \in 1..m PROVE q[j] = p[j]
      OBVIOUS
    <3> HIDE DEF p
    <3>1. j \in 1..(m + 1)
      BY <1>4
    <3>2. q[j] = t[PlaceOf(S, j)]
      BY <1>10, <1>12, <3>1
    <3>3. QED BY <1>2, <1>7, <1>12, <2>1, <3>2
  <2>3. q[m + 1] = x
    BY <1>2, <1>4, <1>11, <1>12
  <2> HIDE DEF p
  <2>4. \A j \in 1..(m + 1) : q[j] = p[j]
    BY <1>4, <2>1, <2>2, <2>3
  <2>5. q \in Seq(Pair) /\ Len(q) = m + 1
    <3>1. \A j \in 1..(m + 1) : q[j] \in Pair
      BY <2>1, <2>4
    <3>2. q = [j \in 1..(m + 1) |-> q[j]]
      BY <1>12
    <3> HIDE DEF q
    <3>3. QED BY <1>4, <3>1, <3>2
  <2> HIDE DEF q
  <2>6. q = p
    BY <2>1, <2>4, <2>5, SeqEqual
  <2>7. QED BY <2>6 DEF p, q
<1>17. QED BY <1>13, <1>15, <1>16 DEF t, R, last

\* The same, for what a command keeps of a stack and what it prints: every second
\* part is about the pair on top.
LEMMA PickedTop ==
  ASSUME NEW s \in Seq(Pair), NEW x \in Pair, NEW t, t = Append(s, x)
  PROVE  /\ Picked(s, Kept(s)) \in Seq(Pair) /\ Picked(s, Shown(s)) \in Seq(Pair)
         /\ Picked(t, Kept(t)) = IF IsDropped(x) THEN Picked(s, Kept(s))
                                                 ELSE Append(Picked(s, Kept(s)), x)
         /\ Picked(t, Shown(t)) = IF IsPrinted(x) THEN Append(Picked(s, Shown(s)), x)
                                                  ELSE Picked(s, Shown(s))
<1>1. /\ Len(s) \in Nat /\ DOMAIN s = 1..Len(s) /\ DOMAIN t = 1..(Len(s) + 1)
      /\ t[Len(s) + 1] = x /\ \A y \in 1..Len(s) : t[y] = s[y]
  OBVIOUS
<1>2. Kept(s) \subseteq 1..Len(s) /\ Shown(s) \subseteq 1..Len(s)
  BY <1>1 DEF Kept, Shown
<1>3. \A y : y \in DOMAIN t <=> y \in DOMAIN s \/ y = Len(s) + 1
  BY <1>1
<1>4. Kept(t) = IF IsDropped(x) THEN Kept(s) ELSE Kept(s) \cup {Len(s) + 1}
  BY <1>1, <1>3 DEF Kept
<1>5. Shown(t) = IF IsPrinted(x) THEN Shown(s) \cup {Len(s) + 1} ELSE Shown(s)
  BY <1>1, <1>3 DEF Shown
<1>6. ASSUME NEW S, S \subseteq 1..Len(s)
      PROVE  /\ Picked(s, S) \in Seq(Pair)
             /\ Picked(t, S) = Picked(s, S)
             /\ Picked(t, S \cup {Len(s) + 1}) = Append(Picked(s, S), x)
  BY <1>6, PickedAppend
<1>7. /\ Picked(s, Kept(s)) \in Seq(Pair)
      /\ Picked(t, Kept(s)) = Picked(s, Kept(s))
      /\ Picked(t, Kept(s) \cup {Len(s) + 1}) = Append(Picked(s, Kept(s)), x)
  BY <1>2, <1>6, Zenon
<1>8. /\ Picked(s, Shown(s)) \in Seq(Pair)
      /\ Picked(t, Shown(s)) = Picked(s, Shown(s))
      /\ Picked(t, Shown(s) \cup {Len(s) + 1}) = Append(Picked(s, Shown(s)), x)
  BY <1>2, <1>6, Zenon
<1>9. Picked(t, Kept(t)) = IF IsDropped(x) THEN Picked(s, Kept(s))
                                           ELSE Append(Picked(s, Kept(s)), x)
  BY <1>4, <1>7, Zenon
<1>10. Picked(t, Shown(t)) = IF IsPrinted(x) THEN Append(Picked(s, Shown(s)), x)
                                             ELSE Picked(s, Shown(s))
  BY <1>5, <1>8, Zenon
<1>11. QED BY <1>7, <1>8, <1>9, <1>10

\* The last pair goes first when the order is reversed.
LEMMA ReverseAppend ==
  ASSUME NEW s \in Seq(Pair), NEW x \in Pair, NEW r \in Seq(Pair)
  PROVE  /\ Reverse(s) \in Seq(Pair)
         /\ Append(r, x) \o Reverse(s) = r \o Reverse(Append(s, x))
<1>1. Len(s) \in Nat /\ \A y \in 1..Len(s) : s[y] \in Pair
  OBVIOUS
<1>2. Reverse(s) = [j \in 1..Len(s) |-> s[Len(s) - j + 1]]
  BY DEF Reverse
<1>3. Reverse(s) \in Seq(Pair) /\ Len(Reverse(s)) = Len(s)
  <2>1. \A j \in 1..Len(s) : s[Len(s) - j + 1] \in Pair
    BY <1>1
  <2>2. QED BY <1>1, <1>2, <2>1
<1> DEFINE t == Append(s, x)
<1>4. t \in Seq(Pair) /\ Len(t) = Len(s) + 1 /\ t[Len(s) + 1] = x
      /\ \A y \in 1..Len(s) : t[y] = s[y]
  OBVIOUS
<1> HIDE DEF t
<1>5. Reverse(t) = [j \in 1..(Len(s) + 1) |-> t[(Len(s) + 1) - j + 1]]
  BY <1>4 DEF Reverse
<1>6. Reverse(t) = <<x>> \o Reverse(s)
  <2> DEFINE q == <<x>> \o Reverse(s)
  <2>1. /\ q \in Seq(Pair) /\ Len(q) = Len(s) + 1
        /\ \A j \in 1..(Len(s) + 1) : q[j] = IF j = 1 THEN x ELSE Reverse(s)[j - 1]
    BY <1>1, <1>3
  <2>2. ASSUME NEW j \in 1..(Len(s) + 1) PROVE Reverse(t)[j] = q[j]
    <3>1. CASE j = 1
      BY <1>1, <1>4, <1>5, <2>1, <3>1
    <3>2. CASE j # 1
      <4>1. j - 1 \in 1..Len(s) /\ (Len(s) + 1) - j + 1 = Len(s) - (j - 1) + 1
            /\ Len(s) - (j - 1) + 1 \in 1..Len(s)
        BY <1>1, <3>2
      <4>2. Reverse(t)[j] = t[Len(s) - (j - 1) + 1]
        BY <1>5, <4>1
      <4>3. q[j] = s[Len(s) - (j - 1) + 1]
        BY <1>2, <2>1, <3>2, <4>1
      <4>4. QED BY <1>4, <4>1, <4>2, <4>3
    <3>3. QED BY <3>1, <3>2
  <2> HIDE DEF q
  <2>3. Reverse(t) \in Seq(Pair) /\ Len(Reverse(t)) = Len(s) + 1
    <3>1. \A j \in 1..(Len(s) + 1) : t[(Len(s) + 1) - j + 1] \in Pair
      BY <1>1, <1>4
    <3>2. QED BY <1>1, <1>5, <3>1
  <2>4. Reverse(t) = q
    BY <2>1, <2>2, <2>3, SeqEqual
  <2>5. QED BY <2>4 DEF q
<1>7. Append(r, x) \o Reverse(s) = r \o (<<x>> \o Reverse(s))
  <2>1. <<x>> \in Seq(Pair) /\ Append(r, x) = r \o <<x>>
    OBVIOUS
  <2>2. (r \o <<x>>) \o Reverse(s) = r \o (<<x>> \o Reverse(s))
    BY <1>3, <2>1, ConcatAssociative
  <2>3. QED BY <2>1, <2>2
<1>8. QED BY <1>3, <1>6, <1>7 DEF t

\* Reversing nothing, and putting nothing behind a sequence.
LEMMA NothingReversed ==
  /\ Reverse(<<>>) = <<>>
  /\ \A s \in Seq(Pair) : s \o <<>> = s /\ <<>> \o s = s
<1>1. Reverse(<<>>) = <<>>
  BY DEF Reverse
<1>2. QED BY <1>1, ConcatEmptySeq

\* A stack that holds a pair is what a pop leaves, and that pair on top.
LEMMA TopOf ==
  ASSUME NEW s \in Stack, s.data # <<>>
  PROVE  /\ Front(s.data) \in Seq(Pair) /\ Last(s.data) \in Pair
         /\ s.data = Append(Front(s.data), Last(s.data))
         /\ pop_stack(s).data = Front(s.data)
<1> DEFINE d == s.data
           f == Front(d)
           x == Last(d)
<1>1. d \in Seq(Pair) /\ Len(d) \in Nat \ {0}
  BY EmptySeq DEF Stack
<1> HIDE DEF d
<1>2. f \in Seq(Pair) /\ Len(f) = Len(d) - 1 /\ \A y \in 1..(Len(d) - 1) : f[y] = d[y]
  <2>1. f = SubSeq(d, 1, Len(d) - 1)
    BY DEF Front
  <2>2. Len(d) - 1 \in Nat /\ \A y \in 1..(Len(d) - 1) : y \in 1..Len(d)
    BY <1>1
  <2>3. f = [y \in 1..(Len(d) - 1) |-> d[y]]
    BY <1>1, <2>1, <2>2
  <2>4. \A y \in 1..(Len(d) - 1) : d[y] \in Pair
    BY <1>1, <2>2
  <2> HIDE DEF f
  <2>5. QED BY <2>2, <2>3, <2>4
<1>3. x = d[Len(d)] /\ x \in Pair
  BY <1>1 DEF Last
<1> HIDE DEF f, x
<1>4. /\ Append(f, x) \in Seq(Pair) /\ Len(Append(f, x)) = Len(d)
      /\ \A y \in 1..Len(d) : Append(f, x)[y] = d[y]
  BY <1>1, <1>2, <1>3
<1>5. d = Append(f, x)
  BY <1>1, <1>4, SeqEqual
<1>6. pop_stack(s).data = Front(s.data)
  BY DEF pop_stack, Stack
<1>7. QED BY <1>2, <1>3, <1>5, <1>6 DEF d, f, x

\* The book's operators are the stack's.
LEMMA BookOperators ==
  /\ \A s, S : StackBook!Picked(s, S) = Picked(s, S)
  /\ \A s : StackBook!Reverse(s) = Reverse(s)
  /\ StackBook!Pair = Pair
BY DEF StackBook!Picked, Picked, StackBook!Reverse, Reverse, StackBook!Pair, Pair,
       StackBook!Cardinality, Cardinality

\* Between two commands nothing is put aside.
BookInv == StackInv /\ (loop = "idle" => tmp_stack.data = <<>>)

\* run_stack starts with an empty book.
LEMMA BookStart == StackInit => BookInv /\ StackBook!BookInit
<1> SUFFICES ASSUME StackInit PROVE BookInv /\ StackBook!BookInit
  OBVIOUS
<1>1. BookInv
  BY StackStart DEF BookInv, StackInit, create_stack
<1>2. StackPairs = <<>> \o Reverse(<<>>) /\ StackShown = <<>> \o <<>>
  BY DEF StackInit, create_stack, StackPairs, StackShown
<1>3. QED BY <1>1, <1>2, NothingReversed DEF StackBook!BookInit

\* add
LEMMA AddIsBook ==
  ASSUME BookInv, NEW pair \in Pair, StackAdd(pair)
  PROVE  StackBook!BookAdd(pair)
<1>1. /\ stack.data \in Seq(Pair) /\ tmp_stack.data = <<>> /\ loop = "idle"
      /\ stack'.data = Append(stack.data, pair) /\ tmp_stack' = tmp_stack /\ loop' = loop
      /\ stack_printed' = <<>>
  BY DEF BookInv, StackInv, StackTypeOK, Stack, StackAdd, push_stack
<1>2. StackPairs = stack.data \o <<>> /\ StackPairs' = Append(stack.data, pair) \o <<>>
  BY <1>1, NothingReversed DEF StackPairs
<1>3. StackPairs = stack.data /\ StackPairs' = Append(stack.data, pair)
  BY <1>1, <1>2, NothingReversed
<1>4. StackShown' = <<>>
  BY <1>1, NothingReversed DEF StackShown
<1>5. QED BY <1>3, <1>4 DEF StackBook!BookAdd

\* What is picked, and what is reversed, is a sequence of pairs.
LEMMA PickedType ==
  ASSUME NEW s \in Seq(Pair), NEW S, S \subseteq 1..Len(s)
  PROVE  Picked(s, S) \in Seq(Pair)
<1>1. Len(s) \in Nat /\ \A y \in S : s[y] \in Pair
  OBVIOUS
<1>2. S \subseteq Nat
  BY <1>1
<1>3. IsFiniteSet(S)
  <2>1. IsFiniteSet(1..Len(s))
    BY <1>1, FS_Interval
  <2>2. QED BY <2>1, FS_Subset
<1>4. Cardinality(S) \in Nat /\ \A j \in 1..Cardinality(S) : PlaceOf(S, j) \in S
  BY <1>2, <1>3, PlaceIsPicked
<1>5. \A j \in 1..Cardinality(S) : s[PlaceOf(S, j)] \in Pair
  BY <1>1, <1>4
<1>6. QED BY <1>4, <1>5, PickedOf

\* So is what is reversed.
LEMMA ReverseType == ASSUME NEW s \in Seq(Pair) PROVE Reverse(s) \in Seq(Pair)
<1>1. Len(s) \in Nat /\ \A y \in 1..Len(s) : s[y] \in Pair
  OBVIOUS
<1>2. \A j \in 1..Len(s) : s[Len(s) - j + 1] \in Pair
  BY <1>1
<1>3. QED BY <1>1, <1>2 DEF Reverse

\* Every step keeps the book's invariant.
LEMMA BookKeeps == ASSUME BookInv, [StackNext]_stackVars PROVE BookInv'
<1>1. StackInv'
  BY StackStep DEF BookInv
<1>2. ASSUME loop' = "idle" PROVE tmp_stack'.data = <<>>
  <2>1. ASSUME NEW pair \in Pair, StackAdd(pair) PROVE tmp_stack'.data = <<>>
    BY <2>1 DEF BookInv, StackAdd
  <2>2. ASSUME NEW c \in Command, NEW key \in Key, StackCommand(c, key)
        PROVE  tmp_stack'.data = <<>>
    BY <2>2 DEF StackCommand, create_stack
  <2>3. CASE Empty \/ EmptyDone \/ Refill
    BY <1>2, <2>3 DEF Empty, EmptyDone, Refill
  <2>4. CASE RefillDone
    BY <2>4 DEF RefillDone, is_stack_empty
  <2>5. CASE UNCHANGED stackVars
    BY <1>2, <2>5 DEF BookInv, stackVars
  <2>6. QED BY <2>1, <2>2, <2>3, <2>4, <2>5 DEF StackNext
<1>3. QED BY <1>1, <1>2 DEF BookInv

\* A command of the other three is read: what it will keep and print is decided.
LEMMA CommandIsBook ==
  ASSUME BookInv, NEW c \in Command, NEW key \in Key, StackCommand(c, key)
  PROVE  StackBook!BookNext
<1> DEFINE d == stack.data
<1>1. /\ d \in Seq(Pair) /\ tmp_stack.data = <<>> /\ loop = "idle"
      /\ stack' = stack /\ tmp_stack'.data = <<>> /\ loop' = "emptying"
      /\ stack_printed' = <<>> /\ cmd' = c /\ line' = key
  BY DEF BookInv, StackInv, StackTypeOK, Stack, StackCommand, create_stack
<1>2. StackPairs = d
  <2>1. StackPairs = d \o <<>>
    BY <1>1, NothingReversed DEF StackPairs
  <2>2. QED BY <1>1, <2>1, NothingReversed
<1> DEFINE kept == {y \in DOMAIN d : ~ (c = "REMOVE_PASSWORD" /\ d[y].first = key)}
           shown == {y \in DOMAIN d : c = "LIST_PASSWORDS" \/ d[y].first = key}
<1>3. Kept(d)' = kept /\ Shown(d)' = shown
  BY <1>1 DEF Kept, Shown, IsDropped, IsPrinted
<1>4. StackPairs' = Picked(d, kept) \o <<>>
  BY <1>1, <1>3, NothingReversed DEF StackPairs
<1>5. StackShown' = <<>> \o Reverse(Picked(d, shown))
  BY <1>1, <1>3 DEF StackShown
<1> HIDE DEF d, kept, shown
<1>6. /\ kept \subseteq 1..Len(d) /\ shown \subseteq 1..Len(d)
      /\ c # "REMOVE_PASSWORD" => kept = DOMAIN d
      /\ c = "LIST_PASSWORDS" => shown = DOMAIN d
      /\ c # "LIST_PASSWORDS" => shown = {y \in DOMAIN d : d[y].first = key}
      /\ c = "REMOVE_PASSWORD" => kept = {y \in DOMAIN d : d[y].first # key}
  <2>1. DOMAIN d = 1..Len(d)
    BY <1>1
  <2>2. kept \subseteq DOMAIN d /\ shown \subseteq DOMAIN d
    BY DEF kept, shown
  <2>3. /\ c # "REMOVE_PASSWORD" => kept = DOMAIN d
        /\ c = "LIST_PASSWORDS" => shown = DOMAIN d
    BY DEF kept, shown
  <2>4. c # "LIST_PASSWORDS" => shown = {y \in DOMAIN d : d[y].first = key}
    BY DEF shown
  <2>5. c = "REMOVE_PASSWORD" => kept = {y \in DOMAIN d : d[y].first # key}
    BY DEF kept
  <2>6. QED BY <2>1, <2>2, <2>3, <2>4, <2>5
<1>7. Picked(d, kept) \in Seq(Pair) /\ Picked(d, shown) \in Seq(Pair)
  BY <1>1, <1>6, PickedType
<1>8. StackPairs' = Picked(d, kept) /\ StackShown' = Reverse(Picked(d, shown))
  <2>1. Reverse(Picked(d, shown)) \in Seq(Pair)
    BY <1>7, ReverseType
  <2>2. QED BY <1>4, <1>5, <1>7, <2>1, NothingReversed
<1>9. CASE c = "LIST_PASSWORDS"
  <2>1. Picked(d, kept) = d /\ Picked(d, shown) = d
    BY <1>1, <1>6, <1>9, PickedAll
  <2>2. StackBook!BookList
    BY <1>2, <1>8, <2>1, BookOperators DEF StackBook!BookList, StackBook!Prints
  <2>3. QED BY <2>2 DEF StackBook!BookNext
<1>10. CASE c = "REMOVE_PASSWORD"
  <2>1. kept = {y \in DOMAIN d : d[y].first # key} /\ shown = {y \in DOMAIN d : d[y].first = key}
    BY <1>6, <1>10
  <2>2. StackBook!BookRm(key)
    BY <1>2, <1>8, <2>1, BookOperators
       DEF StackBook!BookRm, StackBook!Prints, StackBook!With, StackBook!Without
  <2>3. QED BY <2>2 DEF StackBook!BookNext
<1>11. CASE c = "FIND_BY_KEY"
  <2>1. Picked(d, kept) = d /\ shown = {y \in DOMAIN d : d[y].first = key}
    BY <1>1, <1>6, <1>11, PickedAll
  <2>2. StackBook!BookFind(key)
    BY <1>2, <1>8, <2>1, BookOperators DEF StackBook!BookFind, StackBook!Prints, StackBook!With
  <2>3. QED BY <2>2 DEF StackBook!BookNext
<1>12. QED BY <1>9, <1>10, <1>11 DEF Command

\* A turn of the first loop: the pair goes from what is to be met to what was put
\* aside or printed, and changes nothing of the book.
LEMMA EmptyIsBook ==
  ASSUME BookInv, Empty
  PROVE  StackPairs' = StackPairs /\ StackShown' = StackShown
<1> DEFINE f == Front(stack.data)
           x == Last(stack.data)
<1>1. /\ stack \in Stack /\ tmp_stack.data \in Seq(Pair) /\ stack_printed \in Seq(Pair)
      /\ stack.data # <<>> /\ loop = "emptying" /\ loop' = loop
      /\ stack' = pop_stack(stack) /\ cmd' = cmd /\ line' = line
      /\ stack_printed' = IF IsPrinted(x) THEN Append(stack_printed, x) ELSE stack_printed
      /\ tmp_stack'.data = IF IsDropped(x) THEN tmp_stack.data ELSE Append(tmp_stack.data, x)
  BY DEF BookInv, StackInv, StackTypeOK, Stack, Empty, is_stack_empty, push_stack
<1> HIDE DEF f, x
<1>2. f \in Seq(Pair) /\ x \in Pair /\ stack.data = Append(f, x) /\ stack'.data = f
  BY <1>1, TopOf DEF f, x
<1> DEFINE pairs == Picked(f, Kept(f))
           shown == Picked(f, Shown(f))
<1>3. /\ pairs \in Seq(Pair) /\ shown \in Seq(Pair)
      /\ Picked(stack.data, Kept(stack.data)) = IF IsDropped(x) THEN pairs ELSE Append(pairs, x)
      /\ Picked(stack.data, Shown(stack.data)) = IF IsPrinted(x) THEN Append(shown, x) ELSE shown
  BY <1>2, PickedTop
<1>4. StackPairs = (IF IsDropped(x) THEN pairs ELSE Append(pairs, x)) \o Reverse(tmp_stack.data)
      /\ StackShown = stack_printed \o Reverse(IF IsPrinted(x) THEN Append(shown, x) ELSE shown)
  BY <1>1, <1>3, Zenon DEF StackPairs, StackShown
<1>5. StackPairs' = pairs \o Reverse(tmp_stack'.data)
      /\ StackShown' = stack_printed' \o Reverse(shown)
  BY <1>1, <1>2 DEF StackPairs, StackShown, Kept, Shown, IsDropped, IsPrinted
<1> HIDE DEF pairs, shown
<1>6. Append(pairs, x) \o Reverse(tmp_stack.data) = pairs \o Reverse(Append(tmp_stack.data, x))
  BY <1>1, <1>2, <1>3, ReverseAppend
<1>7. Append(stack_printed, x) \o Reverse(shown) = stack_printed \o Reverse(Append(shown, x))
  BY <1>1, <1>2, <1>3, ReverseAppend
<1>8. StackPairs' = StackPairs
  BY <1>1, <1>4, <1>5, <1>6, Zenon
<1>9. StackShown' = StackShown
  BY <1>1, <1>4, <1>5, <1>7, Zenon
<1>10. QED BY <1>8, <1>9

\* The first loop ends: everything was met.
LEMMA EmptyDoneIsBook ==
  ASSUME BookInv, EmptyDone
  PROVE  StackPairs' = StackPairs /\ StackShown' = StackShown
<1>1. /\ stack.data = <<>> /\ loop = "emptying" /\ loop' = "refilling"
      /\ UNCHANGED <<stack, tmp_stack, cmd, line, stack_printed>>
  BY DEF EmptyDone, is_stack_empty
<1>2. Kept(stack.data) = {} /\ Shown(stack.data) = {}
  BY <1>1 DEF Kept, Shown
<1>3. Picked(stack.data, Kept(stack.data)) = <<>> /\ Picked(stack.data, Shown(stack.data)) = <<>>
  BY <1>1, <1>2, PickedNone
<1>4. QED BY <1>1, <1>3, NothingReversed DEF StackPairs, StackShown

\* A turn of the second loop puts the newest pair that was put aside on top.
LEMMA RefillIsBook ==
  ASSUME BookInv, Refill
  PROVE  StackPairs' = StackPairs /\ StackShown' = StackShown
<1> DEFINE f == Front(tmp_stack.data)
           x == Last(tmp_stack.data)
<1>1. /\ tmp_stack \in Stack /\ stack.data \in Seq(Pair) /\ tmp_stack.data # <<>>
      /\ loop = "refilling" /\ loop' = loop /\ stack_printed' = stack_printed
      /\ stack'.data = Append(stack.data, x) /\ tmp_stack' = pop_stack(tmp_stack)
  BY DEF BookInv, StackInv, StackTypeOK, Stack, Refill, is_stack_empty, push_stack
<1> HIDE DEF f, x
<1>2. f \in Seq(Pair) /\ x \in Pair /\ tmp_stack.data = Append(f, x) /\ tmp_stack'.data = f
  BY <1>1, TopOf DEF f, x
<1>3. Append(stack.data, x) \o Reverse(f) = stack.data \o Reverse(Append(f, x))
  BY <1>1, <1>2, ReverseAppend
<1>4. StackPairs' = StackPairs
  BY <1>1, <1>2, <1>3 DEF StackPairs
<1>5. StackShown' = StackShown
  BY <1>1 DEF StackShown
<1>6. QED BY <1>4, <1>5

\* Every step of run_stack is a step of the password book, or none.
LEMMA BookStep ==
  ASSUME BookInv, [StackNext]_stackVars
  PROVE  [StackBook!BookNext]_<<StackPairs, StackShown>>
<1>1. ASSUME NEW pair \in Pair, StackAdd(pair) PROVE StackBook!BookNext
  BY <1>1, AddIsBook, BookOperators DEF StackBook!BookNext
<1>2. ASSUME NEW c \in Command, NEW key \in Key, StackCommand(c, key) PROVE StackBook!BookNext
  BY <1>2, CommandIsBook
<1>3. CASE RefillDone
  BY <1>3 DEF RefillDone, StackPairs, StackShown
<1>4. CASE UNCHANGED stackVars
  BY <1>4 DEF stackVars, StackPairs, StackShown, Kept, Shown, IsDropped, IsPrinted
<1>5. QED BY <1>1, <1>2, <1>3, <1>4, EmptyIsBook, EmptyDoneIsBook, RefillIsBook DEF StackNext

\* run_stack implements the password book, for any number of pairs: a command takes
\* its step when it is read, and its loops lose no pair and keep their order.
THEOREM StackImplementsBook == StackSpec => StackIsBook
<1>1. StackInit => BookInv /\ StackBook!BookInit
  BY BookStart
<1>2. BookInv /\ [StackNext]_stackVars => BookInv'
  BY BookKeeps
<1>3. BookInv /\ [StackNext]_stackVars => [StackBook!BookNext]_<<StackPairs, StackShown>>
  BY BookStep
<1>4. QED BY <1>1, <1>2, <1>3, PTL
          DEF StackSpec, StackIsBook, StackBook!BookSpec, StackBook!bookVars
-----------------------------------------------------------------------------
\* The list of the password manager

NodeRecord == [data : Pair, next_node : Node \cup {NULL}, prev_node : Node \cup {NULL}]

\* The variables have their types.
ListTypeOK ==
  /\ first_node \in Node \cup {NULL} /\ last_node \in Node \cup {NULL}
  /\ memory \in [Node -> NodeRecord \cup {FreeContent}]
  /\ live \subseteq Node
  /\ undefined \in BOOLEAN /\ cut \in BOOLEAN
  /\ list_loop \in {"idle", "walking", "deleting"}
  /\ list_cmd \in Command /\ list_line \in Key
  /\ list_node \in Node \cup {NULL}
  /\ nodes \in Seq(Node) /\ chain \in Seq(Node)
  /\ list_printed \in Seq(Pair)

\* The chain holds each live node once.
OnceEach ==
  /\ \A p \in 1..Len(chain) : chain[p] \in live
  /\ \A m \in live : \E p \in 1..Len(chain) : chain[p] = m
  /\ \A p, q \in 1..Len(chain) : chain[p] = chain[q] => p = q

\* The links follow the chain both ways.
Linked == \A p \in 1..Len(chain) :
  /\ memory[chain[p]] \in NodeRecord
  /\ memory[chain[p]].next_node = IF p = Len(chain) THEN NULL ELSE chain[p + 1]
  /\ memory[chain[p]].prev_node = IF p = 1 THEN NULL ELSE chain[p - 1]

\* Has rm noted the node?
Noted(m) == \E k \in 1..Len(nodes) : nodes[k] = m

\* first_node is the first that stays, and so is last_node unless an rm has taken
\* the last two.
FirstStays ==
  \/ first_node = NULL /\ \A p \in 1..Len(chain) : Noted(chain[p])
  \/ \E p \in 1..Len(chain) : /\ first_node = chain[p] /\ ~ Noted(chain[p])
                              /\ \A q \in 1..Len(chain) : ~ Noted(chain[q]) => p <= q
LastStays ==
  IF cut THEN last_node # NULL /\ \A p \in 1..Len(chain) : last_node = chain[p] => Noted(chain[p])
  ELSE \/ last_node = NULL /\ \A p \in 1..Len(chain) : Noted(chain[p])
       \/ \E p \in 1..Len(chain) : /\ last_node = chain[p] /\ ~ Noted(chain[p])
                                   /\ \A q \in 1..Len(chain) : ~ Noted(chain[q]) => q <= p

\* What rm has noted is what the walk has met and the command drops, each once.
NotedOnce ==
  /\ \A k, l \in 1..Len(nodes) : nodes[k] = nodes[l] => k = l
  /\ list_node # NULL => list_loop = "walking" /\ \E p \in 1..Len(chain) : chain[p] = list_node
  /\ \A m : Noted(m) <=> /\ list_loop # "idle"
                         /\ \E p \in 1..Len(chain) :
                              /\ chain[p] = m /\ Dropping(m)
                              /\ \A q \in 1..p : chain[q] # list_node

ListSound == OnceEach /\ Linked /\ FirstStays /\ LastStays /\ NotedOnce

ListInv == /\ ListTypeOK
           /\ undefined => list_loop = "idle"
           /\ ~ undefined => ListSound

\* No command has noted anything when the next one comes.
LEMMA NothingNoted ==
  ASSUME ListTypeOK, NotedOnce, list_loop = "idle"
  PROVE  nodes = <<>> /\ list_node = NULL /\ \A m : ~ Noted(m)
<1>1. \A m : ~ Noted(m)
  BY DEF NotedOnce
<1>2. nodes \in Seq(Node) /\ Len(nodes) \in Nat
  BY DEF ListTypeOK
<1>3. Len(nodes) = 0
  <2>1. SUFFICES ASSUME Len(nodes) # 0 PROVE FALSE
    OBVIOUS
  <2>2. Noted(nodes[1])
    BY <1>2, <2>1 DEF Noted
  <2>3. QED BY <1>1, <2>2
<1>4. nodes = <<>>
  BY <1>2, <1>3, EmptySeq
<1>5. list_node = NULL
  BY DEF NotedOnce
<1>6. QED BY <1>1, <1>4, <1>5

\* run_list starts with nothing.
LEMMA ListStart == ListInit => ListInv
<1> SUFFICES ASSUME ListInit PROVE ListInv
  OBVIOUS
<1>1. ListTypeOK
  <2>1. memory \in [Node -> NodeRecord \cup {FreeContent}]
    BY DEF ListInit
  <2>2. nodes \in Seq(Node) /\ chain \in Seq(Node) /\ list_printed \in Seq(Pair)
    BY DEF ListInit
  <2>3. list_cmd \in Command /\ list_loop \in {"idle", "walking", "deleting"}
    BY DEF ListInit, Command
  <2>4. QED BY <2>1, <2>2, <2>3 DEF ListInit, ListTypeOK
<1>2. Len(chain) = 0 /\ Len(nodes) = 0 /\ live = {}
  BY DEF ListInit
<1>3. \A p \in 1..Len(chain) : FALSE
  BY <1>2
<1>4. \A m : ~ Noted(m)
  BY <1>2 DEF Noted
<1>5. OnceEach /\ Linked
  BY <1>2, <1>3 DEF OnceEach, Linked
<1>6. FirstStays /\ LastStays /\ NotedOnce
  BY <1>2, <1>3, <1>4 DEF ListInit, FirstStays, LastStays, NotedOnce
<1>7. QED BY <1>1, <1>5, <1>6 DEF ListInv, ListSound, ListInit

\* A command is read: nothing is noted yet, and the walk starts where the chain does.
LEMMA CommandKeeps ==
  ASSUME ListInv, NEW c \in Command, NEW key \in Key, ListCommand(c, key)
  PROVE  ListInv'
<1>1. ListTypeOK /\ ListSound /\ list_loop = "idle" /\ ~ undefined
  BY DEF ListInv, ListCommand
<1>2. nodes = <<>> /\ list_node = NULL /\ \A m : ~ Noted(m)
  BY <1>1, NothingNoted DEF ListSound
<1>3. ListTypeOK'
  BY <1>1 DEF ListTypeOK, ListCommand
<1>4. nodes' = nodes /\ \A m : ~ Noted(m)'
  BY <1>2 DEF ListCommand, Noted
<1>5. OnceEach' /\ Linked'
  BY <1>1 DEF ListSound, OnceEach, Linked, ListCommand
<1>6. FirstStays' /\ LastStays'
  BY <1>1, <1>2, <1>4 DEF ListSound, FirstStays, LastStays, ListCommand
<1>7. NotedOnce'
  <2>1. Len(nodes') = 0
    BY <1>2, <1>4
  <2>2. list_loop' = "walking" /\ list_node' = first_node /\ chain' = chain
    BY DEF ListCommand
  <2>3. first_node # NULL => Len(chain) \in Nat /\ 1 \in 1..Len(chain) /\ first_node = chain[1]
    <3>1. first_node # NULL => \E p \in 1..Len(chain) :
             first_node = chain[p] /\ \A q \in 1..Len(chain) : p <= q
      BY <1>1, <1>2 DEF ListSound, FirstStays
    <3>2. Len(chain) \in Nat
      BY <1>1 DEF ListTypeOK
    <3>3. QED BY <3>1, <3>2
  <2>4. \A p \in 1..Len(chain) : first_node # NULL => \E q \in 1..p : chain[q] = first_node
    BY <2>3
  <2>5. first_node = NULL => \A p \in 1..Len(chain) : FALSE
    BY <1>1, <1>2, ListAssumption DEF ListSound, FirstStays, ListTypeOK
  <2>6. \A m : ~ \E p \in 1..Len(chain') : \A q \in 1..p : chain'[q] # list_node'
    BY <2>2, <2>4, <2>5
  <2>7. \A k, l \in 1..Len(nodes') : nodes'[k] = nodes'[l] => k = l
    BY <2>1
  <2>8. list_node' # NULL => list_loop' = "walking" /\ \E p \in 1..Len(chain') : chain'[p] = list_node'
    BY <2>2, <2>3
  <2>9. QED BY <1>4, <2>6, <2>7, <2>8 DEF NotedOnce
<1>8. undefined' = undefined
  BY DEF ListCommand
<1>9. QED BY <1>1, <1>3, <1>5, <1>6, <1>7, <1>8 DEF ListInv, ListSound

\* A loop ends: what it leaves is as it was.
LEMMA DoneKeeps ==
  ASSUME ListInv, MeetDone \/ DeleteDone
  PROVE  ListInv'
<1>1. /\ ListTypeOK /\ ListSound /\ list_loop # "idle" /\ ~ undefined
      /\ UNCHANGED <<first_node, last_node, memory, live, undefined, list_cmd,
                     list_line, list_node, nodes, list_printed, chain, cut>>
      /\ list_node = NULL
  BY DEF ListInv, MeetDone, DeleteDone, ListSound, NotedOnce
<1>2. list_loop' \in {"idle", "walking", "deleting"}
  BY DEF MeetDone, DeleteDone
<1>3. ListTypeOK'
  BY <1>1, <1>2 DEF ListTypeOK
<1>4. OnceEach' /\ Linked' /\ FirstStays' /\ LastStays'
  BY <1>1 DEF ListSound, OnceEach, Linked, FirstStays, LastStays, Noted
<1>5. NotedOnce'
  <2>1. \A m : Noted(m)' <=> Noted(m)
    BY <1>1 DEF Noted
  <2>2. \A m : Dropping(m)' <=> Dropping(m)
    BY <1>1 DEF Dropping
  <2>3. list_loop' = "idle" => \A m : ~ Noted(m)
    <3>1. CASE MeetDone
      <4>1. list_loop' = "idle" => list_cmd # "REMOVE_PASSWORD"
        BY <3>1 DEF MeetDone
      <4>2. QED BY <1>1, <4>1 DEF ListSound, NotedOnce, Dropping
    <3>2. CASE DeleteDone
      BY <3>2 DEF DeleteDone, Noted
    <3>3. QED BY <3>1, <3>2
  <2>4. \A m : Noted(m) <=> /\ list_loop # "idle"
                            /\ \E p \in 1..Len(chain) :
                                 /\ chain[p] = m /\ Dropping(m)
                                 /\ \A q \in 1..p : chain[q] # list_node
    BY <1>1 DEF ListSound, NotedOnce
  <2>5. list_loop' = "idle" => \A m : ~ \E p \in 1..Len(chain) :
                                 /\ chain[p] = m /\ Dropping(m)
                                 /\ \A q \in 1..p : chain[q] # list_node
    BY <1>1, <2>3, <2>4
  <2>6. \A m : Noted(m)' <=> /\ list_loop' # "idle"
                            /\ \E p \in 1..Len(chain') :
                                 /\ chain'[p] = m /\ Dropping(m)'
                                 /\ \A q \in 1..p : chain'[q] # list_node'
    <3> SUFFICES ASSUME NEW m
                 PROVE Noted(m)' <=> /\ list_loop' # "idle"
                            /\ \E p \in 1..Len(chain') :
                                 /\ chain'[p] = m /\ Dropping(m)'
                                 /\ \A q \in 1..p : chain'[q] # list_node'
      OBVIOUS
    <3>1. CASE list_loop' = "idle"
      BY <2>1, <2>3, <3>1
    <3>2. CASE list_loop' # "idle"
      BY <1>1, <2>1, <2>2, <2>4, <3>2
    <3>3. QED BY <3>1, <3>2
  <2>7. QED BY <1>1, <2>6 DEF ListSound, NotedOnce
<1>6. QED BY <1>1, <1>3, <1>4, <1>5 DEF ListInv, ListSound

\* What malloc gives is a node that no link leads to; it goes behind the last one.
LEMMA AddKeeps ==
  ASSUME ListInv, NEW pair \in Pair, ListAdd(pair)
  PROVE  ListInv'
<1>1. ListTypeOK /\ ListSound /\ list_loop = "idle" /\ ~ undefined
  BY DEF ListInv, ListAdd
<1>2. nodes = <<>> /\ list_node = NULL /\ \A m : ~ Noted(m)
  BY <1>1, NothingNoted DEF ListSound
<1> DEFINE z == Len(chain)
           fill(x) == [data |-> pair, next_node |-> NULL, prev_node |-> last_node]
<1>3. PICK me \in Node \ live :
        /\ memory' = IF last_node \in live
                     THEN [[memory EXCEPT ![me] = fill(me)] EXCEPT ![last_node].next_node = me]
                     ELSE [memory EXCEPT ![me] = fill(me)]
        /\ undefined' = (last_node \notin live \cup {NULL})
        /\ last_node' = me
        /\ first_node' = IF first_node = NULL THEN me ELSE first_node
        /\ live' = live \cup {me}
        /\ chain' = Append(chain, me)
  BY DEF ListAdd, push_back_list
<1>4. /\ UNCHANGED <<list_loop, list_cmd, list_line, list_node, nodes, cut>>
      /\ list_printed' = <<>>
  BY DEF ListAdd
<1>5. /\ chain \in Seq(Node) /\ z \in Nat /\ me \in Node /\ me # NULL
      /\ memory \in [Node -> NodeRecord \cup {FreeContent}]
      /\ last_node \in Node \cup {NULL}
      /\ \A p \in 1..z : chain[p] \in Node /\ chain[p] # me /\ chain[p] # NULL
  BY <1>1, <1>3, ListAssumption DEF ListTypeOK, ListSound, OnceEach
<1>6. fill(me) \in NodeRecord
  BY <1>5 DEF NodeRecord
<1>7. \A m \in live : memory[m] \in NodeRecord
  BY <1>1 DEF ListSound, OnceEach, Linked
<1>8. \A m \in Node : memory'[m] = IF m = me THEN fill(me)
                                   ELSE IF m = last_node /\ m \in live
                                        THEN [memory[m] EXCEPT !.next_node = me]
                                        ELSE memory[m]
  <2> HIDE DEF fill
  <2>1. QED BY <1>1, <1>3, <1>5 DEF ListTypeOK
<1>9. memory' \in [Node -> NodeRecord \cup {FreeContent}]
  <2>1. \A m \in live : [memory[m] EXCEPT !.next_node = me] \in NodeRecord
    BY <1>5, <1>7 DEF NodeRecord
  <2>2. \A m \in Node : memory'[m] \in NodeRecord \cup {FreeContent}
    BY <1>5, <1>6, <1>8, <2>1
  <2>3. memory' = [m \in Node |-> memory'[m]]
    BY <1>1, <1>3, <1>5 DEF ListTypeOK
  <2>4. QED BY <2>2, <2>3
<1>10. ListTypeOK'
  <2>1. chain' \in Seq(Node)
    BY <1>3, <1>5
  <2>2. list_printed' \in Seq(Pair)
    BY <1>4
  <2>3. first_node' \in Node \cup {NULL} /\ last_node' \in Node \cup {NULL} /\ live' \subseteq Node
        /\ undefined' \in BOOLEAN
    BY <1>1, <1>3 DEF ListTypeOK
  <2>4. QED BY <1>1, <1>4, <1>9, <2>1, <2>2, <2>3 DEF ListTypeOK
<1>11. ASSUME ~ undefined' PROVE ListSound'
  <2>1. last_node \in live \cup {NULL}
    BY <1>3, <1>11
  <2>2. ~ cut
    <3>1. cut => last_node # NULL /\ \A p \in 1..z : last_node # chain[p]
      BY <1>1, <1>2 DEF ListSound, LastStays
    <3>2. last_node \in live => \E p \in 1..z : chain[p] = last_node
      BY <1>1 DEF ListSound, OnceEach
    <3>3. QED BY <2>1, <3>1, <3>2
  <2>3. /\ z = 0 => last_node = NULL
        /\ z # 0 => last_node = chain[z] /\ last_node \in live
    <3>1. \/ last_node = NULL /\ \A p \in 1..z : FALSE
          \/ \E p \in 1..z : last_node = chain[p] /\ \A q \in 1..z : q <= p
      BY <1>1, <1>2, <2>2 DEF ListSound, LastStays
    <3>2. QED BY <1>1, <1>5, <3>1 DEF ListSound, OnceEach
  <2>4. /\ z = 0 => first_node = NULL
        /\ z # 0 => first_node = chain[1]
    <3>1. \/ first_node = NULL /\ \A p \in 1..z : FALSE
          \/ \E p \in 1..z : first_node = chain[p] /\ \A q \in 1..z : p <= q
      BY <1>1, <1>2 DEF ListSound, FirstStays
    <3>2. QED BY <1>5, <3>1
  <2>5. /\ Len(chain') = z + 1 /\ chain'[z + 1] = me
        /\ \A p \in 1..z : chain'[p] = chain[p]
        /\ \A p \in 1..(z + 1) : p \in 1..z \/ p = z + 1
    BY <1>3, <1>5
  <2> HIDE DEF z
  <2>6. \A m : ~ Noted(m)'
    BY <1>2, <1>4 DEF Noted
  <2>7. OnceEach'
    <3>1. \A p \in 1..Len(chain') : chain'[p] \in live'
      BY <1>1, <1>3, <2>5 DEF ListSound, OnceEach, z
    <3>2. ASSUME NEW m \in live' PROVE \E p \in 1..Len(chain') : chain'[p] = m
      <4>1. CASE m = me
        BY <1>5, <2>5, <4>1
      <4>2. CASE m \in live
        <5>1. PICK p \in 1..z : chain[p] = m
          BY <1>1, <4>2 DEF ListSound, OnceEach, z
        <5>2. p \in 1..(z + 1)
          BY <1>5
        <5>3. QED BY <2>5, <5>1, <5>2
      <4>3. QED BY <1>3, <4>1, <4>2
    <3>3. ASSUME NEW p \in 1..Len(chain'), NEW q \in 1..Len(chain'), chain'[p] = chain'[q]
          PROVE  p = q
      BY <1>1, <1>5, <2>5, <3>3 DEF ListSound, OnceEach, z
    <3>4. QED BY <3>1, <3>2, <3>3 DEF OnceEach
  <2>8. Linked'
    <3> SUFFICES ASSUME NEW p \in 1..Len(chain')
                 PROVE  /\ memory'[chain'[p]] \in NodeRecord
                        /\ memory'[chain'[p]].next_node = IF p = Len(chain') THEN NULL ELSE chain'[p + 1]
                        /\ memory'[chain'[p]].prev_node = IF p = 1 THEN NULL ELSE chain'[p - 1]
      BY DEF Linked
    <3>1. CASE p = z + 1
      <4>1. memory'[chain'[p]] = fill(me)
        BY <1>5, <1>8, <2>5, <3>1
      <4>2. last_node = IF p = 1 THEN NULL ELSE chain'[p - 1]
        BY <1>5, <2>3, <2>5, <3>1
      <4>3. QED BY <1>6, <2>5, <3>1, <4>1, <4>2
    <3>2. CASE p \in 1..z
      <4>1. /\ chain'[p] = chain[p] /\ chain[p] \in Node /\ chain[p] # me
            /\ memory[chain[p]] \in NodeRecord
            /\ memory[chain[p]].next_node = IF p = z THEN NULL ELSE chain[p + 1]
            /\ memory[chain[p]].prev_node = IF p = 1 THEN NULL ELSE chain[p - 1]
        BY <1>1, <1>5, <2>5, <3>2 DEF ListSound, Linked, z
      <4>2. chain[p] = last_node /\ chain[p] \in live <=> p = z
        BY <1>1, <1>5, <2>3, <3>2 DEF ListSound, OnceEach, z
      <4>3. /\ p # 1 => p - 1 \in 1..z
            /\ p # z => p + 1 \in 1..z
            /\ p # Len(chain')
        BY <1>5, <2>5, <3>2
      <4>4. CASE p = z
        <5>1. memory'[chain[p]] = [memory[chain[p]] EXCEPT !.next_node = me]
          BY <1>8, <4>1, <4>2, <4>4
        <5>2. /\ memory'[chain[p]] \in NodeRecord /\ memory'[chain[p]].next_node = me
              /\ memory'[chain[p]].prev_node = memory[chain[p]].prev_node
          BY <1>5, <4>1, <5>1 DEF NodeRecord
        <5>3. QED BY <2>5, <4>1, <4>3, <4>4, <5>2
      <4>5. CASE p # z
        BY <1>8, <2>5, <4>1, <4>2, <4>3, <4>5
      <4>6. QED BY <4>4, <4>5
    <3>3. QED BY <2>5, <3>1, <3>2
  <2>9. FirstStays'
    <3>1. 1 \in 1..Len(chain') /\ first_node' = chain'[1]
      BY <1>3, <1>5, <2>4, <2>5
    <3>2. \A q \in 1..Len(chain') : 1 <= q
      BY <1>5, <2>5
    <3>3. QED BY <2>6, <3>1, <3>2 DEF FirstStays
  <2>10. LastStays'
    <3>1. z + 1 \in 1..Len(chain') /\ last_node' = chain'[z + 1] /\ ~ cut'
      BY <1>3, <1>4, <1>5, <2>2, <2>5
    <3>2. \A q \in 1..Len(chain') : q <= z + 1
      BY <1>5, <2>5
    <3>3. QED BY <2>6, <3>1, <3>2 DEF LastStays
  <2>11. NotedOnce'
    <3>1. Len(nodes') = 0 /\ list_node' = NULL /\ list_loop' = "idle"
      BY <1>1, <1>2, <1>4
    <3>2. QED BY <2>6, <3>1 DEF NotedOnce
  <2>12. QED BY <2>7, <2>8, <2>9, <2>10, <2>11 DEF ListSound
<1>12. QED BY <1>1, <1>4, <1>10, <1>11 DEF ListInv

\* A turn of the walk.  Behind the node it meets are the nodes not met yet, all of
\* which stay so far.
LEMMA MeetKeeps ==
  ASSUME ListInv, Meet
  PROVE  ListInv'
<1> DEFINE z == Len(chain)
           m == list_node
<1>1. ListTypeOK /\ ListSound /\ list_loop = "walking" /\ ~ undefined /\ m # NULL
  BY DEF ListInv, Meet
<1>2. /\ UNCHANGED <<memory, live, undefined, list_loop, list_cmd, list_line, chain>>
      /\ list_node' = memory[m].next_node
      /\ list_printed' = IF Printing(m) THEN Append(list_printed, memory[m].data) ELSE list_printed
  BY DEF Meet
<1>3. PICK p \in 1..z : chain[p] = m
  BY <1>1 DEF ListSound, NotedOnce
<1>4. /\ chain \in Seq(Node) /\ z \in Nat /\ nodes \in Seq(Node) /\ Len(nodes) \in Nat
      /\ m \in Node /\ memory[m] \in NodeRecord
      /\ \A q \in 1..z : chain[q] \in Node /\ chain[q] # NULL
      /\ \A q, r \in 1..z : chain[q] = chain[r] => q = r
  <2>1. /\ chain \in Seq(Node) /\ z \in Nat /\ nodes \in Seq(Node) /\ Len(nodes) \in Nat
        /\ \A q \in 1..z : chain[q] \in Node
    BY <1>1 DEF ListTypeOK
  <2>2. \A q \in 1..z : chain[q] # NULL
    BY <2>1, ListAssumption
  <2>3. memory[m] \in NodeRecord /\ m \in Node
    BY <1>1, <1>3, <2>1 DEF ListSound, Linked
  <2>4. \A q, r \in 1..z : chain[q] = chain[r] => q = r
    BY <1>1 DEF ListSound, OnceEach
  <2>5. QED BY <2>1, <2>2, <2>3, <2>4
<1>5. /\ memory[m].data \in Pair
      /\ memory[m].next_node \in Node \cup {NULL} /\ memory[m].prev_node \in Node \cup {NULL}
      /\ memory[m].next_node = IF p = z THEN NULL ELSE chain[p + 1]
      /\ memory[m].prev_node = IF p = 1 THEN NULL ELSE chain[p - 1]
  BY <1>1, <1>3, <1>4 DEF ListSound, Linked, NodeRecord
<1> HIDE DEF z, m
<1>6. \A q \in 1..z : (\A r \in 1..q : chain[r] # m) <=> q < p
  BY <1>3, <1>4
<1>7. \A q \in 1..z : (\A r \in 1..q : chain[r] # list_node') <=> q <= p
  <2>1. CASE p = z
    BY <1>2, <1>3, <1>4, <1>5, <2>1 DEF m
  <2>2. CASE p # z
    <3>1. p + 1 \in 1..z /\ list_node' = chain[p + 1]
      BY <1>2, <1>3, <1>4, <1>5, <2>2 DEF m
    <3>2. QED BY <1>3, <1>4, <3>1
  <2>3. QED BY <2>1, <2>2
<1>8. /\ \A k, l \in 1..Len(nodes) : nodes[k] = nodes[l] => k = l
      /\ \A x : Noted(x) <=> \E q \in 1..z : chain[q] = x /\ Dropping(x) /\ q < p
  <2>1. \A x : Noted(x) <=> \E q \in 1..z : chain[q] = x /\ Dropping(x) /\ \A r \in 1..q : chain[r] # m
    BY <1>1 DEF ListSound, NotedOnce, z, m
  <2>2. QED BY <1>1, <1>6, <2>1 DEF ListSound, NotedOnce
<1>9. /\ ~ Noted(m)
      /\ \A q \in 1..z : p <= q => ~ Noted(chain[q])
  <2>1. \A q \in 1..z : p <= q => ~ Noted(chain[q])
    BY <1>3, <1>4, <1>8
  <2>2. QED BY <1>3, <1>4, <2>1
<1>10. \A x : Dropping(x)' <=> Dropping(x)
  BY <1>2 DEF Dropping
<1>11. OnceEach' /\ Linked'
  BY <1>1, <1>2 DEF ListSound, OnceEach, Linked
<1>12. list_node' # NULL => list_loop' = "walking" /\ \E q \in 1..Len(chain') : chain'[q] = list_node'
  <2>1. p # z => p + 1 \in 1..z
    BY <1>3, <1>4
  <2>2. QED BY <1>1, <1>2, <1>5, <2>1 DEF z, m
<1>13. list_printed' \in Seq(Pair) /\ list_node' \in Node \cup {NULL}
  BY <1>1, <1>2, <1>5 DEF ListTypeOK
<1>14. CASE ~ Dropping(m)
  <2>1. UNCHANGED <<first_node, last_node, nodes, cut>>
    BY <1>14 DEF Meet, m
  <2>2. ListTypeOK'
    BY <1>1, <1>2, <1>13, <2>1 DEF ListTypeOK
  <2>3. \A x : Noted(x)' <=> Noted(x)
    BY <2>1 DEF Noted
  <2>4. FirstStays' /\ LastStays'
    BY <1>1, <1>2, <2>1, <2>3 DEF ListSound, FirstStays, LastStays
  <2>5. \A x : Noted(x)' <=> \E q \in 1..z : chain[q] = x /\ Dropping(x) /\ q <= p
    <3>1. \A q \in 1..z : Dropping(chain[q]) /\ q <= p <=> Dropping(chain[q]) /\ q < p
      BY <1>3, <1>4, <1>14
    <3>2. QED BY <1>8, <2>3, <3>1
  <2>6. \A x : Noted(x)' <=> \E q \in 1..z : chain[q] = x /\ Dropping(x) /\ \A r \in 1..q : chain[r] # list_node'
    BY <1>7, <2>5
  <2>7. NotedOnce'
    BY <1>1, <1>2, <1>8, <1>10, <1>12, <2>1, <2>6 DEF NotedOnce, z
  <2>8. QED BY <1>1, <1>2, <1>11, <2>2, <2>4, <2>7 DEF ListInv, ListSound
<1>15. CASE Dropping(m)
  <2>1. /\ first_node' = IF first_node = m THEN memory[m].next_node ELSE first_node
        /\ last_node' = IF last_node = m THEN memory[m].prev_node ELSE last_node
        /\ nodes' = Append(nodes, m)
        /\ cut' = (cut \/ (memory[m].next_node = NULL /\ Noted(memory[m].prev_node)))
    <3>1. ToSet(nodes) = {nodes[k] : k \in 1..Len(nodes)}
      BY <1>4 DEF ToSet
    <3>2. memory[m].prev_node \in ToSet(nodes) <=> Noted(memory[m].prev_node)
      BY <3>1 DEF Noted
    <3>3. QED BY <1>15, <3>2 DEF Meet, NoteMatch, LastWithout, m
  <2>2. ListTypeOK'
    <3>1. nodes' \in Seq(Node)
      BY <1>4, <2>1
    <3>2. first_node' \in Node \cup {NULL} /\ last_node' \in Node \cup {NULL} /\ cut' \in BOOLEAN
      BY <1>1, <1>5, <2>1 DEF ListTypeOK
    <3>3. QED BY <1>1, <1>2, <1>13, <3>1, <3>2 DEF ListTypeOK
  <2>3. /\ Len(nodes') = Len(nodes) + 1 /\ nodes'[Len(nodes) + 1] = m
        /\ \A k \in 1..Len(nodes) : nodes'[k] = nodes[k]
        /\ \A k \in 1..(Len(nodes) + 1) : k \in 1..Len(nodes) \/ k = Len(nodes) + 1
    BY <1>4, <2>1
  <2>4. \A x : Noted(x)' <=> Noted(x) \/ x = m
    <3> SUFFICES ASSUME NEW x PROVE Noted(x)' <=> Noted(x) \/ x = m
      OBVIOUS
    <3>1. Noted(x)' <=> \E k \in 1..(Len(nodes) + 1) : nodes'[k] = x
      BY <2>3 DEF Noted
    <3>2. \A k \in 1..Len(nodes) : k \in 1..(Len(nodes) + 1)
      BY <1>4
    <3>3. Len(nodes) + 1 \in 1..(Len(nodes) + 1)
      BY <1>4
    <3>4. QED BY <2>3, <3>1, <3>2, <3>3 DEF Noted
  <2>11. \A q : Noted(chain[q])' <=> Noted(chain[q]) \/ chain[q] = m
    <3>1. chain' = chain
      BY <1>2
    <3>2. QED BY <2>4, <3>1 DEF Noted
  <2>5. \A k, l \in 1..Len(nodes') : nodes'[k] = nodes'[l] => k = l
    <3>1. \A k \in 1..Len(nodes) : nodes[k] # m
      BY <1>9 DEF Noted
    <3>2. QED BY <1>8, <2>3, <3>1
  <2>6. \A x : Noted(x)' <=> \E q \in 1..z : chain[q] = x /\ Dropping(x) /\ q <= p
    <3>1. ASSUME NEW x, Noted(x) \/ x = m
          PROVE  \E q \in 1..z : chain[q] = x /\ Dropping(x) /\ q <= p
      BY <1>3, <1>4, <1>8, <1>15, <3>1
    <3>2. ASSUME NEW x, NEW q \in 1..z, chain[q] = x, Dropping(x), q <= p
          PROVE  Noted(x) \/ x = m
      BY <1>3, <1>4, <1>8, <3>2
    <3>3. QED BY <2>4, <3>1, <3>2
  <2>7. NotedOnce'
    <3>1. \A x : Noted(x)' <=> \E q \in 1..z : chain[q] = x /\ Dropping(x)
                                               /\ \A r \in 1..q : chain[r] # list_node'
      BY <1>7, <2>6
    <3>2. QED BY <1>1, <1>2, <1>10, <1>12, <2>5, <3>1 DEF NotedOnce, z
  <2>8. FirstStays'
    <3>1. first_node # NULL
      BY <1>1, <1>3, <1>4, <1>9 DEF ListSound, FirstStays, z
    <3>2. PICK a \in 1..z : /\ first_node = chain[a] /\ ~ Noted(chain[a])
                            /\ \A q \in 1..z : ~ Noted(chain[q]) => a <= q
      BY <1>1, <3>1 DEF ListSound, FirstStays, z
    <3>3. a <= p
      BY <1>3, <1>9, <3>2
    <3>4. CASE a # p
      <4>1. first_node' = chain[a] /\ chain[a] # m
        BY <1>3, <1>4, <2>1, <3>2, <3>4
      <4>2. \A q \in 1..z : ~ Noted(chain[q])' => a <= q
        BY <2>11, <3>2
      <4>3. QED BY <1>2, <2>11, <3>2, <4>1, <4>2 DEF FirstStays, z
    <3>5. CASE a = p
      <4>1. first_node' = memory[m].next_node
        BY <1>3, <2>1, <3>2, <3>5
      <4>2. \A q \in 1..z : q <= p => Noted(chain[q])'
        BY <1>3, <1>4, <2>11, <3>2, <3>5
      <4>3. CASE p = z
        <5>1. first_node' = NULL /\ \A q \in 1..z : Noted(chain[q])'
          BY <1>4, <1>5, <4>1, <4>2, <4>3
        <5>2. QED BY <1>2, <5>1 DEF FirstStays, z
      <4>4. CASE p # z
        <5>1. p + 1 \in 1..z /\ first_node' = chain[p + 1]
          BY <1>3, <1>4, <1>5, <4>1, <4>4
        <5>2. ~ Noted(chain[p + 1])'
          BY <1>3, <1>4, <1>9, <2>11, <5>1
        <5>3. \A q \in 1..z : ~ Noted(chain[q])' => p + 1 <= q
          BY <1>4, <4>2
        <5>4. QED BY <1>2, <5>1, <5>2, <5>3 DEF FirstStays, z
      <4>5. QED BY <4>3, <4>4
    <3>6. QED BY <3>4, <3>5
  <2>9. LastStays'
    <3>1. CASE cut
      <4>1. last_node # NULL /\ \A q \in 1..z : last_node = chain[q] => Noted(chain[q])
        BY <1>1, <3>1 DEF ListSound, LastStays, z
      <4>2. last_node' = last_node /\ cut'
        BY <1>3, <1>9, <2>1, <3>1, <4>1
      <4>3. QED BY <1>2, <2>11, <4>1, <4>2 DEF LastStays, z
    <3>2. CASE ~ cut
      <4>1. PICK a \in 1..z : /\ last_node = chain[a] /\ ~ Noted(chain[a])
                              /\ \A q \in 1..z : ~ Noted(chain[q]) => q <= a
        BY <1>1, <1>3, <1>9, <3>2 DEF ListSound, LastStays, z
      <4>2. a = z
        <5>1. ~ Noted(chain[z]) /\ z \in 1..z
          BY <1>3, <1>4, <1>9
        <5>2. QED BY <1>4, <4>1, <5>1
      <4>3. CASE p # z
        <5>1. last_node' = chain[z] /\ chain[z] # m /\ z \in 1..z
          BY <1>3, <1>4, <2>1, <4>1, <4>2, <4>3
        <5>2. ~ cut'
          <6>1. p + 1 \in 1..z
            BY <1>3, <1>4, <4>3
          <6>2. memory[m].next_node # NULL
            BY <1>4, <1>5, <4>3, <6>1
          <6>3. QED BY <2>1, <3>2, <6>2
        <5>3. ~ Noted(chain[a])'
          BY <2>11, <4>1, <4>2, <5>1
        <5>4. \A q \in 1..z : q <= a
          BY <1>4, <4>2
        <5>5. QED BY <1>2, <4>2, <5>1, <5>2, <5>3, <5>4 DEF LastStays, z
      <4>4. CASE p = z
        <5>1. last_node' = memory[m].prev_node
          BY <1>3, <2>1, <4>1, <4>2, <4>4
        <5>2. CASE p = 1
          <6>1. last_node' = NULL /\ \A q \in 1..z : Noted(chain[q])'
            BY <1>3, <1>4, <1>5, <2>11, <4>4, <5>1, <5>2
          <6>2. ~ Noted(NULL)
            BY <1>4, <1>8
          <6>3. ~ cut'
            BY <1>5, <2>1, <3>2, <5>2, <6>2
          <6>4. QED BY <1>2, <6>1, <6>3 DEF LastStays, z
        <5>3. CASE p # 1
          <6>1. p - 1 \in 1..z /\ last_node' = chain[p - 1] /\ memory[m].next_node = NULL
                /\ memory[m].prev_node = chain[p - 1]
            BY <1>3, <1>4, <1>5, <4>4, <5>1, <5>3
          <6>2. cut' <=> Noted(chain[p - 1])
            BY <2>1, <3>2, <6>1
          <6>3. CASE Noted(chain[p - 1])
            <7>1. \A q \in 1..z : last_node' = chain[q] => Noted(chain[q])'
              BY <2>11, <6>1, <6>3
            <7>2. QED BY <1>2, <1>4, <6>1, <6>2, <6>3, <7>1 DEF LastStays, z
          <6>4. CASE ~ Noted(chain[p - 1])
            <7>1. chain[p - 1] # m
              BY <1>3, <1>4, <6>1
            <7>2. \A q \in 1..z : ~ Noted(chain[q])' => q <= p - 1
              BY <1>3, <1>4, <2>11, <4>4
            <7>3. ~ Noted(chain[p - 1])' /\ ~ cut'
              BY <2>11, <6>2, <6>4, <7>1
            <7>4. QED BY <1>2, <6>1, <7>2, <7>3 DEF LastStays, z
          <6>5. QED BY <6>3, <6>4
        <5>4. QED BY <5>2, <5>3
      <4>5. QED BY <4>3, <4>4
    <3>3. QED BY <3>1, <3>2
  <2>10. QED BY <1>1, <1>2, <1>11, <2>2, <2>7, <2>8, <2>9 DEF ListInv, ListSound
<1>16. QED BY <1>14, <1>15

\* What RemoveAt leaves: what is behind the place moves up.
LEMMA RemovedAt ==
  ASSUME NEW S, NEW s \in Seq(S), NEW p \in 1..Len(s)
  PROVE  /\ RemoveAt(s, p) \in Seq(S) /\ Len(RemoveAt(s, p)) = Len(s) - 1
         /\ \A q \in 1..(Len(s) - 1) : RemoveAt(s, p)[q] = IF q < p THEN s[q] ELSE s[q + 1]
<1> DEFINE z == Len(s)
           f == SubSeq(s, 1, p - 1)
           g == SubSeq(s, p + 1, z)
<1>1. z \in Nat /\ p \in 1..z /\ \A q \in 1..z : s[q] \in S
  OBVIOUS
<1>2. f \in Seq(S) /\ Len(f) = p - 1 /\ \A q \in 1..(p - 1) : f[q] = s[q]
  <2>1. p - 1 \in Nat /\ \A q \in 1..(p - 1) : q \in 1..z
    BY <1>1
  <2>2. f = [q \in 1..(p - 1) |-> s[q]]
    BY <1>1, <2>1
  <2>3. \A q \in 1..(p - 1) : s[q] \in S
    BY <1>1, <2>1
  <2> HIDE DEF f, z
  <2>4. QED BY <2>1, <2>2, <2>3
<1>3. g \in Seq(S) /\ Len(g) = z - p /\ \A q \in 1..(z - p) : g[q] = s[p + q]
  <2>1. z - p \in Nat /\ \A q \in 1..(z - p) : p + q \in 1..z
    BY <1>1
  <2>2. g = [q \in 1..(z - p) |-> s[p + q]]
    BY <1>1, <2>1
  <2>3. \A q \in 1..(z - p) : s[p + q] \in S
    BY <1>1, <2>1
  <2> HIDE DEF g, z
  <2>4. QED BY <2>1, <2>2, <2>3
<1>4. RemoveAt(s, p) = f \o g
  BY DEF RemoveAt
<1> HIDE DEF f, g, z
<1>5. /\ f \o g \in Seq(S) /\ Len(f \o g) = z - 1
      /\ \A q \in 1..(z - 1) : (f \o g)[q] = IF q < p THEN f[q] ELSE g[q - (p - 1)]
  <2>1. f \o g \in Seq(S) /\ Len(f \o g) = Len(f) + Len(g)
    BY <1>2, <1>3, ConcatProperties
  <2>2. \A q \in 1..(Len(f) + Len(g)) : (f \o g)[q] = IF q <= Len(f) THEN f[q] ELSE g[q - Len(f)]
    BY <1>2, <1>3, ConcatProperties
  <2>3. Len(f) + Len(g) = z - 1 /\ \A q \in 1..(z - 1) : q <= p - 1 <=> q < p
    BY <1>1, <1>2, <1>3
  <2>4. QED BY <1>2, <2>1, <2>2, <2>3
<1>6. ASSUME NEW q \in 1..(z - 1)
      PROVE  (f \o g)[q] = IF q < p THEN s[q] ELSE s[q + 1]
  <2>1. CASE q < p
    BY <1>1, <1>2, <1>5, <2>1
  <2>2. CASE ~ (q < p)
    <3>1. q - (p - 1) \in 1..(z - p) /\ p + (q - (p - 1)) = q + 1
      BY <1>1, <2>2
    <3>2. QED BY <1>3, <1>5, <2>2, <3>1
  <2>3. QED BY <2>1, <2>2
<1>7. QED BY <1>4, <1>5, <1>6 DEF z

\* delete_node links the neighbours of the node at p to each other, and touches
\* nothing else that the chain holds.
LEMMA DeletedFrom ==
  ASSUME ListTypeOK, OnceEach, Linked, NEW p \in 1..Len(chain)
  PROVE  LET mem == delete_node(chain[p])
             own == memory[chain[p]]
         IN  /\ mem \in [Node -> NodeRecord \cup {FreeContent}]
             /\ \A q \in 1..Len(chain) : q # p =>
                  /\ mem[chain[q]] \in NodeRecord
                  /\ mem[chain[q]].data = memory[chain[q]].data
                  /\ mem[chain[q]].next_node = IF q = p - 1 THEN own.next_node
                                                            ELSE memory[chain[q]].next_node
                  /\ mem[chain[q]].prev_node = IF q = p + 1 THEN own.prev_node
                                                            ELSE memory[chain[q]].prev_node
<1> DEFINE z == Len(chain)
           me == chain[p]
           prev == memory[me].prev_node
           next == memory[me].next_node
           linked == IF prev = NULL THEN memory ELSE [memory EXCEPT ![prev].next_node = next]
           unlinked == IF next = NULL THEN linked ELSE [linked EXCEPT ![next].prev_node = prev]
           mem == [unlinked EXCEPT ![me] = FreeContent]
           R == NodeRecord \cup {FreeContent}
<1>1. /\ z \in Nat /\ memory \in [Node -> R]
      /\ \A q \in 1..z : chain[q] \in Node /\ chain[q] # NULL /\ memory[chain[q]] \in NodeRecord
      /\ \A q, r \in 1..z : chain[q] = chain[r] => q = r
  BY ListAssumption DEF ListTypeOK, OnceEach, Linked
<1>2. /\ prev \in Node \cup {NULL} /\ next \in Node \cup {NULL}
      /\ prev = IF p = 1 THEN NULL ELSE chain[p - 1]
      /\ next = IF p = z THEN NULL ELSE chain[p + 1]
  BY <1>1 DEF Linked, NodeRecord
<1>3. /\ p # 1 => p - 1 \in 1..z
      /\ p # z => p + 1 \in 1..z
      /\ p - 1 # p + 1 /\ p \in 1..z
  BY <1>1
<1>4. /\ \A q \in 1..z : chain[q] = prev <=> q = p - 1
      /\ \A q \in 1..z : chain[q] = next <=> q = p + 1
      /\ \A q \in 1..z : chain[q] = me <=> q = p
  BY <1>1, <1>2, <1>3
<1> HIDE DEF z, me, prev, next, R
<1>5. /\ linked \in [Node -> R]
      /\ \A q \in 1..z : /\ linked[chain[q]] \in NodeRecord
                         /\ linked[chain[q]].data = memory[chain[q]].data
                         /\ linked[chain[q]].next_node = IF q = p - 1 THEN next
                                                          ELSE memory[chain[q]].next_node
                         /\ linked[chain[q]].prev_node = memory[chain[q]].prev_node
  <2>1. CASE prev = NULL
    BY <1>1, <1>4, <2>1
  <2>2. CASE prev # NULL
    <3> DEFINE rec == [memory[prev] EXCEPT !.next_node = next]
    <3>1. p - 1 \in 1..z /\ prev = chain[p - 1]
      BY <1>2, <1>3, <2>2
    <3>2. memory[prev] \in NodeRecord /\ prev \in Node
      BY <1>1, <3>1
    <3>3. /\ rec \in NodeRecord /\ rec.data = memory[prev].data /\ rec.next_node = next
          /\ rec.prev_node = memory[prev].prev_node
      BY <1>2, <3>2 DEF NodeRecord
    <3>4. linked = [memory EXCEPT ![prev] = rec]
      BY <2>2
    <3> HIDE DEF rec, linked
    <3>5. linked \in [Node -> R]
      BY <1>1, <3>2, <3>3, <3>4 DEF R
    <3>6. \A q \in 1..z : linked[chain[q]] = IF q = p - 1 THEN rec ELSE memory[chain[q]]
      BY <1>1, <1>4, <3>2, <3>4
    <3>7. QED BY <1>1, <3>1, <3>3, <3>5, <3>6
  <2>3. QED BY <2>1, <2>2
<1> HIDE DEF linked
<1>6. /\ unlinked \in [Node -> R]
      /\ \A q \in 1..z : /\ unlinked[chain[q]] \in NodeRecord
                         /\ unlinked[chain[q]].data = linked[chain[q]].data
                         /\ unlinked[chain[q]].next_node = linked[chain[q]].next_node
                         /\ unlinked[chain[q]].prev_node = IF q = p + 1 THEN prev
                                                            ELSE linked[chain[q]].prev_node
  <2>1. CASE next = NULL
    BY <1>1, <1>4, <1>5, <2>1
  <2>2. CASE next # NULL
    <3> DEFINE rec == [linked[next] EXCEPT !.prev_node = prev]
    <3>1. p + 1 \in 1..z /\ next = chain[p + 1]
      BY <1>2, <1>3, <2>2
    <3>2. linked[next] \in NodeRecord /\ next \in Node
      BY <1>1, <1>5, <3>1
    <3>3. /\ rec \in NodeRecord /\ rec.data = linked[next].data /\ rec.prev_node = prev
          /\ rec.next_node = linked[next].next_node
      BY <1>2, <3>2 DEF NodeRecord
    <3>4. unlinked = [linked EXCEPT ![next] = rec]
      BY <2>2
    <3> HIDE DEF rec, unlinked
    <3>5. unlinked \in [Node -> R]
      BY <1>5, <3>2, <3>3, <3>4 DEF R
    <3>6. \A q \in 1..z : unlinked[chain[q]] = IF q = p + 1 THEN rec ELSE linked[chain[q]]
      BY <1>1, <1>4, <1>5, <3>2, <3>4
    <3>7. QED BY <1>5, <3>1, <3>3, <3>5, <3>6
  <2>3. QED BY <2>1, <2>2
<1> HIDE DEF unlinked
<1>7. mem \in [Node -> R]
  BY <1>6 DEF R
<1>8. \A q \in 1..z : q # p => mem[chain[q]] = unlinked[chain[q]]
  BY <1>1, <1>4, <1>6
<1>9. delete_node(chain[p]) = mem
  BY DEF delete_node, mem, unlinked, linked, prev, next, me
<1> HIDE DEF mem
<1>10. /\ mem \in [Node -> R]
       /\ \A q \in 1..z : q # p =>
            /\ mem[chain[q]] \in NodeRecord
            /\ mem[chain[q]].data = memory[chain[q]].data
            /\ mem[chain[q]].next_node = IF q = p - 1 THEN next ELSE memory[chain[q]].next_node
            /\ mem[chain[q]].prev_node = IF q = p + 1 THEN prev ELSE memory[chain[q]].prev_node
  BY <1>5, <1>6, <1>7, <1>8
<1>11. QED BY <1>9, <1>10 DEF z, me, prev, next, R

\* One node is deleted: those that stay are where they were, seen from the ends.
LEMMA DeleteKeeps ==
  ASSUME ListInv, Delete
  PROVE  ListInv'
<1> DEFINE z == Len(chain)
           me == Head(nodes)
<1>1. ListTypeOK /\ ListSound /\ list_loop = "deleting" /\ ~ undefined /\ nodes # <<>>
  BY DEF ListInv, Delete
<1>2. /\ UNCHANGED <<first_node, last_node, undefined, list_loop, list_cmd, list_line,
                     list_node, list_printed, cut>>
      /\ memory' = delete_node(me)
      /\ live' = live \ {me}
      /\ nodes' = Tail(nodes)
      /\ chain' = RemoveAt(chain, CHOOSE q \in DOMAIN chain : chain[q] = me)
  BY DEF Delete
<1>3. /\ nodes \in Seq(Node) /\ Len(nodes) \in Nat \ {0} /\ me = nodes[1]
      /\ chain \in Seq(Node) /\ z \in Nat /\ DOMAIN chain = 1..z
      /\ \A q, r \in 1..z : chain[q] = chain[r] => q = r
      /\ \A q \in 1..z : chain[q] \in Node /\ chain[q] # NULL
  <2>1. nodes \in Seq(Node) /\ chain \in Seq(Node)
    BY <1>1 DEF ListTypeOK
  <2>2. Len(nodes) # 0
    BY <1>1, <2>1, EmptySeq
  <2>3. \A q, r \in 1..z : chain[q] = chain[r] => q = r
    BY <1>1 DEF ListSound, OnceEach
  <2>4. \A q \in 1..z : chain[q] \in Node /\ chain[q] # NULL
    BY <2>1, ListAssumption
  <2>5. QED BY <2>1, <2>2, <2>3, <2>4
<1>4. list_node = NULL
  BY <1>1 DEF ListSound, NotedOnce
<1>5. Noted(me)
  BY <1>3 DEF Noted
<1>6. \A x : Noted(x) <=> \E q \in 1..z : chain[q] = x /\ Dropping(x)
  <2>1. \A q \in 1..z : \A r \in 1..q : chain[r] # NULL
    BY <1>3
  <2>2. QED BY <1>1, <1>4, <2>1 DEF ListSound, NotedOnce
<1> HIDE DEF me
<1>7. PICK p \in 1..z : chain[p] = me
  BY <1>5, <1>6
<1>8. chain' = RemoveAt(chain, p)
  BY <1>2, <1>3, <1>7
<1>9. /\ chain' \in Seq(Node) /\ Len(chain') = z - 1
      /\ \A q \in 1..(z - 1) : chain'[q] = IF q < p THEN chain[q] ELSE chain[q + 1]
  <2>1. chain \in Seq(Node) /\ p \in 1..Len(chain)
    BY <1>3
  <2>2. /\ RemoveAt(chain, p) \in Seq(Node) /\ Len(RemoveAt(chain, p)) = Len(chain) - 1
        /\ \A q \in 1..(Len(chain) - 1) :
             RemoveAt(chain, p)[q] = IF q < p THEN chain[q] ELSE chain[q + 1]
    BY <2>1, RemovedAt
  <2>3. QED BY <1>8, <2>2
<1>10. /\ memory' \in [Node -> NodeRecord \cup {FreeContent}]
       /\ \A q \in 1..z : q # p =>
            /\ memory'[chain[q]] \in NodeRecord
            /\ memory'[chain[q]].data = memory[chain[q]].data
            /\ memory'[chain[q]].next_node = IF q = p - 1 THEN memory[me].next_node
                                                         ELSE memory[chain[q]].next_node
            /\ memory'[chain[q]].prev_node = IF q = p + 1 THEN memory[me].prev_node
                                                         ELSE memory[chain[q]].prev_node
  BY <1>1, <1>2, <1>7, DeletedFrom DEF ListSound
<1> HIDE DEF z
<1>11. /\ nodes' \in Seq(Node) /\ Len(nodes') = Len(nodes) - 1
       /\ \A k \in 1..(Len(nodes) - 1) : nodes'[k] = nodes[k + 1]
  BY <1>2, <1>3
<1>12. /\ \A k, l \in 1..Len(nodes') : nodes'[k] = nodes'[l] => k = l
       /\ \A x : Noted(x)' <=> Noted(x) /\ x # me
  <2>1. \A k, l \in 1..Len(nodes) : nodes[k] = nodes[l] => k = l
    BY <1>1 DEF ListSound, NotedOnce
  <2>2. \A k \in 1..(Len(nodes) - 1) : k + 1 \in 1..Len(nodes) /\ k + 1 # 1
    BY <1>3
  <2>3. \A k, l \in 1..Len(nodes') : nodes'[k] = nodes'[l] => k = l
    BY <1>3, <1>11, <2>1, <2>2
  <2>4. \A k \in 1..Len(nodes) : k # 1 => k - 1 \in 1..(Len(nodes) - 1) /\ (k - 1) + 1 = k
    BY <1>3
  <2>5. ASSUME NEW x PROVE Noted(x)' <=> Noted(x) /\ x # me
    <3>1. Noted(x)' <=> \E k \in 1..(Len(nodes) - 1) : nodes[k + 1] = x
      BY <1>11 DEF Noted
    <3>2. 1 \in 1..Len(nodes)
      BY <1>3
    <3>3. (\E k \in 1..(Len(nodes) - 1) : nodes[k + 1] = x) <=> \E k \in 1..Len(nodes) : k # 1 /\ nodes[k] = x
      BY <2>2, <2>4
    <3>4. (\E k \in 1..Len(nodes) : k # 1 /\ nodes[k] = x) <=> Noted(x) /\ x # me
      BY <1>3, <2>1, <3>2 DEF Noted
    <3>5. QED BY <3>1, <3>3, <3>4
  <2>6. QED BY <2>3, <2>5
\* Where a node of the chain is afterwards, and where it was before.
<1> DEFINE to(q) == IF q < p THEN q ELSE q - 1
           from(q) == IF q < p THEN q ELSE q + 1
<1>13. \A q \in 1..z : q # p => to(q) \in 1..Len(chain') /\ chain'[to(q)] = chain[q] /\ chain[q] # me
  BY <1>3, <1>7, <1>9
<1>14. \A q \in 1..Len(chain') : from(q) \in 1..z /\ from(q) # p /\ chain'[q] = chain[from(q)]
  BY <1>3, <1>9
<1>15. OnceEach'
  <2>1. \A q \in 1..Len(chain') : chain'[q] \in live'
    <3> SUFFICES ASSUME NEW q \in 1..Len(chain') PROVE chain'[q] \in live'
      OBVIOUS
    <3>1. from(q) \in 1..z /\ from(q) # p /\ chain'[q] = chain[from(q)]
      BY <1>14
    <3> HIDE DEF from
    <3>2. chain[from(q)] \in live /\ chain[from(q)] # me
      BY <1>1, <1>3, <1>7, <3>1 DEF ListSound, OnceEach, z
    <3>3. QED BY <1>2, <3>1, <3>2
  <2>2. \A m \in live' : \E q \in 1..Len(chain') : chain'[q] = m
    <3> SUFFICES ASSUME NEW m \in live' PROVE \E q \in 1..Len(chain') : chain'[q] = m
      OBVIOUS
    <3>1. m \in live /\ m # me
      BY <1>2
    <3>2. PICK q \in 1..z : chain[q] = m
      BY <1>1, <3>1 DEF ListSound, OnceEach, z
    <3>3. q # p
      BY <1>7, <3>1, <3>2
    <3>4. QED BY <1>13, <3>2, <3>3
  <2>3. \A q, r \in 1..Len(chain') : chain'[q] = chain'[r] => q = r
    <3>1. \A q, r \in 1..Len(chain') : from(q) = from(r) => q = r
      BY <1>3, <1>9
    <3> HIDE DEF from
    <3>2. QED BY <1>3, <1>14, <3>1
  <2>4. QED BY <2>1, <2>2, <2>3 DEF OnceEach
<1>16. Linked'
  <2> SUFFICES ASSUME NEW q \in 1..Len(chain')
               PROVE  /\ memory'[chain'[q]] \in NodeRecord
                      /\ memory'[chain'[q]].next_node = IF q = Len(chain') THEN NULL ELSE chain'[q + 1]
                      /\ memory'[chain'[q]].prev_node = IF q = 1 THEN NULL ELSE chain'[q - 1]
    BY DEF Linked
  <2>1. \A r \in 1..z : /\ memory[chain[r]].next_node = IF r = z THEN NULL ELSE chain[r + 1]
                        /\ memory[chain[r]].prev_node = IF r = 1 THEN NULL ELSE chain[r - 1]
    BY <1>1 DEF ListSound, Linked, z
  <2>2. /\ memory[me].next_node = IF p = z THEN NULL ELSE chain[p + 1]
        /\ memory[me].prev_node = IF p = 1 THEN NULL ELSE chain[p - 1]
    BY <1>7, <2>1
  <2>3. q \in 1..(z - 1) /\ (q # z - 1 => q + 1 \in 1..(z - 1)) /\ (q # 1 => q - 1 \in 1..(z - 1))
    BY <1>3, <1>9
  <2>4. CASE q < p
    <3>1. chain'[q] = chain[q] /\ q \in 1..z /\ q # p
      BY <1>9, <1>3, <2>3, <2>4
    <3>2. CASE q = p - 1
      <4>1. memory'[chain'[q]].next_node = IF p = z THEN NULL ELSE chain[p + 1]
        BY <1>10, <2>2, <3>1, <3>2
      <4>2. q # Len(chain') => chain'[q + 1] = chain[p + 1]
        BY <1>3, <1>9, <2>3, <3>2
      <4>3. q = Len(chain') <=> p = z
        BY <1>3, <1>9, <3>2
      <4>4. memory'[chain'[q]].prev_node = IF q = 1 THEN NULL ELSE chain[q - 1]
        BY <1>3, <1>10, <2>1, <3>1, <3>2
      <4>5. q # 1 => chain'[q - 1] = chain[q - 1]
        BY <1>3, <1>9, <2>3, <2>4
      <4>6. QED BY <1>10, <3>1, <4>1, <4>2, <4>3, <4>4, <4>5
    <3>3. CASE q # p - 1
      <4>1. q # z /\ q # Len(chain') /\ chain'[q + 1] = chain[q + 1]
        BY <1>3, <1>9, <2>3, <2>4, <3>3
      <4>2. q # 1 => chain'[q - 1] = chain[q - 1]
        BY <1>3, <1>9, <2>3, <2>4
      <4>3. q # p + 1
        BY <1>3, <2>4
      <4>4. QED BY <1>10, <2>1, <3>1, <3>3, <4>1, <4>2, <4>3
    <3>4. QED BY <3>2, <3>3
  <2>5. CASE ~ (q < p)
    <3>1. chain'[q] = chain[q + 1] /\ q + 1 \in 1..z /\ q + 1 # p /\ q + 1 # p - 1
      BY <1>9, <1>3, <2>3, <2>5
    <3>2. memory'[chain'[q]].next_node = IF q = Len(chain') THEN NULL ELSE chain'[q + 1]
      <4>1. memory'[chain'[q]].next_node = IF q + 1 = z THEN NULL ELSE chain[(q + 1) + 1]
        BY <1>10, <2>1, <3>1
      <4>2. q # Len(chain') => chain'[q + 1] = chain[(q + 1) + 1]
        BY <1>3, <1>9, <2>3, <2>5
      <4>3. q = Len(chain') <=> q + 1 = z
        BY <1>3, <1>9, <2>3
      <4>4. QED BY <4>1, <4>2, <4>3
    <3>3. memory'[chain'[q]].prev_node = IF q = 1 THEN NULL ELSE chain'[q - 1]
      <4>1. CASE q = p
        <5>1. memory'[chain'[q]].prev_node = IF p = 1 THEN NULL ELSE chain[p - 1]
          BY <1>10, <2>2, <3>1, <4>1
        <5>2. q # 1 => chain'[q - 1] = chain[p - 1]
          BY <1>3, <1>9, <2>3, <4>1
        <5>3. QED BY <4>1, <5>1, <5>2
      <4>2. CASE q # p
        <5>1. q # 1 /\ q + 1 # p + 1 /\ q + 1 # 1 /\ (q + 1) - 1 = q
          BY <1>3, <2>3, <2>5, <4>2
        <5>2. memory'[chain'[q]].prev_node = chain[q]
          BY <1>10, <2>1, <3>1, <5>1
        <5>3. chain'[q - 1] = chain[q]
          <6>1. q - 1 \in 1..(z - 1) /\ ~ (q - 1 < p) /\ (q - 1) + 1 = q
            BY <1>3, <2>3, <2>5, <4>2, <5>1
          <6> DEFINE k == q - 1
          <6>2. k \in 1..(z - 1) /\ ~ (k < p) /\ k + 1 = q
            BY <6>1
          <6> HIDE DEF k
          <6>3. chain'[k] = chain[q]
            BY <1>9, <6>2
          <6>4. QED BY <6>3 DEF k
        <5>4. QED BY <5>1, <5>2, <5>3
      <4>3. QED BY <4>1, <4>2
    <3>4. QED BY <1>10, <3>1, <3>2, <3>3
  <2>6. QED BY <2>4, <2>5
<1>17. ~ Noted(chain[p]) => FALSE
  BY <1>5, <1>7
<1>18. \A q \in 1..Len(chain') : Noted(chain[q])' <=> Noted(chain[from(q)])
  <2> SUFFICES ASSUME NEW q \in 1..Len(chain') PROVE Noted(chain[q])' <=> Noted(chain[from(q)])
    OBVIOUS
  <2>1. chain'[q] = chain[from(q)] /\ chain[from(q)] # me
    BY <1>13, <1>14
  <2> HIDE DEF from
  <2>2. QED BY <1>12, <2>1 DEF Noted
<1>19. FirstStays'
  <2>1. CASE first_node = NULL /\ \A q \in 1..z : Noted(chain[q])
    <3>1. \A q \in 1..Len(chain') : Noted(chain[q])'
      BY <1>14, <1>18, <2>1
    <3>2. QED BY <1>2, <2>1, <3>1 DEF FirstStays
  <2>2. CASE \E a \in 1..z : /\ first_node = chain[a] /\ ~ Noted(chain[a])
                             /\ \A q \in 1..z : ~ Noted(chain[q]) => a <= q
    <3>1. PICK a \in 1..z : /\ first_node = chain[a] /\ ~ Noted(chain[a])
                            /\ \A q \in 1..z : ~ Noted(chain[q]) => a <= q
      BY <2>2
    <3>2. a # p
      BY <1>17, <3>1
    <3>3. to(a) \in 1..Len(chain') /\ from(to(a)) = a /\ chain'[to(a)] = chain[a]
      BY <1>3, <1>13, <3>2
    <3>4. \A q \in 1..Len(chain') : a <= from(q) => to(a) <= q
      BY <1>3, <1>9, <3>2
    <3> HIDE DEF from, to
    <3>5. ~ Noted(chain[to(a)])'
      BY <1>18, <3>1, <3>3
    <3>6. \A q \in 1..Len(chain') : ~ Noted(chain[q])' => to(a) <= q
      BY <1>14, <1>18, <3>1, <3>4
    <3>7. QED BY <1>2, <3>1, <3>3, <3>5, <3>6 DEF FirstStays
  <2>3. QED BY <1>1, <2>1, <2>2 DEF ListSound, FirstStays, z
<1>20. LastStays'
  <2>1. CASE cut
    <3>1. last_node # NULL /\ \A q \in 1..z : last_node = chain[q] => Noted(chain[q])
      BY <1>1, <2>1 DEF ListSound, LastStays, z
    <3>2. \A q \in 1..Len(chain') : last_node = chain'[q] => Noted(chain[q])'
      BY <1>14, <1>18, <3>1
    <3>3. QED BY <1>2, <2>1, <3>1, <3>2 DEF LastStays
  <2>2. CASE ~ cut /\ last_node = NULL /\ \A q \in 1..z : Noted(chain[q])
    <3>1. \A q \in 1..Len(chain') : Noted(chain[q])'
      BY <1>14, <1>18, <2>2
    <3>2. QED BY <1>2, <2>2, <3>1 DEF LastStays
  <2>3. CASE ~ cut /\ \E a \in 1..z : /\ last_node = chain[a] /\ ~ Noted(chain[a])
                                      /\ \A q \in 1..z : ~ Noted(chain[q]) => q <= a
    <3>1. PICK a \in 1..z : /\ last_node = chain[a] /\ ~ Noted(chain[a])
                            /\ \A q \in 1..z : ~ Noted(chain[q]) => q <= a
      BY <2>3
    <3>2. a # p
      BY <1>17, <3>1
    <3>3. to(a) \in 1..Len(chain') /\ from(to(a)) = a /\ chain'[to(a)] = chain[a]
      BY <1>3, <1>13, <3>2
    <3>4. \A q \in 1..Len(chain') : from(q) <= a => q <= to(a)
      BY <1>3, <1>9, <3>2
    <3> HIDE DEF from, to
    <3>5. ~ Noted(chain[to(a)])'
      BY <1>18, <3>1, <3>3
    <3>6. \A q \in 1..Len(chain') : ~ Noted(chain[q])' => q <= to(a)
      BY <1>14, <1>18, <3>1, <3>4
    <3>7. QED BY <1>2, <2>3, <3>1, <3>3, <3>5, <3>6 DEF LastStays
  <2>4. QED BY <1>1, <2>1, <2>2, <2>3 DEF ListSound, LastStays, z
<1>21. NotedOnce'
  <2>1. \A q \in 1..z : q # p => (Dropping(chain[q]) <=> list_cmd' = "REMOVE_PASSWORD"
                                     /\ memory'[chain[q]].data.first = list_line')
    BY <1>2, <1>10 DEF Dropping
  <2>2. \A x : Noted(x)' <=> \E q \in 1..Len(chain') : chain'[q] = x /\ Dropping(x)'
    <3>1. ASSUME NEW x, Noted(x)' PROVE \E q \in 1..Len(chain') : chain'[q] = x /\ Dropping(x)'
      <4>1. Noted(x) /\ x # me
        BY <1>12, <3>1
      <4>2. PICK q \in 1..z : chain[q] = x /\ Dropping(x)
        BY <1>6, <4>1
      <4>3. q # p
        BY <1>7, <4>1, <4>2
      <4>4. Dropping(x)'
        BY <2>1, <4>2, <4>3 DEF Dropping
      <4>5. QED BY <1>13, <4>2, <4>3, <4>4
    <3>2. ASSUME NEW x, NEW q \in 1..Len(chain'), chain'[q] = x, Dropping(x)' PROVE Noted(x)'
      <4>1. from(q) \in 1..z /\ from(q) # p /\ x = chain[from(q)] /\ x # me
        BY <1>13, <1>14, <3>2
      <4> HIDE DEF from
      <4>2. Dropping(x)
        BY <2>1, <3>2, <4>1 DEF Dropping
      <4>3. QED BY <1>6, <1>12, <4>1, <4>2
    <3>3. QED BY <3>1, <3>2
  <2>3. \A q \in 1..Len(chain') : \A r \in 1..q : chain'[r] # list_node'
    <3>1. \A q \in 1..Len(chain') : chain'[q] # list_node'
      BY <1>2, <1>3, <1>4, <1>14
    <3>2. \A q \in 1..Len(chain') : \A r \in 1..q : r \in 1..Len(chain')
      BY <1>3, <1>9
    <3>3. QED BY <3>1, <3>2
  <2>4. list_node' = NULL /\ list_loop' = "deleting"
    BY <1>1, <1>2, <1>4
  <2>5. QED BY <1>12, <2>2, <2>3, <2>4 DEF NotedOnce
<1>22. ListTypeOK'
  BY <1>1, <1>2, <1>9, <1>10, <1>11 DEF ListTypeOK
<1>23. QED BY <1>1, <1>2, <1>15, <1>16, <1>19, <1>20, <1>21, <1>22 DEF ListInv, ListSound

\* Every step of run_list keeps the invariant.
LEMMA ListStep == ListInv /\ [ListNext]_listVars => ListInv'
<1> SUFFICES ASSUME ListInv, [ListNext]_listVars PROVE ListInv'
  OBVIOUS
<1>1. CASE UNCHANGED listVars
  <2> USE <1>1 DEF listVars
  <2>1. ListTypeOK' = ListTypeOK
    BY DEF ListTypeOK
  <2>2. OnceEach' = OnceEach /\ Linked' = Linked
    BY DEF OnceEach, Linked
  <2>3. FirstStays' = FirstStays /\ LastStays' = LastStays
    BY DEF FirstStays, LastStays, Noted
  <2>4. NotedOnce' = NotedOnce
    BY DEF NotedOnce, Noted, Dropping
  <2>5. QED BY <2>1, <2>2, <2>3, <2>4 DEF ListInv, ListSound
<1>2. CASE ListNext
  BY <1>2, AddKeeps, CommandKeeps, MeetKeeps, DoneKeeps, DeleteKeeps DEF ListNext
<1>3. QED BY <1>1, <1>2

\* The inductive invariant of the list, for any number of nodes.
THEOREM ListInvariant == ListSpec => []ListInv
BY ListStart, ListStep, PTL DEF ListSpec

\* What the invariant says of the ends is what the properties say.
LEMMA ListInvIsSound == ListInv => ChainSound /\ LastNodeExact
<1> SUFFICES ASSUME ListInv, ~ undefined PROVE ChainSound /\ LastNodeExact
  BY DEF ChainSound, LastNodeExact
<1> DEFINE z == Len(chain)
<1>1. ListTypeOK /\ ListSound
  BY DEF ListInv
<1>2. z \in Nat /\ DOMAIN chain = 1..z /\ DOMAIN nodes = 1..Len(nodes)
  BY <1>1 DEF ListTypeOK
<1>3. \A x : x \in ToSet(nodes) <=> Noted(x)
  BY <1>2 DEF ToSet, Noted
<1>4. Staying = {q \in 1..z : ~ Noted(chain[q])}
  BY <1>2, <1>3 DEF Staying
<1>5. ToSet(chain) = live /\ IsInjective(chain)
  <2>1. ToSet(chain) = live
    BY <1>1, <1>2 DEF ListSound, OnceEach, ToSet
  <2>2. IsInjective(chain)
    BY <1>1, <1>2 DEF ListSound, OnceEach, IsInjective
  <2>3. QED BY <2>1, <2>2
<1> HIDE DEF z
<1>6. ASSUME NEW a \in Staying, \A q \in Staying : a <= q
      PROVE  Min(Staying) = a
  <2>1. \A q \in Staying : q \in Nat
    BY <1>2, <1>4
  <2>2. Min(Staying) \in Staying /\ \A q \in Staying : Min(Staying) <= q
    BY <1>6 DEF Min
  <2>3. Min(Staying) <= a /\ a <= Min(Staying)
    BY <1>6, <2>2
  <2>4. QED BY <2>1, <2>2, <2>3
<1>7. ASSUME NEW a \in Staying, \A q \in Staying : q <= a
      PROVE  Max(Staying) = a
  <2>1. \A q \in Staying : q \in Nat
    BY <1>2, <1>4
  <2>2. \A q \in Staying : a >= q
    BY <1>7, <2>1
  <2>3. Max(Staying) \in Staying /\ \A q \in Staying : Max(Staying) >= q
    BY <2>2 DEF Max
  <2>4. Max(Staying) >= a /\ a >= Max(Staying)
    BY <2>2, <2>3
  <2>5. QED BY <2>1, <2>3, <2>4
<1>8. first_node = IF Staying = {} THEN NULL ELSE chain[Min(Staying)]
  <2>1. CASE first_node = NULL /\ \A q \in 1..z : Noted(chain[q])
    BY <1>4, <2>1
  <2>2. CASE \E a \in 1..z : /\ first_node = chain[a] /\ ~ Noted(chain[a])
                             /\ \A q \in 1..z : ~ Noted(chain[q]) => a <= q
    <3>1. PICK a \in 1..z : /\ first_node = chain[a] /\ ~ Noted(chain[a])
                            /\ \A q \in 1..z : ~ Noted(chain[q]) => a <= q
      BY <2>2
    <3>2. a \in Staying /\ \A q \in Staying : a <= q
      BY <1>4, <3>1
    <3>3. QED BY <1>6, <3>1, <3>2
  <2>3. QED BY <1>1, <2>1, <2>2 DEF ListSound, FirstStays, z
<1>9. LastNodeExact
  <2>1. CASE cut
    <3>1. last_node # NULL /\ \A q \in 1..z : last_node = chain[q] => Noted(chain[q])
      BY <1>1, <2>1 DEF ListSound, LastStays, z
    <3>2. last_node \notin {chain[q] : q \in Staying} \cup {NULL}
      BY <1>4, <3>1
    <3>3. QED BY <2>1, <3>2 DEF LastNodeExact
  <2>2. CASE ~ cut
    <3>1. last_node = IF Staying = {} THEN NULL ELSE chain[Max(Staying)]
      <4>1. CASE last_node = NULL /\ \A q \in 1..z : Noted(chain[q])
        BY <1>4, <4>1
      <4>2. CASE \E a \in 1..z : /\ last_node = chain[a] /\ ~ Noted(chain[a])
                                 /\ \A q \in 1..z : ~ Noted(chain[q]) => q <= a
        <5>1. PICK a \in 1..z : /\ last_node = chain[a] /\ ~ Noted(chain[a])
                                /\ \A q \in 1..z : ~ Noted(chain[q]) => q <= a
          BY <4>2
        <5>2. a \in Staying /\ \A q \in Staying : q <= a
          BY <1>4, <5>1
        <5>3. QED BY <1>7, <5>1, <5>2
      <4>3. QED BY <1>1, <2>2, <4>1, <4>2 DEF ListSound, LastStays, z
    <3>2. QED BY <2>2, <3>1 DEF LastNodeExact
  <2>3. QED BY <2>1, <2>2
<1>10. ChainSound
  BY <1>1, <1>2, <1>5, <1>8 DEF ChainSound, ListSound, Linked, z
<1>11. QED BY <1>9, <1>10

\* The links of the list are sound at every turn of every loop, whatever was removed.
THEOREM ChainSoundCorrect == ListSpec => []ChainSound
BY ListInvariant, ListInvIsSound, PTL

\* last_node goes wrong when an rm takes the last two nodes, and only then.
THEOREM LastNodeExactCorrect == ListSpec => []LastNodeExact
BY ListInvariant, ListInvIsSound, PTL

\* f moves the places S of s to the places T of t, in the same order.
IsMove(f, s, S, t, T) ==
  /\ S \subseteq Nat /\ IsFiniteSet(S) /\ f \in [S -> Nat]
  /\ \A k : k \in T <=> \E y \in S : f[y] = k
  /\ \A x, y \in S : x < y => f[x] < f[y]
  /\ \A y \in S : t[f[y]] = s[y]

\* Whoever moves what is picked, keeping its order, picks the same.
LEMMA PickedMoved ==
  ASSUME NEW s, NEW t, NEW S, NEW T, NEW f, IsMove(f, s, S, t, T)
  PROVE  Picked(t, T) = Picked(s, S)
<1> USE DEF IsMove
<1> DEFINE upto(y) == {k \in S : k <= y}
           moved(y) == {k \in T : k <= f[y]}
<1>1. /\ \A y \in S : y \in Nat /\ f[y] \in T /\ f[y] \in Nat
      /\ \A x, y \in S : f[x] = f[y] => x = y
      /\ \A x, y \in S : x <= y <=> f[x] <= f[y]
  <2>1. \A y \in S : y \in Nat /\ f[y] \in T /\ f[y] \in Nat
    OBVIOUS
  <2>2. ASSUME NEW x \in S, NEW y \in S
        PROVE  (f[x] = f[y] => x = y) /\ (x <= y <=> f[x] <= f[y])
    <3>1. CASE x < y
      BY <2>1, <3>1
    <3>2. CASE x = y
      BY <2>1, <3>2
    <3>3. CASE y < x
      BY <2>1, <3>3
    <3>4. QED BY <2>1, <3>1, <3>2, <3>3
  <2>3. QED BY <2>1, <2>2
<1>2. T \subseteq Nat /\ IsFiniteSet(T) /\ Cardinality(T) = Cardinality(S)
  <2>1. T \subseteq Nat
    BY <1>1
  <2>2. f \in Bijection(S, T)
    <3>1. f \in [S -> T] /\ \A k \in T : \E y \in S : f[y] = k
      OBVIOUS
    <3>2. QED BY <1>1, <3>1 DEF Bijection, Injection, Surjection, IsInjective
  <2>3. QED BY <2>1, <2>2, FS_Bijection DEF ExistsBijection
<1>3. ASSUME NEW y \in S PROVE RankIn(T, f[y]) = RankIn(S, y)
  <2> DEFINE g == [x \in upto(y) |-> f[x]]
  <2>1. IsFiniteSet(upto(y))
    <3>1. upto(y) \in SUBSET S
      OBVIOUS
    <3>2. QED BY <3>1, FS_Subset
  <2>2. g \in [upto(y) -> moved(y)]
    BY <1>1
  <2>3. \A x, w \in upto(y) : g[x] = g[w] => x = w
    BY <1>1
  <2>4. \A k \in moved(y) : \E x \in upto(y) : g[x] = k
    <3> SUFFICES ASSUME NEW k \in moved(y) PROVE \E x \in upto(y) : g[x] = k
      OBVIOUS
    <3>1. PICK x \in S : f[x] = k
      OBVIOUS
    <3>2. x \in upto(y)
      BY <1>1, <3>1
    <3>3. QED BY <3>1, <3>2
  <2> HIDE DEF upto, moved, g
  <2>5. g \in Bijection(upto(y), moved(y))
    BY <2>2, <2>3, <2>4 DEF Bijection, Injection, Surjection, IsInjective
  <2>6. Cardinality(moved(y)) = Cardinality(upto(y))
    BY <2>1, <2>5, FS_Bijection DEF ExistsBijection
  <2>7. QED BY <2>6 DEF RankIn, upto, moved
<1>4. ASSUME NEW j \in 1..Cardinality(S) PROVE PlaceOf(T, j) = f[PlaceOf(S, j)]
  <2>1. PlaceOf(S, j) \in S /\ RankIn(S, PlaceOf(S, j)) = j
    BY PlaceIsPicked
  <2>2. f[PlaceOf(S, j)] \in T /\ RankIn(T, f[PlaceOf(S, j)]) = j
    BY <1>1, <1>3, <2>1
  <2>3. j \in 1..Cardinality(T)
    BY <1>2
  <2>4. PlaceOf(T, j) \in T /\ RankIn(T, PlaceOf(T, j)) = j
    BY <1>2, <2>3, PlaceIsPicked
  <2>5. \A x, y \in T : RankIn(T, x) = RankIn(T, y) => x = y
    BY <1>2, PlaceIsPicked
  <2>6. QED BY <2>2, <2>4, <2>5
<1>5. \A j \in 1..Cardinality(S) : PlaceOf(S, j) \in S
  BY PlaceIsPicked
<1>6. \A j \in 1..Cardinality(S) : t[PlaceOf(T, j)] = s[PlaceOf(S, j)]
  BY <1>4, <1>5
<1>7. /\ Picked(s, S) = [j \in 1..Cardinality(S) |-> s[PlaceOf(S, j)]]
      /\ Picked(t, T) = [j \in 1..Cardinality(S) |-> t[PlaceOf(T, j)]]
  BY <1>2, PickedOf
<1>8. Picked(t, T) = Picked(s, S)
  BY <1>6, <1>7
<1>9. QED BY <1>8

\* The first position that is picked gives the first pair.
LEMMA PickedFirst ==
  ASSUME NEW s \in Seq(Pair), NEW S, S \subseteq 1..Len(s), NEW p \in 1..Len(s),
         \A y \in S : p < y
  PROVE  Picked(s, S \cup {p}) = <<s[p]>> \o Picked(s, S)
<1> DEFINE m == Cardinality(S)
           R == S \cup {p}
<1>1. Len(s) \in Nat /\ p \in Nat /\ S \subseteq Nat /\ R \subseteq Nat /\ R \subseteq 1..Len(s)
  <2>1. Len(s) \in Nat
    OBVIOUS
  <2>2. \A y \in S : y \in Nat
    BY <2>1
  <2>3. p \in Nat
    BY <2>1
  <2>4. QED BY <2>1, <2>2, <2>3
<1>2. IsFiniteSet(S) /\ m \in Nat
  <2>1. IsFiniteSet(1..Len(s))
    BY <1>1, FS_Interval
  <2>2. QED BY <2>1, FS_Subset, FS_CardinalityType
<1>3. p \notin S /\ IsFiniteSet(R) /\ Cardinality(R) = m + 1
  <2>1. p \notin S
    BY <1>1
  <2> HIDE DEF m
  <2>2. QED BY <1>2, <2>1, FS_AddElement DEF m
<1>4. RankIn(R, p) = 1
  <2>1. {k \in R : k <= p} = {p}
    <3>1. p <= p /\ \A k \in S : k \in Nat /\ p < k
      BY <1>1
    <3>2. \A k \in S : ~ (k <= p)
      BY <1>1, <3>1
    <3>3. QED BY <3>1, <3>2
  <2>2. Cardinality({p}) = 1
    BY FS_Singleton
  <2>3. QED BY <2>1, <2>2 DEF RankIn
<1>5. ASSUME NEW y \in S PROVE RankIn(R, y) = RankIn(S, y) + 1
  <2> DEFINE upto == {k \in S : k <= y}
  <2>1. {k \in R : k <= y} = upto \cup {p} /\ p \notin upto /\ upto \in SUBSET S
    BY <1>1, <1>3
  <2> HIDE DEF upto
  <2>2. IsFiniteSet(upto)
    BY <1>2, <2>1, FS_Subset
  <2>3. Cardinality(upto \cup {p}) = Cardinality(upto) + 1
    BY <2>1, <2>2, FS_AddElement
  <2>4. QED BY <2>1, <2>3 DEF RankIn, upto
<1>6. /\ \A j \in 1..m : PlaceOf(S, j) \in S /\ RankIn(S, PlaceOf(S, j)) = j
      /\ \A y \in S : RankIn(S, y) \in 1..m
  BY <1>1, <1>2, PlaceIsPicked
<1>7. /\ \A j \in 1..(m + 1) : PlaceOf(R, j) \in R /\ RankIn(R, PlaceOf(R, j)) = j
      /\ \A x, y \in R : RankIn(R, x) = RankIn(R, y) => x = y
  <2> HIDE DEF R, m
  <2>1. QED BY <1>1, <1>3, PlaceIsPicked
<1> HIDE DEF m
<1>8. PlaceOf(R, 1) = p
  <2>1. 1 \in 1..(m + 1) /\ p \in R
    BY <1>2
  <2> HIDE DEF R
  <2>2. QED BY <1>4, <1>7, <2>1
<1>9. ASSUME NEW j \in 1..m PROVE PlaceOf(R, j + 1) = PlaceOf(S, j)
  <2>1. j + 1 \in 1..(m + 1) /\ PlaceOf(S, j) \in R
    BY <1>2, <1>6
  <2>2. RankIn(R, PlaceOf(S, j)) = j + 1
    BY <1>5, <1>6
  <2> HIDE DEF R
  <2>3. QED BY <1>7, <2>1, <2>2
<1>10. /\ Picked(s, S) = [j \in 1..m |-> s[PlaceOf(S, j)]]
       /\ Picked(s, R) = [j \in 1..(m + 1) |-> s[PlaceOf(R, j)]]
  BY <1>3, PickedOf DEF m
<1>11. Picked(s, S) \in Seq(Pair) /\ Len(Picked(s, S)) = m
  <2>1. Picked(s, S) \in Seq(Pair)
    BY PickedType
  <2>2. QED BY <1>2, <1>10, <2>1
<1>12. Picked(s, R) \in Seq(Pair) /\ Len(Picked(s, R)) = m + 1
  <2>1. Picked(s, R) \in Seq(Pair)
    BY <1>1, PickedType
  <2> HIDE DEF R
  <2>2. QED BY <1>2, <1>10, <2>1
<1> HIDE DEF R
<1> DEFINE q == <<s[p]>> \o Picked(s, S)
<1>13. <<s[p]>> \in Seq(Pair) /\ Len(<<s[p]>>) = 1
  OBVIOUS
<1>14. /\ q \in Seq(Pair) /\ Len(q) = m + 1
       /\ \A j \in 1..(m + 1) : q[j] = IF j <= 1 THEN <<s[p]>>[j] ELSE Picked(s, S)[j - 1]
  <2>1. q \in Seq(Pair) /\ Len(q) = 1 + m
    BY <1>11, <1>13, ConcatProperties
  <2>2. \A j \in 1..(1 + m) : q[j] = IF j <= 1 THEN <<s[p]>>[j] ELSE Picked(s, S)[j - 1]
    BY <1>11, <1>13, ConcatProperties
  <2> HIDE DEF q
  <2>3. QED BY <1>2, <2>1, <2>2
<1> HIDE DEF q
<1>15. ASSUME NEW j \in 1..(m + 1) PROVE Picked(s, R)[j] = q[j]
  <2>1. CASE j = 1
    <3>1. q[j] = s[p]
      BY <1>14, <2>1
    <3>2. QED BY <1>8, <1>10, <2>1, <3>1
  <2>2. CASE j # 1
    <3>1. j - 1 \in 1..m /\ (j - 1) + 1 = j /\ ~ (j <= 1)
      BY <1>2, <2>2
    <3>2. q[j] = s[PlaceOf(S, j - 1)]
      BY <1>10, <1>14, <3>1
    <3>3. PlaceOf(R, j) = PlaceOf(S, j - 1)
      BY <1>9, <3>1
    <3>4. QED BY <1>10, <3>2, <3>3
  <2>3. QED BY <2>1, <2>2
<1>16. Picked(s, R) = q
  BY <1>12, <1>14, <1>15, SeqEqual
<1>17. QED BY <1>16 DEF R, q

\* The book's operators are the list's.
LEMMA ListBookOperators ==
  /\ \A s, S : ListBook!Picked(s, S) = Picked(s, S)
  /\ ListBook!Pair = Pair
BY DEF ListBook!Picked, Picked, ListBook!Pair, Pair, ListBook!Cardinality, Cardinality

\* The pairs of the chain are a sequence, and positions in it can be picked.
LEMMA DataType ==
  ASSUME ListTypeOK, Linked
  PROVE  /\ Data \in Seq(Pair) /\ Len(Data) = Len(chain) /\ Len(chain) \in Nat
         /\ DOMAIN chain = 1..Len(chain) /\ DOMAIN Data = 1..Len(chain)
         /\ \A q \in 1..Len(chain) : Data[q] = memory[chain[q]].data
         /\ Remaining \subseteq 1..Len(chain) /\ Ahead \subseteq 1..Len(chain)
<1>1. Len(chain) \in Nat /\ DOMAIN chain = 1..Len(chain)
  BY DEF ListTypeOK
<1>2. \A q \in 1..Len(chain) : memory[chain[q]].data \in Pair
  BY DEF Linked, NodeRecord
<1>3. Data = [q \in 1..Len(chain) |-> memory[chain[q]].data]
  BY <1>1 DEF Data
<1>4. Data \in Seq(Pair) /\ Len(Data) = Len(chain)
  BY <1>1, <1>2, <1>3
<1>5. QED BY <1>1, <1>3, <1>4 DEF Remaining, Ahead

\* Between two commands the list is its pairs, and shows what was printed.
LEMMA IdleIsData ==
  ASSUME ListTypeOK, Linked, NotedOnce, list_loop = "idle"
  PROVE  ListPairs = Data /\ Ahead = {} /\ ListShown = list_printed
<1>1. Remaining = DOMAIN Data
  BY DataType DEF Remaining
<1>2. ListPairs = Data
  BY <1>1, DataType, PickedAll DEF ListPairs
<1>3. Ahead = {}
  <2>1. list_node = NULL /\ chain \in Seq(Node)
    BY NothingNoted DEF ListTypeOK
  <2>2. \A q \in 1..Len(chain) : \A r \in 1..q : r \in 1..Len(chain)
    BY DataType
  <2>3. \A q \in 1..Len(chain) : \A r \in 1..q : chain[r] # NULL
    BY <2>1, <2>2, ListAssumption
  <2>4. QED BY <2>1, <2>3, DataType DEF Ahead
<1>4. ListShown = list_printed
  <2>1. ListShown = list_printed \o <<>>
    BY <1>3, PickedNone DEF ListShown
  <2>2. QED BY <2>1, ConcatEmptySeq DEF ListTypeOK
<1>5. QED BY <1>2, <1>3, <1>4

\* run_list starts with an empty book.
LEMMA ListBookStart == ListInit => ListBook!BookInit
<1> SUFFICES ASSUME ListInit PROVE ListBook!BookInit
  OBVIOUS
<1>1. ListTypeOK /\ Linked /\ NotedOnce /\ list_loop = "idle"
  BY ListStart DEF ListInv, ListSound, ListInit
<1>2. ListPairs = Data /\ ListShown = <<>>
  BY <1>1, IdleIsData DEF ListInit
<1>3. Data = <<>>
  BY <1>1, DataType, EmptySeq DEF ListInit
<1>4. QED BY <1>2, <1>3 DEF ListBook!BookInit

\* add
LEMMA ListAddIsBook ==
  ASSUME ListInv, ListInv', NEW pair \in Pair, ListAdd(pair), ~ undefined'
  PROVE  ListBook!BookAdd(pair)
<1>1. /\ ListTypeOK /\ ListSound /\ ListTypeOK' /\ ListSound'
      /\ list_loop = "idle" /\ list_loop' = "idle" /\ list_printed' = <<>>
  BY DEF ListInv, ListAdd
<1>2. ListPairs = Data
  BY <1>1, IdleIsData DEF ListSound
<1>3. ListPairs' = Data' /\ ListShown' = <<>>
  <2>1. ListTypeOK' /\ Linked' /\ NotedOnce' /\ (list_loop = "idle")' => (ListPairs = Data /\ ListShown = list_printed)'
    BY IdleIsData, PTL
  <2>2. QED BY <1>1, <2>1 DEF ListSound
<1>4. /\ Data \in Seq(Pair) /\ Len(Data) = Len(chain) /\ Len(chain) \in Nat
      /\ \A q \in 1..Len(chain) : Data[q] = memory[chain[q]].data
  BY <1>1, DataType DEF ListSound
<1>5. /\ Data' \in Seq(Pair) /\ Len(Data') = Len(chain')
      /\ \A q \in 1..Len(chain') : Data'[q] = memory'[chain'[q]].data
  <2>1. ListTypeOK' /\ Linked' =>
          (/\ Data \in Seq(Pair) /\ Len(Data) = Len(chain)
           /\ \A q \in 1..Len(chain) : Data[q] = memory[chain[q]].data)'
    BY DataType, PTL
  <2>2. QED BY <1>1, <2>1 DEF ListSound
<1>6. PICK me \in Node \ live :
        /\ memory' = IF last_node \in live
                     THEN [[memory EXCEPT ![me] = [data |-> pair, next_node |-> NULL,
                                                  prev_node |-> last_node]]
                             EXCEPT ![last_node].next_node = me]
                     ELSE [memory EXCEPT ![me] = [data |-> pair, next_node |-> NULL,
                                                 prev_node |-> last_node]]
        /\ chain' = Append(chain, me)
  BY DEF ListAdd, push_back_list
<1>7. /\ chain \in Seq(Node) /\ memory \in [Node -> NodeRecord \cup {FreeContent}]
      /\ \A q \in 1..Len(chain) : chain[q] \in live /\ chain[q] \in Node
                                  /\ memory[chain[q]] \in NodeRecord
      /\ \A m \in live : memory[m] \in NodeRecord
  BY <1>1 DEF ListTypeOK, ListSound, OnceEach, Linked
<1>8. memory'[me].data = pair /\ \A m \in live : memory'[m].data = memory[m].data
  <2>1. me \in Node /\ me \notin live /\ live \subseteq Node
    BY <1>1, <1>6 DEF ListTypeOK
  <2> DEFINE fill == [data |-> pair, next_node |-> NULL, prev_node |-> last_node]
             rec(m) == [memory[m] EXCEPT !.next_node = me]
  <2>2. fill.data = pair /\ \A m \in live : rec(m).data = memory[m].data
    BY <1>7 DEF NodeRecord
  <2>3. memory'[me] = fill /\ \A m \in live : memory'[m] = IF m = last_node THEN rec(m) ELSE memory[m]
    <3> HIDE DEF fill
    <3>1. memory' = IF last_node \in live
                    THEN [[memory EXCEPT ![me] = fill] EXCEPT ![last_node].next_node = me]
                    ELSE [memory EXCEPT ![me] = fill]
      BY <1>6 DEF fill
    <3>2. QED BY <1>7, <2>1, <3>1
  <2>4. QED BY <2>2, <2>3
<1>9. Data' = Append(Data, pair)
  <2> DEFINE d == Append(Data, pair)
  <2>1. /\ d \in Seq(Pair) /\ Len(d) = Len(chain) + 1 /\ d[Len(chain) + 1] = pair
        /\ \A q \in 1..Len(chain) : d[q] = Data[q]
    BY <1>4
  <2>2. /\ Len(chain') = Len(chain) + 1 /\ chain'[Len(chain) + 1] = me
        /\ \A q \in 1..Len(chain) : chain'[q] = chain[q]
    BY <1>6, <1>7
  <2> HIDE DEF d
  <2>3. ASSUME NEW q \in 1..(Len(chain) + 1) PROVE Data'[q] = d[q]
    <3>1. CASE q = Len(chain) + 1
      BY <1>4, <1>5, <1>8, <2>1, <2>2, <3>1
    <3>2. CASE q \in 1..Len(chain)
      <4>1. Data'[q] = memory'[chain[q]].data
        BY <1>4, <1>5, <2>2, <3>2
      <4>2. QED BY <1>4, <1>7, <1>8, <2>1, <3>2, <4>1
    <3>3. QED BY <1>4, <3>1, <3>2
  <2>4. Data' = d
    BY <1>5, <2>1, <2>2, <2>3, SeqEqual
  <2>5. QED BY <2>4 DEF d
<1>10. QED BY <1>2, <1>3, <1>9 DEF ListBook!BookAdd

\* A command of the other three is read: what it will keep and print is decided.
LEMMA ListCommandIsBook ==
  ASSUME ListInv, NEW c \in Command, NEW key \in Key, ListCommand(c, key)
  PROVE  ListBook!BookNext
<1> DEFINE z == Len(chain)
           d == Data
           kept == {q \in DOMAIN d : ~ (c = "REMOVE_PASSWORD" /\ d[q].first = key)}
           shown == {q \in DOMAIN d : c = "LIST_PASSWORDS" \/ d[q].first = key}
<1>1. /\ ListTypeOK /\ ListSound /\ list_loop = "idle"
      /\ UNCHANGED <<first_node, memory, chain>>
      /\ list_cmd' = c /\ list_line' = key /\ list_loop' = "walking"
      /\ list_node' = first_node /\ list_printed' = <<>>
  BY DEF ListInv, ListCommand
<1>2. ListPairs = d /\ \A x : ~ Noted(x)
  BY <1>1, IdleIsData, NothingNoted DEF ListSound
<1>3. /\ d \in Seq(Pair) /\ Len(d) = z /\ z \in Nat
      /\ DOMAIN chain = 1..z /\ DOMAIN d = 1..z
      /\ \A q \in 1..z : d[q] = memory[chain[q]].data
  BY <1>1, DataType DEF ListSound
<1>4. d' = d
  BY <1>1 DEF Data
<1>5. Remaining' = kept
  BY <1>1, <1>3 DEF Remaining, Dropping
<1>6. Ahead' = shown
  <2>1. \A q \in 1..z : \E r \in 1..q : chain[r] = first_node
    <3>1. \A q \in 1..z : 1 \in 1..z /\ 1 \in 1..q
      BY <1>3
    <3>2. \/ \A p \in 1..z : FALSE
          \/ \E p \in 1..z : first_node = chain[p] /\ \A q \in 1..z : p <= q
      BY <1>1, <1>2 DEF ListSound, FirstStays
    <3>3. \A p \in 1..z : (\A q \in 1..z : p <= q) => p = 1
      BY <1>3
    <3>4. QED BY <3>1, <3>2, <3>3
  <2>2. QED BY <1>1, <1>3, <2>1 DEF Ahead, Printing
<1>7. ListPairs' = Picked(d, kept) /\ ListShown' = <<>> \o Picked(d, shown)
  BY <1>1, <1>4, <1>5, <1>6 DEF ListPairs, ListShown
<1> HIDE DEF z, d
<1>8. /\ kept \subseteq 1..z /\ shown \subseteq 1..z
      /\ c # "REMOVE_PASSWORD" => kept = DOMAIN d
      /\ c = "LIST_PASSWORDS" => shown = DOMAIN d
      /\ c # "LIST_PASSWORDS" => shown = {q \in DOMAIN d : d[q].first = key}
      /\ c = "REMOVE_PASSWORD" => kept = {q \in DOMAIN d : d[q].first # key}
  BY <1>3
<1> HIDE DEF kept, shown
<1>9. ListPairs' = Picked(d, kept) /\ ListShown' = Picked(d, shown)
  <2>1. Picked(d, shown) \in Seq(Pair)
    BY <1>3, <1>8, PickedType
  <2>2. QED BY <1>7, <2>1, ConcatEmptySeq
<1>10. CASE c = "LIST_PASSWORDS"
  <2>1. Picked(d, kept) = d /\ Picked(d, shown) = d
    BY <1>3, <1>8, <1>10, PickedAll
  <2>2. ListBook!BookList
    BY <1>2, <1>9, <2>1 DEF ListBook!BookList, ListBook!Prints
  <2>3. QED BY <2>2 DEF ListBook!BookNext
<1>11. CASE c = "REMOVE_PASSWORD"
  <2>1. kept = {q \in DOMAIN d : d[q].first # key} /\ shown = {q \in DOMAIN d : d[q].first = key}
    BY <1>8, <1>11
  <2>2. ListBook!BookRm(key)
    BY <1>2, <1>9, <2>1, ListBookOperators
       DEF ListBook!BookRm, ListBook!Prints, ListBook!With, ListBook!Without
  <2>3. QED BY <2>2 DEF ListBook!BookNext
<1>12. CASE c = "FIND_BY_KEY"
  <2>1. Picked(d, kept) = d /\ shown = {q \in DOMAIN d : d[q].first = key}
    BY <1>3, <1>8, <1>12, PickedAll
  <2>2. ListBook!BookFind(key)
    BY <1>2, <1>9, <2>1, ListBookOperators
       DEF ListBook!BookFind, ListBook!Prints, ListBook!With
  <2>3. QED BY <2>2 DEF ListBook!BookNext
<1>13. QED BY <1>10, <1>11, <1>12 DEF Command

\* A turn of the walk prints the first pair that was still to be printed, or none.
LEMMA MeetIsBook ==
  ASSUME ListInv, Meet
  PROVE  ListPairs' = ListPairs /\ ListShown' = ListShown
<1> DEFINE z == Len(chain)
           m == list_node
<1>1. /\ ListTypeOK /\ ListSound /\ list_loop = "walking" /\ list_loop' = list_loop /\ m # NULL
      /\ UNCHANGED <<memory, list_cmd, list_line, chain>>
      /\ list_node' = memory[m].next_node
      /\ list_printed' = IF Printing(m) THEN Append(list_printed, memory[m].data) ELSE list_printed
  BY DEF ListInv, Meet
<1>2. PICK p \in 1..z : chain[p] = m
  BY <1>1 DEF ListSound, NotedOnce
<1>3. /\ Data \in Seq(Pair) /\ Len(Data) = z /\ z \in Nat /\ DOMAIN chain = 1..z
      /\ \A q \in 1..z : Data[q] = memory[chain[q]].data
  BY <1>1, DataType DEF ListSound
<1>4. /\ \A q, r \in 1..z : chain[q] = chain[r] => q = r
      /\ \A q \in 1..z : chain[q] # NULL
      /\ memory[m].next_node = IF p = z THEN NULL ELSE chain[p + 1]
  <2>1. chain \in Seq(Node)
    BY <1>1 DEF ListTypeOK
  <2>2. QED BY <1>1, <1>2, <2>1, ListAssumption DEF ListSound, OnceEach, Linked
<1>5. /\ Data' = Data
      /\ \A x : (Dropping(x)' <=> Dropping(x)) /\ (Printing(x)' <=> Printing(x))
  BY <1>1 DEF Data, Dropping, Printing
<1>6. Remaining' = Remaining
  BY <1>1, <1>5 DEF Remaining, Dropping
<1> HIDE DEF z, m
<1>7. Ahead = {q \in 1..z : p <= q /\ Printing(chain[q])}
  <2>1. \A q \in 1..z : (\E r \in 1..q : chain[r] = m) <=> p <= q
    BY <1>2, <1>3, <1>4
  <2>2. QED BY <1>3, <2>1 DEF Ahead, m
<1>8. Ahead' = {q \in 1..z : p < q /\ Printing(chain[q])}
  <2>1. \A q \in 1..z : (\E r \in 1..q : chain[r] = list_node') <=> p < q
    <3>1. CASE p = z
      BY <1>1, <1>2, <1>3, <1>4, <3>1 DEF m
    <3>2. CASE p # z
      <4>1. p + 1 \in 1..z /\ list_node' = chain[p + 1]
        BY <1>1, <1>2, <1>3, <1>4, <3>2 DEF m
      <4>2. QED BY <1>2, <1>3, <1>4, <4>1
    <3>3. QED BY <3>1, <3>2
  <2>2. QED BY <1>1, <1>3, <2>1 DEF Ahead, Printing
<1> DEFINE rest == {q \in 1..z : p < q /\ Printing(chain[q])}
<1>9. /\ rest \subseteq 1..z /\ \A q \in rest : p < q
      /\ Ahead = IF Printing(m) THEN rest \cup {p} ELSE rest
  <2>1. \A q \in 1..z : p <= q <=> p < q \/ q = p
    BY <1>2, <1>3
  <2>2. QED BY <1>2, <1>7, <2>1
<1> HIDE DEF rest
<1>10. Picked(Data, rest) \in Seq(Pair) /\ Data[p] \in Pair /\ Data[p] = memory[m].data
  <2>1. rest \subseteq 1..Len(Data)
    BY <1>3, <1>9
  <2>2. Picked(Data, rest) \in Seq(Pair)
    BY <1>3, <2>1, PickedType
  <2>3. p \in DOMAIN Data
    BY <1>2, <1>3
  <2>4. Data[p] \in Pair /\ Data[p] = memory[m].data
    BY <1>2, <1>3, <2>3
  <2>5. QED BY <2>2, <2>4
<1>11. Picked(Data, rest \cup {p}) = <<Data[p]>> \o Picked(Data, rest)
  BY <1>2, <1>3, <1>9, PickedFirst
<1>12. ListShown' = list_printed' \o Picked(Data, rest)
  BY <1>5, <1>8 DEF ListShown, rest
<1>13. list_printed \in Seq(Pair)
  BY <1>1 DEF ListTypeOK
<1>14. ListShown' = ListShown
  <2>1. CASE Printing(m)
    <3>1. ListShown = list_printed \o (<<Data[p]>> \o Picked(Data, rest))
      BY <1>9, <1>11, <2>1 DEF ListShown
    <3>2. list_printed' = list_printed \o <<Data[p]>> /\ <<Data[p]>> \in Seq(Pair)
      BY <1>1, <1>10, <1>13, <2>1
    <3>3. (list_printed \o <<Data[p]>>) \o Picked(Data, rest)
            = list_printed \o (<<Data[p]>> \o Picked(Data, rest))
      BY <1>10, <1>13, <3>2, ConcatAssociative
    <3>4. QED BY <1>12, <3>1, <3>2, <3>3
  <2>2. CASE ~ Printing(m)
    BY <1>1, <1>9, <1>12, <2>2 DEF ListShown
  <2>3. QED BY <2>1, <2>2
<1>15. ListPairs' = ListPairs
  BY <1>5, <1>6 DEF ListPairs
<1>16. QED BY <1>14, <1>15

\* A loop ends: what the command drops is gone.
LEMMA DoneIsBook ==
  ASSUME ListInv, MeetDone \/ DeleteDone
  PROVE  ListPairs' = ListPairs /\ ListShown' = ListShown
<1>1. /\ ListTypeOK /\ ListSound /\ list_loop # "idle" /\ list_node = NULL
      /\ UNCHANGED <<memory, list_cmd, list_line, list_node, nodes, list_printed, chain>>
  BY DEF ListInv, MeetDone, DeleteDone, ListSound, NotedOnce
<1>2. list_loop' = "idle" => \A q \in 1..Len(chain) : ~ Dropping(chain[q])
  <2>1. CASE MeetDone
    BY <2>1 DEF MeetDone, Dropping
  <2>2. CASE DeleteDone
    <3>1. \A x : ~ Noted(x)
      BY <2>2 DEF DeleteDone, Noted
    <3>2. chain \in Seq(Node) /\ Len(chain) \in Nat
      BY <1>1 DEF ListTypeOK
    <3>3. \A q \in 1..Len(chain) : \A r \in 1..q : chain[r] # NULL
      <4>1. \A q \in 1..Len(chain) : \A r \in 1..q : r \in 1..Len(chain)
        BY <3>2
      <4>2. QED BY <3>2, <4>1, ListAssumption
    <3>4. QED BY <1>1, <3>1, <3>3 DEF ListSound, NotedOnce
  <2>3. QED BY <2>1, <2>2
<1>3. Data' = Data /\ Ahead' = Ahead
  BY <1>1 DEF Data, Ahead, Printing
<1>4. Remaining' = Remaining
  <2>1. DOMAIN chain = 1..Len(chain)
    BY <1>1 DEF ListTypeOK
  <2>2. QED BY <1>1, <1>2, <2>1 DEF Remaining, Dropping
<1>5. QED BY <1>1, <1>3, <1>4 DEF ListPairs, ListShown

\* One node is deleted: the pairs that the command keeps move up in the chain.
LEMMA DeleteIsBook ==
  ASSUME ListInv, ListInv', Delete
  PROVE  ListPairs' = ListPairs /\ ListShown' = ListShown
<1> DEFINE z == Len(chain)
           me == Head(nodes)
<1>1. /\ ListTypeOK /\ ListSound /\ ListTypeOK' /\ ListSound'
      /\ list_loop = "deleting" /\ list_loop' = "deleting" /\ list_node = NULL
      /\ UNCHANGED <<list_cmd, list_line, list_node, list_printed>>
      /\ memory' = delete_node(me) /\ nodes # <<>>
      /\ chain' = RemoveAt(chain, CHOOSE q \in DOMAIN chain : chain[q] = me)
  BY DEF ListInv, Delete, ListSound, NotedOnce
<1>2. /\ chain \in Seq(Node) /\ z \in Nat /\ DOMAIN chain = 1..z
      /\ Data \in Seq(Pair) /\ Len(Data) = z
      /\ \A q \in 1..z : Data[q] = memory[chain[q]].data
  BY <1>1, DataType DEF ListSound, ListTypeOK
<1>3. /\ Len(Data') = Len(chain') /\ DOMAIN chain' = 1..Len(chain')
      /\ \A q \in 1..Len(chain') : Data'[q] = memory'[chain'[q]].data
  <2>1. ListTypeOK' /\ Linked' =>
          (/\ Len(Data) = Len(chain) /\ DOMAIN chain = 1..Len(chain)
           /\ \A q \in 1..Len(chain) : Data[q] = memory[chain[q]].data)'
    BY DataType, PTL
  <2>2. QED BY <1>1, <2>1 DEF ListSound
<1>4. \A q, r \in 1..z : chain[q] = chain[r] => q = r
  BY <1>1 DEF ListSound, OnceEach
<1>5. Noted(me)
  <2>1. nodes \in Seq(Node) /\ Len(nodes) \in Nat
    BY <1>1 DEF ListTypeOK
  <2>2. Len(nodes) # 0
    BY <1>1, <2>1, EmptySeq
  <2>3. 1 \in 1..Len(nodes) /\ me = nodes[1]
    BY <2>1, <2>2
  <2>4. QED BY <2>3 DEF Noted
<1> HIDE DEF me
<1>6. PICK p \in 1..z : chain[p] = me /\ Dropping(me)
  BY <1>1, <1>5 DEF ListSound, NotedOnce
<1>7. chain' = RemoveAt(chain, p)
  BY <1>1, <1>2, <1>4, <1>6
<1>8. /\ Len(chain') = z - 1
      /\ \A q \in 1..(z - 1) : chain'[q] = IF q < p THEN chain[q] ELSE chain[q + 1]
  <2>1. chain \in Seq(Node) /\ p \in 1..Len(chain)
    BY <1>2
  <2>2. /\ Len(RemoveAt(chain, p)) = Len(chain) - 1
        /\ \A q \in 1..(Len(chain) - 1) :
             RemoveAt(chain, p)[q] = IF q < p THEN chain[q] ELSE chain[q + 1]
    BY <2>1, RemovedAt
  <2>3. QED BY <1>7, <2>2
<1>9. \A q \in 1..z : q # p => memory'[chain[q]].data = memory[chain[q]].data
  BY <1>1, <1>6, DeletedFrom DEF ListSound
<1> HIDE DEF z
<1> DEFINE to(q) == IF q < p THEN q ELSE q - 1
           from(q) == IF q < p THEN q ELSE q + 1
<1>10. \A q \in 1..z : q # p => /\ to(q) \in 1..(z - 1) /\ chain'[to(q)] = chain[q]
                                /\ Data'[to(q)] = Data[q]
  <2> SUFFICES ASSUME NEW q \in 1..z, q # p
               PROVE  /\ to(q) \in 1..(z - 1) /\ chain'[to(q)] = chain[q]
                      /\ Data'[to(q)] = Data[q]
    OBVIOUS
  <2>1. CASE q < p
    <3>1. to(q) = q /\ q \in 1..(z - 1)
      BY <1>2, <2>1
    <3> HIDE DEF to
    <3>2. chain'[q] = chain[q]
      BY <1>8, <2>1, <3>1
    <3>3. QED BY <1>3, <1>8, <1>9, <1>2, <3>1, <3>2
  <2>2. CASE ~ q < p
    <3>1. to(q) = q - 1 /\ q - 1 \in 1..(z - 1) /\ ~ q - 1 < p /\ (q - 1) + 1 = q
      BY <1>2, <2>2
    <3> HIDE DEF to
    <3>2. chain'[q - 1] = IF q - 1 < p THEN chain[q - 1] ELSE chain[(q - 1) + 1]
      <4> DEFINE k == q - 1
      <4>1. k \in 1..(z - 1)
        BY <3>1
      <4> HIDE DEF k
      <4>2. chain'[k] = IF k < p THEN chain[k] ELSE chain[k + 1]
        BY <1>8, <4>1
      <4>3. QED BY <4>2 DEF k
    <3>3. chain'[q - 1] = chain[q]
      BY <3>1, <3>2
    <3>4. QED BY <1>3, <1>8, <1>9, <1>2, <3>1, <3>3
  <2>3. QED BY <2>1, <2>2
<1>11. \A q \in 1..(z - 1) : from(q) \in 1..z /\ from(q) # p /\ to(from(q)) = q
                             /\ chain'[q] = chain[from(q)] /\ Data'[q] = Data[from(q)]
  <2> SUFFICES ASSUME NEW q \in 1..(z - 1)
               PROVE  from(q) \in 1..z /\ from(q) # p /\ to(from(q)) = q
                      /\ chain'[q] = chain[from(q)] /\ Data'[q] = Data[from(q)]
    OBVIOUS
  <2>1. from(q) \in 1..z /\ from(q) # p /\ to(from(q)) = q
    BY <1>2
  <2> HIDE DEF from, to
  <2>2. QED BY <1>10, <2>1
<1>12. Remaining = {q \in 1..z : ~ (list_cmd = "REMOVE_PASSWORD" /\ Data[q].first = list_line)}
  BY <1>1, <1>2 DEF Remaining, Dropping
<1>13. Remaining' = {q \in 1..(z - 1) : ~ (list_cmd = "REMOVE_PASSWORD" /\ Data'[q].first = list_line)}
  BY <1>1, <1>3, <1>8 DEF Remaining, Dropping
<1>14. p \notin Remaining
  BY <1>2, <1>6, <1>12 DEF Dropping
<1> DEFINE f == [q \in Remaining |-> to(q)]
<1>15. Remaining' = {f[q] : q \in Remaining}
  <2>1. \A q \in Remaining : q \in 1..z /\ q # p /\ f[q] \in Remaining'
    <3> SUFFICES ASSUME NEW q \in Remaining PROVE q \in 1..z /\ q # p /\ f[q] \in Remaining'
      OBVIOUS
    <3>1. q \in 1..z /\ q # p
      BY <1>12, <1>14
    <3>2. f[q] = to(q)
      OBVIOUS
    <3> HIDE DEF f, to
    <3>3. QED BY <1>10, <1>12, <1>13, <3>1, <3>2
  <2>2. \A q \in Remaining' : from(q) \in Remaining /\ f[from(q)] = q
    <3> SUFFICES ASSUME NEW q \in Remaining' PROVE from(q) \in Remaining /\ f[from(q)] = q
      OBVIOUS
    <3>1. q \in 1..(z - 1)
      BY <1>13
    <3>2. from(q) \in Remaining
      <4> HIDE DEF from, to
      <4>1. QED BY <1>11, <1>12, <1>13, <3>1
    <3>3. f[from(q)] = to(from(q))
      BY <3>2
    <3> HIDE DEF f, to, from
    <3>4. QED BY <1>11, <3>1, <3>2, <3>3
  <2> HIDE DEF f, from, to
  <2>3. QED BY <2>1, <2>2
<1>16. ListPairs' = ListPairs
  <2>1. Remaining \subseteq Nat /\ IsFiniteSet(Remaining)
    <3>1. Remaining \subseteq 1..z /\ IsFiniteSet(1..z)
      BY <1>2, <1>12, FS_Interval
    <3>2. 1..z \subseteq Nat
      BY <1>2
    <3>3. QED BY <3>1, <3>2, FS_Subset
  <2>2. f \in [Remaining -> Nat]
    <3>1. \A q \in Remaining : q \in 1..z /\ q # p
      BY <1>12, <1>14
    <3>2. \A q \in Remaining : to(q) \in Nat
      BY <1>2, <3>1
    <3>3. QED BY <3>2
  <2>3. \A x, y \in Remaining : x < y => f[x] < f[y]
    <3>1. \A q \in Remaining : q \in Nat /\ q # p
      BY <1>14, <2>1
    <3>2. p \in Nat
      BY <1>2
    <3>3. \A x, y \in Nat : x # p /\ y # p /\ x < y => to(x) < to(y)
      BY <3>2
    <3>4. QED BY <3>1, <3>3
  <2>4. \A y \in Remaining : Data'[f[y]] = Data[y]
    <3>1. \A q \in Remaining : q \in 1..z /\ q # p
      BY <1>12, <1>14
    <3>2. \A q \in Remaining : f[q] = to(q)
      OBVIOUS
    <3> HIDE DEF f, to
    <3>3. QED BY <1>10, <3>1, <3>2
  <2> HIDE DEF f
  <2>5. Picked(Data', Remaining') = Picked(Data, Remaining)
    <3>1. \A k : k \in Remaining' <=> \E y \in Remaining : f[y] = k
      BY <1>15
    <3>2. IsMove(f, Data, Remaining, Data', Remaining')
      BY <2>1, <2>2, <2>3, <2>4, <3>1 DEF IsMove
    <3>3. QED BY <3>2, PickedMoved
  <2>6. QED BY <2>5 DEF ListPairs
<1>17. Ahead = {} /\ Ahead' = {}
  <2>1. \A q \in 1..z : chain[q] # NULL
    BY <1>2, ListAssumption DEF z
  <2>2. \A q \in 1..(z - 1) : chain'[q] # NULL
    <3> HIDE DEF from, to
    <3>1. QED BY <1>11, <2>1
  <2>3. Ahead = {}
    <3>1. \A q \in 1..z : \A r \in 1..q : r \in 1..z
      BY <1>2
    <3>2. QED BY <1>1, <1>2, <2>1, <3>1 DEF Ahead
  <2>4. Ahead' = {}
    <3>1. \A q \in 1..(z - 1) : \A r \in 1..q : r \in 1..(z - 1)
      BY <1>2
    <3>2. QED BY <1>1, <1>3, <1>8, <2>2, <3>1 DEF Ahead
  <2>5. QED BY <2>3, <2>4
<1>18. ListShown' = ListShown
  BY <1>1, <1>17, PickedNone DEF ListShown
<1>19. QED BY <1>16, <1>18

\* Every step of run_list is a step of the password book, or none, until something
\* undefined happens.
LEMMA ListBookStep ==
  ASSUME ListInv, [ListNext]_listVars
  PROVE  [~ undefined' => [ListBook!BookNext]_<<ListPairs, ListShown>>]_listVars
<1>1. ListInv'
  BY ListStep
<1> SUFFICES ASSUME ListNext, ~ undefined'
             PROVE  [ListBook!BookNext]_<<ListPairs, ListShown>>
  OBVIOUS
<1>2. ASSUME NEW pair \in Pair, ListAdd(pair) PROVE ListBook!BookNext
  BY <1>1, <1>2, ListAddIsBook, ListBookOperators DEF ListBook!BookNext
<1>3. ASSUME NEW c \in Command, NEW key \in Key, ListCommand(c, key) PROVE ListBook!BookNext
  BY <1>3, ListCommandIsBook
<1>4. QED BY <1>1, <1>2, <1>3, MeetIsBook, DoneIsBook, DeleteIsBook DEF ListNext

\* run_list implements the password book, for any number of nodes, until it writes to
\* a freed one: what its walks print and delete through the links is what a sequence
\* of pairs would show and lose.
THEOREM ListImplementsBook == ListSpec => ListIsBook
<1>1. ListInit => ListBook!BookInit
  BY ListBookStart
<1>2. ListInv /\ [ListNext]_listVars
        => [~ undefined' => [ListBook!BookNext]_<<ListPairs, ListShown>>]_listVars
  BY ListBookStep
<1>3. QED BY <1>1, <1>2, ListInvariant, PTL
          DEF ListSpec, ListIsBook, ListBook!bookVars
-----------------------------------------------------------------------------
\* The signal sender

SignalTypeOK ==
  /\ parent_at \in {"fork", "send", "ended"} /\ parent_i \in 1..N_OF_SIGNALS
  /\ child_is \in {"unborn", "running", "stopped", "ended"} /\ child_i \in 1..N_OF_SIGNALS
  /\ pending \subseteq sent /\ sent \subseteq Signal
  /\ handled \subseteq Signal /\ discarded \subseteq Signal
  /\ interrupted \in BOOLEAN

\* What is sent has a name and can be caught, and all of it but SIGINT comes in
\* the order of the numbers.  As long as no signal was early, no signal has found the
\* child without its handler, and what was discarded unhandled was SIGCONT, for a
\* stop signal: those were not there yet when SIGCONT was sent.
SignalInv ==
  /\ SignalTypeOK
  /\ \A s \in sent : ~ Skipped(s) /\ (s < parent_i \/ s = SIGINT)
  /\ interrupted => parent_at = "ended"
  /\ early = {} => /\ \A s \in sent : s < child_i
                   /\ child_is = "ended" => parent_at = "ended" /\ ~ interrupted
                   /\ child_is # "stopped"
                   /\ sent = handled \cup pending \cup discarded
                   /\ \A s \in discarded \ handled :
                        Default[s] = "continue" /\ \E t \in sent : Default[t] = "stop"

\* What the sending of a signal discards: for a SIGCONT the stop signals, for
\* those the SIGCONT.
LEMMA OppositeOf ==
  ASSUME NEW s \in Signal, NEW t \in Opposite(s)
  PROVE  /\ t \in Signal
         /\ \/ Default[s] = "stop" /\ Default[t] = "continue"
            \/ Default[s] = "continue" /\ Default[t] = "stop"
<1>1. t \in Signal /\ {Default[s], Default[t]} = {"stop", "continue"}
  BY DEF Opposite
<1>2. Default[s] \in {"stop", "continue"} /\ Default[t] \in {"stop", "continue"}
  BY <1>1
<1>3. "stop" \in {Default[s], Default[t]} /\ "continue" \in {Default[s], Default[t]}
  BY <1>1
<1>4. QED BY <1>1, <1>2, <1>3

\* A signal that is sent after all smaller ones, or is SIGINT, keeps the
\* invariant: its handler is there, or it is early.
LEMMA GenerateKeeps ==
  ASSUME SignalInv, NEW s \in Signal, ~ Skipped(s), Generate(s),
         s = parent_i \/ s = SIGINT,
         parent_i' \in 1..N_OF_SIGNALS, parent_i <= parent_i',
         s < parent_i' \/ s = SIGINT,
         parent_at' \in {"fork", "send", "ended"}, parent_at = "send", ~ interrupted,
         interrupted' \in BOOLEAN, interrupted' => parent_at' = "ended",
         child_is # "ended",
         UNCHANGED <<child_i, handled>>
  PROVE  SignalInv'
<1> USE SignalAssumption DEF Signal
<1>0. SignalTypeOK
  BY DEF SignalInv
<1>1. /\ pending' \subseteq pending \cup {s} /\ sent' = sent \cup {s}
      /\ discarded' = discarded \cup (pending \cap Opposite(s))
      /\ child_is' \in {child_is, "running"}
  BY DEF Generate
<1>2. SignalTypeOK'
  BY <1>0, <1>1 DEF SignalTypeOK
<1>3. \A t \in sent' : ~ Skipped(t)' /\ (t < parent_i' \/ t = SIGINT)
  BY <1>0, <1>1 DEF SignalInv, SignalTypeOK, Skipped
<1>4. ASSUME early' = {}
      PROVE  /\ \A t \in sent' : t < child_i'
             /\ child_is' # "ended" /\ child_is' # "stopped"
             /\ sent' = handled' \cup pending' \cup discarded'
             /\ \A t \in discarded' \ handled' :
                  Default[t] = "continue" /\ \E u \in sent' : Default[u] = "stop"
  <2>1. early = {} /\ s < child_i
    BY <1>0, <1>4 DEF Generate, SignalTypeOK
  <2>2. HasHandler(s)
    BY <2>1 DEF HasHandler
  <2>3. pending' = (pending \ Opposite(s)) \cup {s}
    BY <2>2 DEF Generate
  <2>4. \A t \in pending \cap Opposite(s) : Default[t] = "continue" /\ Default[s] = "stop"
    <3> SUFFICES ASSUME NEW t \in pending, t \in Opposite(s), Default[s] = "continue",
                        Default[t] = "stop"
                 PROVE  FALSE
      BY OppositeOf
    <3>1. s < t
      BY OppositeOf
    <3>2. s # SIGINT /\ t # SIGINT
      OBVIOUS
    <3>3. t < parent_i /\ t \in Nat
      BY <1>0, <3>2 DEF SignalInv, SignalTypeOK
    <3>4. s = parent_i
      BY <3>2
    <3>5. QED BY <1>0, <3>1, <3>3, <3>4 DEF SignalTypeOK
  <2>5. \A t \in sent' : t < child_i'
    BY <1>1, <2>1 DEF SignalInv
  <2>6. sent' = handled' \cup pending' \cup discarded'
    BY <1>1, <2>1, <2>3 DEF SignalInv
  <2>7. \A t \in discarded' \ handled' :
          Default[t] = "continue" /\ \E u \in sent' : Default[u] = "stop"
    BY <1>1, <2>1, <2>4 DEF SignalInv
  <2>8. QED BY <1>1, <2>1, <2>5, <2>6, <2>7 DEF SignalInv
<1>5. QED BY <1>2, <1>3, <1>4 DEF SignalInv

\* Each step of parent, child and kernel.
LEMMA SignalStep == SignalInv /\ [SignalNext]_signal_vars => SignalInv'
<1> SUFFICES ASSUME SignalInv, [SignalNext]_signal_vars PROVE SignalInv'
  OBVIOUS
<1> USE SignalAssumption DEF Signal
<1>0. SignalTypeOK
  BY DEF SignalInv
<1>1. CASE Fork
  BY <1>0, <1>1 DEF Fork, SignalInv, SignalTypeOK, Skipped
<1>2. CASE Install
  BY <1>0, <1>2 DEF Install, SignalInv, SignalTypeOK, Skipped
<1>3. CASE Send
  <2>1. parent_at = "send" /\ ~ interrupted /\ parent_i \in Signal
        /\ parent_i' = parent_i + 1 /\ UNCHANGED <<parent_at, child_i, handled, interrupted>>
    BY <1>0, <1>3 DEF Send, SignalInv, SignalTypeOK
  <2>2. CASE Skipped(parent_i) \/ child_is = "ended"
    <3>1. UNCHANGED <<pending, discarded, child_is, sent, early>>
      BY <1>3, <2>2 DEF Send
    <3>2. SignalTypeOK'
      BY <1>0, <2>1, <3>1 DEF SignalTypeOK
    <3>3. \A s \in sent : s < parent_i => s < parent_i'
      BY <1>0, <2>1 DEF SignalTypeOK
    <3>4. QED BY <2>1, <3>1, <3>2, <3>3 DEF SignalInv, Skipped
  <2>3. CASE ~ (Skipped(parent_i) \/ child_is = "ended")
    <3>1. Generate(parent_i)
      BY <1>3, <2>3 DEF Send
    <3>2. QED BY <1>0, <2>1, <2>3, <3>1, GenerateKeeps DEF SignalTypeOK
  <2>4. QED BY <2>2, <2>3
<1>4. ASSUME NEW s \in Signal, Deliver(s) PROVE SignalInv'
  <2>1. s \in pending /\ s \in sent /\ ~ Skipped(s)
    BY <1>0, <1>4 DEF Deliver, SignalInv, SignalTypeOK
  <2>2. CASE HasHandler(s)
    BY <1>0, <1>4, <2>1, <2>2 DEF Deliver, SignalInv, SignalTypeOK, Skipped
  <2>3. CASE ~ HasHandler(s)
    <3>1. early # {}
      BY <2>1, <2>3 DEF SignalInv, HasHandler
    <3>2. QED BY <1>0, <1>4, <2>1, <2>3, <3>1 DEF Deliver, SignalInv, SignalTypeOK, Skipped
  <2>4. QED BY <2>2, <2>3
<1>5. CASE KillChild
  BY <1>0, <1>5 DEF KillChild, SignalInv, SignalTypeOK, Skipped
<1>6. CASE Interrupt
  <2>1. /\ parent_at = "send" /\ ~ interrupted /\ parent_at' = "ended" /\ interrupted'
        /\ interrupted' \in BOOLEAN /\ UNCHANGED <<parent_i, child_i, handled>>
    BY <1>0, <1>6 DEF Interrupt, SignalInv, SignalTypeOK
  <2>2. CASE child_is = "ended"
    BY <1>0, <1>6, <2>1, <2>2 DEF Interrupt, SignalInv, SignalTypeOK, Skipped
  <2>3. CASE child_is # "ended"
    <3>1. Generate(SIGINT) /\ ~ Skipped(SIGINT)
      BY <1>6, <2>3 DEF Interrupt, Skipped
    <3>2. QED BY <1>0, <2>1, <2>3, <3>1, GenerateKeeps DEF SignalTypeOK
  <2>4. QED BY <2>2, <2>3
<1>7. CASE UNCHANGED signal_vars
  BY <1>0, <1>7 DEF signal_vars, SignalInv, SignalTypeOK, Skipped
<1>8. QED BY <1>1, <1>2, <1>3, <1>4, <1>5, <1>6, <1>7 DEF SignalNext

\* With any number of signals, and a CTRL+C at any time: a child that was in time
\* with its handlers is ended by SIGKILL alone, prints nothing but what it was sent,
\* and misses a signal only when it is pending, which SIGKILL may come before, or
\* when it is a SIGCONT that was discarded for a stop signal.
THEOREM PromptChildMissesCorrect == Spec => []PromptChildMisses
<1>1. Init => SignalInv
  <2> SUFFICES ASSUME SignalInit PROVE SignalInv
    BY EachInit
  <2>1. 1 \in 1..N_OF_SIGNALS
    BY SignalAssumption DEF Signal
  <2>2. SignalTypeOK
    BY <2>1 DEF SignalInit, SignalTypeOK
  <2>3. QED BY <2>2 DEF SignalInit, SignalInv
<1>2. SignalInv /\ [Next]_program_vars => SignalInv'
  BY EachProgram, SignalStep
<1>3. SignalInv => PromptChildMisses
  BY DEF SignalInv, PromptChildMisses
<1>4. QED BY <1>1, <1>2, <1>3, PTL DEF Spec
-----------------------------------------------------------------------------
\* The file tool

\* What access() saw is still so for who was not overtaken.
FileInv ==
  /\ tool_at \in [User -> {"ended", "access", "act"}]
  /\ operation \in [User -> {"CREATE_FILE", "DELETE_FILE"}]
  /\ overtaken \in [User -> SUBSET User]
  /\ \A u \in User : tool_at[u] = "act" /\ overtaken[u] = {} =>
       (operation[u] = "CREATE_FILE") = (path_holds = "nothing")

\* Only the step of another user, after access(), makes what it saw untrue.
LEMMA FileStep == FileInv /\ [FileNext]_file_vars => FileInv'
<1> SUFFICES ASSUME FileInv, [FileNext]_file_vars PROVE FileInv'
  OBVIOUS
<1> USE DEF FileInv
<1>1. ASSUME NEW u \in User, RunTool(u) PROVE FileInv'
  <2>1. \A v \in User : v # u => operation'[v] = operation[v] /\ tool_at'[v] = tool_at[v]
    BY <1>1 DEF RunTool
  <2>2. /\ tool_at' \in [User -> {"ended", "access", "act"}] /\ tool_at'[u] # "act"
        /\ operation' \in [User -> {"CREATE_FILE", "DELETE_FILE"}]
    BY <1>1 DEF RunTool
  <2>3. UNCHANGED <<path_holds, overtaken>>
    BY <1>1 DEF RunTool
  <2>4. QED BY <2>1, <2>2, <2>3
<1>2. ASSUME NEW u \in User, Access(u) PROVE FileInv'
  <2>1. tool_at' \in [User -> {"ended", "access", "act"}]
        /\ overtaken' \in [User -> SUBSET User]
    BY <1>2 DEF Access
  <2>2. \A v \in User : v # u => tool_at'[v] = tool_at[v] /\ overtaken'[v] = overtaken[v]
    BY <1>2 DEF Access
  <2>3. tool_at'[u] = "act" => ~ Refused(u)
    BY <1>2 DEF Access
  <2>4. UNCHANGED <<path_holds, operation>>
    BY <1>2 DEF Access
  <2>5. QED BY <2>1, <2>2, <2>3, <2>4 DEF Refused
<1>3. ASSUME NEW u \in User, NEW result, Acts(u, result),
             result = "OK" \/ UNCHANGED path_holds
      PROVE  FileInv'
  <2>1. tool_at' = [tool_at EXCEPT ![u] = "ended"] /\ UNCHANGED operation
    BY <1>3 DEF Acts
  <2>2. overtaken' \in [User -> SUBSET User]
    BY <1>3 DEF Acts
  <2>3. \A v \in User : tool_at'[v] = "act" => v # u /\ tool_at[v] = "act"
    BY <2>1
  <2>4. \A v \in User : tool_at'[v] = "act" /\ overtaken'[v] = {} =>
          overtaken[v] = {} /\ result # "OK"
    BY <1>3, <2>3 DEF Acts
  <2>5. QED BY <1>3, <2>1, <2>2, <2>3, <2>4
<1>4. CASE UseFile
  BY <1>4 DEF UseFile
<1>5. CASE UNCHANGED file_vars
  BY <1>5 DEF file_vars
<1>6. QED BY <1>1, <1>2, <1>3, <1>4, <1>5 DEF FileNext, run_create, run_delete, CallFails

\* However many users share a path: only who was overtaken between access() and
\* its call empties a file that was there or misses one it saw.
THEOREM OnlyRacesLoseDataCorrect == Spec => OnlyRacesLoseData
<1>1. Init => FileInv
  BY EachInit DEF FileInit, FileInv
<1>2. FileInv /\ [Next]_program_vars => FileInv'
  BY EachProgram, FileStep
<1>3. FileInv /\ [Next]_program_vars =>
        [\A u \in User :
           tool_at[u] = "act" /\ tool_at'[u] = "ended" /\ overtaken[u] = {} =>
             (operation[u] = "CREATE_FILE") = (path_holds = "nothing")]_file_vars
  BY DEF FileInv
<1>4. QED BY <1>1, <1>2, <1>3, PTL DEF Spec, OnlyRacesLoseData
-----------------------------------------------------------------------------
\* The loading of a driver

\* What a driver registers, in order: no two steps are the same.
LEMMA LadderOf ==
  ASSUME NEW d \in DOMAIN Ladder
  PROVE  LET ladder == Ladder[d]
             char == d \in {"dev", "ioctl"}
         IN /\ Len(ladder) \in Nat \ {0}
            /\ \A k, q \in 1..Len(ladder) : ladder[k] = ladder[q] => k = q
            /\ ToSet(ladder) = {ladder[k] : k \in 1..Len(ladder)}
            /\ Last(ladder) = ladder[Len(ladder)]
            /\ Last(ladder) \in {"proc_entry", "bin_file"} <=> ~ char
            /\ char => /\ Len(ladder) = 4
                       /\ \A k \in 1..Len(ladder) : ladder[k] \notin {"proc_entry", "bin_file"}
            /\ \A k \in 1..Len(ladder) : /\ ladder[k] = "region" => char /\ k = 1
                                         /\ ladder[k] = "device" => char /\ k = 4
            /\ char => ladder[1] = "region"
<1> DEFINE ladder == Ladder[d]
<1>1. d \in {"dev", "ioctl", "proc", "sys"}
  BY DEF Ladder
<1>2. CASE d \in {"dev", "ioctl"}
  <2>1. ladder = <<"region", "cdev", "class", "device">>
    BY <1>2 DEF Ladder, Device
  <2>2. Len(ladder) = 4 /\ 1..Len(ladder) = {1, 2, 3, 4}
    BY <2>1
  <2>3. ToSet(ladder) = {ladder[k] : k \in 1..Len(ladder)} /\ Last(ladder) = ladder[Len(ladder)]
    BY <2>1 DEF ToSet, Last
  <2>4. QED BY <1>2, <2>1, <2>2, <2>3
<1>3. CASE d = "proc"
  <2>1. ladder = <<"proc_entry">>
    BY <1>3 DEF Ladder
  <2>2. Len(ladder) = 1 /\ 1..Len(ladder) = {1}
    BY <2>1
  <2>3. ToSet(ladder) = {ladder[k] : k \in 1..Len(ladder)} /\ Last(ladder) = ladder[Len(ladder)]
    BY <2>1 DEF ToSet, Last
  <2>4. QED BY <1>3, <2>1, <2>2, <2>3
<1>4. CASE d = "sys"
  <2>1. ladder = <<"kobject", "bin_file">>
    BY <1>4 DEF Ladder
  <2>2. Len(ladder) = 2 /\ 1..Len(ladder) = {1, 2}
    BY <2>1
  <2>3. ToSet(ladder) = {ladder[k] : k \in 1..Len(ladder)} /\ Last(ladder) = ladder[Len(ladder)]
    BY <2>1 DEF ToSet, Last
  <2>4. QED BY <1>4, <2>1, <2>2, <2>3
<1>5. QED BY <1>1, <1>2, <1>3, <1>4

LoadTypeOK ==
  /\ driver \in DOMAIN Ladder
  /\ module \in {"absent", "coming", "live", "failing", "going"}
  /\ at \in Nat
  /\ file \in [File -> {"closed", "open", "calling", "dead"}]
  /\ cli_magic \in [File -> Nat \cup {None}]

InUse(f) == file[f] \in {"open", "calling"}

\* What is registered is what the steps up to here, or those not undone yet, have
\* registered: all but a device that could not be created.
RegisteredUpTo(k) == /\ registered \subseteq {steps[q] : q \in 1..k}
                     /\ {steps[q] : q \in 1..k} \ {"device"} \subseteq registered
RegisteredInv ==
  /\ module = "absent" => registered = {}
  /\ module = "coming" => at \in 1..(Len(steps) + 1) /\ RegisteredUpTo(at - 1)
  /\ module = "live" => at = Len(steps) + 1 /\ RegisteredUpTo(at - 1)
  /\ module \in {"failing", "going"} => at \in 0..Len(steps) /\ RegisteredUpTo(at)
  /\ module = "failing" => at < Len(steps)

\* A file in use has its path and its module; only the files of /proc and /sys are
\* still in use when the unloading begins.
FileInUseInv ==
  /\ states \subseteq File
  /\ \A f \in File : f \in states => InUse(f)
  /\ \A f \in File : InUse(f) =>
       /\ Last(steps) \in registered
       /\ module \in {"coming", "live", "going"}
       /\ module = "going" => ~ IsChar /\ at = Len(steps)

\* The commands of the driver are made of the major number before its device is
\* there, and the client's, made later of the same number, are the same.
MagicInv ==
  /\ module = "absent" => magic = None
  /\ driver = "ioctl" /\ module = "coming" =>
       /\ at <= BuildsAt => magic = None \/ magic = Magic(major)
       /\ at = 1 => magic = None
       /\ at > BuildsAt => magic = Magic(major)
       /\ at > 1 => major \in Nat
  /\ driver = "ioctl" /\ module = "live" => magic = Magic(major) /\ major \in Nat
  /\ \A f \in File : cli_magic[f] # None =>
       driver = "ioctl" /\ InUse(f) /\ cli_magic[f] = magic
  /\ \A f \in File : driver = "ioctl" /\ file[f] = "calling" => cli_magic[f] # None

LoadInv == LoadTypeOK /\ RegisteredInv /\ FileInUseInv /\ MagicInv

\* The last step is registered only when all are, but for a device.
LEMMA LastIsRegistered ==
  ASSUME LoadTypeOK, RegisteredInv, Last(steps) \in registered
  PROVE  /\ module \in {"coming", "live"} => at = Len(steps) + 1
         /\ module \in {"failing", "going"} => module = "going" /\ at = Len(steps)
         /\ module # "absent"
         /\ registered = ToSet(steps)
<1>0. /\ Len(steps) \in Nat \ {0} /\ at \in Nat
      /\ Last(steps) = steps[Len(steps)] /\ ToSet(steps) = {steps[k] : k \in 1..Len(steps)}
      /\ \A k, q \in 1..Len(steps) : steps[k] = steps[q] => k = q
      /\ \A k \in 1..Len(steps) : steps[k] = "device" => k = Len(steps)
  BY LadderOf DEF steps, LoadTypeOK
<1>1. ASSUME NEW k \in 0..Len(steps), RegisteredUpTo(k)
      PROVE  k = Len(steps) /\ registered = ToSet(steps)
  <2>1. PICK q \in 1..k : steps[Len(steps)] = steps[q]
    BY <1>0, <1>1 DEF RegisteredUpTo
  <2>2. q = Len(steps) /\ k = Len(steps)
    BY <1>0, <2>1
  <2>3. \A p \in 1..Len(steps) : steps[p] \in registered
    BY <1>0, <1>1, <2>2 DEF RegisteredUpTo
  <2>4. QED BY <1>0, <1>1, <2>2, <2>3 DEF RegisteredUpTo
<1>2. CASE module = "absent"
  BY <1>2 DEF RegisteredInv
<1>3. CASE module = "coming" \/ module = "live"
  <2>1. at - 1 \in 0..Len(steps) /\ RegisteredUpTo(at - 1)
    BY <1>0, <1>3 DEF RegisteredInv
  <2>2. QED BY <1>0, <1>1, <1>3, <2>1
<1>4. CASE module = "failing" \/ module = "going"
  <2>1. at \in 0..Len(steps) /\ RegisteredUpTo(at) /\ (module = "failing" => at < Len(steps))
    BY <1>0, <1>4 DEF RegisteredInv
  <2>2. at = Len(steps) /\ registered = ToSet(steps)
    BY <1>0, <1>1, <2>1
  <2>3. QED BY <1>4, <2>1, <2>2
<1>5. QED BY <1>2, <1>3, <1>4 DEF LoadTypeOK

\* The invariant of the loading implies the three properties of it.
LEMMA LoadInvIsSafe == LoadInv => NothingLeft /\ UseIsSafe /\ CommandsAgree
<1> SUFFICES ASSUME LoadInv PROVE NothingLeft /\ UseIsSafe /\ CommandsAgree
  OBVIOUS
<1>1. NothingLeft
  BY DEF LoadInv, RegisteredInv, FileInUseInv, NothingLeft
<1>2. UseIsSafe
  BY LastIsRegistered DEF LoadInv, FileInUseInv, UseIsSafe, InUse
<1>3. CommandsAgree
  BY DEF LoadInv, MagicInv, CommandsAgree
<1>4. QED BY <1>1, <1>2, <1>3

\* While a step of an init or an error path is still to come, no file is in use.
LEMMA NobodyYet ==
  ASSUME LoadInv, ~ (module \in {"coming", "live"} /\ at = Len(steps) + 1),
         ~ (module = "going" /\ at = Len(steps) /\ ~ IsChar)
  PROVE  \A f \in File : /\ ~ InUse(f) /\ f \notin states /\ cli_magic[f] = None
                         /\ file[f] \in {"closed", "dead"}
<1>1. \A f \in File : ~ InUse(f)
  BY LastIsRegistered DEF LoadInv, FileInUseInv
<1>2. QED BY <1>1 DEF LoadInv, FileInUseInv, MagicInv, LoadTypeOK, InUse

\* A step at which no file is in use, before or after it.
LEMMA QuietStep ==
  ASSUME LoadInv, LoadTypeOK', RegisteredInv',
         \A f \in File : ~ InUse(f) /\ f \notin states /\ cli_magic[f] = None,
         UNCHANGED <<file, states, cli_magic>>
  PROVE  /\ FileInUseInv'
         /\ \A f \in File : cli_magic'[f] = None /\ file'[f] \notin {"open", "calling"}
BY DEF LoadInv, FileInUseInv, LoadTypeOK, InUse

\* insmod starts an init with nothing registered.
LEMMA InsmodKeeps == LoadInv /\ Insmod => LoadInv'
<1> SUFFICES ASSUME LoadInv, Insmod PROVE LoadInv'
  OBVIOUS
<1>1. /\ module = "absent" /\ driver' \in DOMAIN Ladder /\ module' = "coming" /\ at' = 1
      /\ registered = {} /\ registered' = {} /\ magic' = None
      /\ UNCHANGED <<file, states, cli_magic>>
  BY DEF Insmod, LoadInv, RegisteredInv, MagicInv
<1>2. LoadTypeOK'
  BY <1>1 DEF LoadInv, LoadTypeOK
<1>3. RegisteredInv'
  <2>1. Len(steps') \in Nat \ {0}
    BY <1>1, LadderOf DEF steps
  <2>2. QED BY <1>1, <2>1 DEF RegisteredInv, RegisteredUpTo
<1>4. \A f \in File : ~ InUse(f) /\ f \notin states /\ cli_magic[f] = None
  BY <1>1, NobodyYet
<1>5. FileInUseInv' /\ \A f \in File : cli_magic'[f] = None /\ file'[f] \notin {"open", "calling"}
  BY <1>1, <1>2, <1>3, <1>4, QuietStep
<1>6. MagicInv'
  BY <1>1, <1>5 DEF MagicInv, BuildsAt
<1>7. QED BY <1>2, <1>3, <1>5, <1>6 DEF LoadInv

\* The ioctl driver makes its command numbers once it has its major number.
LEMMA BuildKeeps == LoadInv /\ build_ioctl_cmd => LoadInv'
<1> SUFFICES ASSUME LoadInv, build_ioctl_cmd PROVE LoadInv'
  OBVIOUS
<1>1. /\ module = "coming" /\ driver = "ioctl" /\ at = 2 /\ magic' = Magic(major)
      /\ UNCHANGED <<driver, module, at, registered, major, file, states, cli_magic>>
  BY DEF build_ioctl_cmd, MustBuild, BuildsAt
<1>2. LoadTypeOK' /\ RegisteredInv'
  BY <1>1 DEF LoadInv, LoadTypeOK, RegisteredInv, RegisteredUpTo, steps
<1>3. Len(steps) = 4
  BY <1>1, LadderOf DEF LoadInv, LoadTypeOK, steps
<1>4. \A f \in File : ~ InUse(f) /\ f \notin states /\ cli_magic[f] = None
  BY <1>1, <1>3, NobodyYet
<1>5. FileInUseInv' /\ \A f \in File : cli_magic'[f] = None /\ file'[f] \notin {"open", "calling"}
  BY <1>1, <1>2, <1>4, QuietStep
<1>6. MagicInv'
  BY <1>1, <1>5 DEF LoadInv, MagicInv, BuildsAt
<1>7. QED BY <1>2, <1>5, <1>6 DEF LoadInv

\* One more registration of the ladder.
LEMMA RegisterKeeps == LoadInv /\ Register => LoadInv'
<1> SUFFICES ASSUME LoadInv, Register PROVE LoadInv'
  OBVIOUS
<1>0. LoadTypeOK /\ RegisteredInv /\ MagicInv
  BY DEF LoadInv
<1>1. /\ module = "coming" /\ at \in 1..Len(steps) /\ at' = at + 1 /\ ~ MustBuild
      /\ RegisteredUpTo(at - 1) /\ Len(steps) \in Nat
      /\ UNCHANGED <<driver, module, magic, file, states, cli_magic>> /\ UNCHANGED steps
  BY <1>0, LadderOf DEF Register, LoadTypeOK, RegisteredInv, steps
<1>2. LoadTypeOK'
  BY <1>0, <1>1 DEF LoadTypeOK
<1>3. RegisteredInv'
  <2>1. registered \subseteq registered' /\ registered' \subseteq registered \cup {steps[at]}
        /\ (steps[at] \in registered' \/ steps[at] = "device")
    BY DEF Register
  <2>2. {steps[q] : q \in 1..at} = {steps[q] : q \in 1..(at - 1)} \cup {steps[at]}
    BY <1>1
  <2>3. registered' \subseteq {steps[q] : q \in 1..at}
    BY <1>1, <2>1, <2>2 DEF RegisteredUpTo
  <2>4. {steps[q] : q \in 1..at} \ {"device"} \subseteq registered'
    BY <1>1, <2>1, <2>2 DEF RegisteredUpTo
  <2>5. at' - 1 = at /\ at' \in 1..(Len(steps) + 1)
    BY <1>1
  <2>6. RegisteredUpTo(at - 1)'
    BY <1>1, <2>3, <2>4, <2>5 DEF RegisteredUpTo
  <2>7. QED BY <1>1, <2>5, <2>6 DEF RegisteredInv
<1>4. \A f \in File : ~ InUse(f) /\ f \notin states /\ cli_magic[f] = None
  BY <1>1, NobodyYet
<1>5. FileInUseInv' /\ \A f \in File : cli_magic'[f] = None /\ file'[f] \notin {"open", "calling"}
  BY <1>1, <1>2, <1>3, <1>4, QuietStep
<1>6. MagicInv'
  <2>1. CASE driver = "ioctl"
    <3>1. steps[at] = "region" <=> at = 1
      BY <1>0, <1>1, <2>1, LadderOf DEF LoadTypeOK, steps
    <3>2. at' > 1 => major' \in Nat
      BY <1>0, <1>1, <2>1, <3>1, LoadAssumption DEF Register, MagicInv
    <3>3. at > 1 => UNCHANGED major
      BY <3>1 DEF Register
    <3>4. at' <= BuildsAt => magic' = None
      BY <1>0, <1>1, <2>1 DEF MagicInv, BuildsAt
    <3>5. at' > BuildsAt => magic' = Magic(major)'
      <4>1. CASE at = 2
        BY <1>0, <1>1, <2>1, <3>3, <4>1 DEF MagicInv, MustBuild, BuildsAt, Magic
      <4>2. CASE at > 2
        BY <1>0, <1>1, <2>1, <3>3, <4>2 DEF MagicInv, BuildsAt, Magic
      <4>3. QED BY <1>1, <4>1, <4>2 DEF BuildsAt
    <3>6. QED BY <1>1, <1>5, <2>1, <3>2, <3>4, <3>5 DEF MagicInv
  <2>2. CASE driver # "ioctl"
    BY <1>1, <1>5, <2>2 DEF MagicInv
  <2>3. QED BY <2>1, <2>2
<1>7. QED BY <1>2, <1>3, <1>5, <1>6 DEF LoadInv

\* A registration that fails leaves those before it to be undone.
LEMMA RegisterFailsKeeps == LoadInv /\ RegisterFails => LoadInv'
<1> SUFFICES ASSUME LoadInv, RegisterFails PROVE LoadInv'
  OBVIOUS
<1>0. LoadTypeOK /\ RegisteredInv
  BY DEF LoadInv
<1>1. /\ module = "coming" /\ at \in 1..Len(steps) /\ module' = "failing" /\ at' = at - 1
      /\ RegisteredUpTo(at - 1) /\ Len(steps) \in Nat
      /\ UNCHANGED <<driver, registered, magic, file, states, cli_magic>> /\ UNCHANGED steps
  BY <1>0, LadderOf DEF RegisterFails, ErrorExit, LoadTypeOK, RegisteredInv, steps
<1>2. LoadTypeOK' /\ RegisteredInv'
  BY <1>0, <1>1 DEF LoadTypeOK, RegisteredInv, RegisteredUpTo
<1>3. \A f \in File : ~ InUse(f) /\ f \notin states /\ cli_magic[f] = None
  BY <1>1, NobodyYet
<1>4. FileInUseInv' /\ \A f \in File : cli_magic'[f] = None /\ file'[f] \notin {"open", "calling"}
  BY <1>1, <1>2, <1>3, QuietStep
<1>5. MagicInv'
  BY <1>1, <1>4 DEF MagicInv
<1>6. QED BY <1>2, <1>4, <1>5 DEF LoadInv

\* An init that went through the ladder has registered all of it.
LEMMA InitReturnsKeeps == LoadInv /\ InitReturns => LoadInv'
<1> SUFFICES ASSUME LoadInv, InitReturns PROVE LoadInv'
  OBVIOUS
<1>0. LoadTypeOK /\ RegisteredInv /\ FileInUseInv /\ MagicInv
  BY DEF LoadInv
<1>1. /\ module = "coming" /\ at = Len(steps) + 1 /\ module' = "live" /\ Len(steps) \in Nat
      /\ UNCHANGED <<driver, at, registered, major, magic, file, states, cli_magic>>
      /\ UNCHANGED steps
  BY <1>0, LadderOf DEF InitReturns, LoadTypeOK, RegisteredInv, steps
<1>2. LoadTypeOK' /\ RegisteredInv'
  BY <1>0, <1>1 DEF LoadTypeOK, RegisteredInv, RegisteredUpTo
<1>3. FileInUseInv'
  BY <1>0, <1>1 DEF FileInUseInv, InUse
<1>4. MagicInv'
  <2>1. driver = "ioctl" => at > BuildsAt
    BY <1>0, <1>1, LadderOf DEF LoadTypeOK, steps, BuildsAt
  <2>2. QED BY <1>0, <1>1, <2>1 DEF MagicInv, InUse, Magic, BuildsAt
<1>5. QED BY <1>2, <1>3, <1>4 DEF LoadInv

\* An exit starts with all that is registered, and no open file of a char device.
LEMMA RmmodKeeps == LoadInv /\ Rmmod => LoadInv'
<1> SUFFICES ASSUME LoadInv, Rmmod PROVE LoadInv'
  OBVIOUS
<1>0. LoadTypeOK /\ RegisteredInv /\ FileInUseInv /\ MagicInv
  BY DEF LoadInv
<1>1. /\ module = "live" /\ module' = "going" /\ at' = Len(steps) /\ Len(steps) \in Nat \ {0}
      /\ at = Len(steps) + 1 /\ ~ Pinned
      /\ UNCHANGED <<driver, registered, major, magic, file, states, cli_magic>>
      /\ UNCHANGED steps
  BY <1>0, LadderOf DEF Rmmod, LoadTypeOK, RegisteredInv, steps
<1>2. LoadTypeOK' /\ RegisteredInv'
  BY <1>0, <1>1 DEF LoadTypeOK, RegisteredInv, RegisteredUpTo
<1>3. \A f \in File : InUse(f) => ~ IsChar
  BY <1>1 DEF Pinned, InUse
<1>4. FileInUseInv'
  BY <1>0, <1>1, <1>3 DEF FileInUseInv, InUse, IsChar
<1>5. MagicInv'
  BY <1>0, <1>1 DEF MagicInv, InUse
<1>6. QED BY <1>2, <1>4, <1>5 DEF LoadInv

\* The last of what is registered is taken back.
LEMMA UndoKeeps == LoadInv /\ Undo => LoadInv'
<1> SUFFICES ASSUME LoadInv, Undo PROVE LoadInv'
  OBVIOUS
<1>0. LoadTypeOK /\ RegisteredInv /\ FileInUseInv /\ MagicInv
  BY DEF LoadInv
<1>1. /\ module \in {"failing", "going"} /\ at \in 1..Len(steps) /\ at' = at - 1
      /\ registered' = registered \ {steps[at]} /\ RegisteredUpTo(at)
      /\ Len(steps) \in Nat
      /\ UNCHANGED <<driver, module, major, magic, cli_magic>> /\ UNCHANGED steps
  BY <1>0, LadderOf DEF Undo, LoadTypeOK, RegisteredInv, steps
<1>2. LoadTypeOK'
  BY <1>0, <1>1 DEF Undo, LoadTypeOK
<1>3. RegisteredInv'
  <2>1. \A k, q \in 1..Len(steps) : steps[k] = steps[q] => k = q
    BY <1>0, LadderOf DEF LoadTypeOK, steps
  <2>2. {steps[q] : q \in 1..(at - 1)} = {steps[q] : q \in 1..at} \ {steps[at]}
    BY <1>1, <2>1
  <2>3. at' \in 0..Len(steps) /\ at' < Len(steps)
    BY <1>1
  <2>4. {steps[q] : q \in 1..at'} = {steps[q] : q \in 1..at} \ {steps[at]}
    BY <1>1, <2>2
  <2>5. RegisteredUpTo(at)'
    BY <1>1, <2>4 DEF RegisteredUpTo
  <2>6. QED BY <1>1, <2>3, <2>5 DEF RegisteredInv
<1>4. \A f \in File : file'[f] \notin {"open", "calling"} /\ f \notin states'
  <2>1. CASE Removing
    BY <1>0, <2>1 DEF Undo, LoadTypeOK
  <2>2. CASE ~ Removing
    <3>1. ~ (module = "going" /\ at = Len(steps) /\ ~ IsChar)
      BY <1>0, <1>1, <2>2, LadderOf DEF Removing, LoadTypeOK, steps, IsChar
    <3>2. \A f \in File : ~ InUse(f) /\ f \notin states
      BY <1>1, <3>1, NobodyYet
    <3>3. QED BY <2>2, <3>2 DEF Undo, InUse
  <2>3. QED BY <2>1, <2>2
<1>5. \A f \in File : cli_magic'[f] = None
  <2>1. \A f \in File : InUse(f) => ~ IsChar
    BY <1>0, <1>1 DEF FileInUseInv
  <2>2. QED BY <1>0, <1>1, <2>1 DEF MagicInv, IsChar
<1>6. FileInUseInv'
  <2>1. states' \subseteq File
    BY <1>0 DEF Undo, FileInUseInv
  <2>2. QED BY <1>4, <2>1 DEF FileInUseInv, InUse
<1>7. MagicInv'
  BY <1>1, <1>4, <1>5 DEF MagicInv
<1>8. QED BY <1>2, <1>3, <1>6, <1>7 DEF LoadInv

\* When all is taken back the module is gone.
LEMMA GoneKeeps == LoadInv /\ Gone => LoadInv'
<1> SUFFICES ASSUME LoadInv, Gone PROVE LoadInv'
  OBVIOUS
<1>0. LoadTypeOK /\ RegisteredInv
  BY DEF LoadInv
<1>1. /\ module \in {"failing", "going"} /\ at = 0 /\ module' = "absent" /\ magic' = None
      /\ RegisteredUpTo(0) /\ Len(steps) \in Nat \ {0}
      /\ UNCHANGED <<driver, at, registered, file, states, cli_magic>>
  BY <1>0, LadderOf DEF Gone, LoadTypeOK, RegisteredInv, steps
<1>2. registered = {}
  BY <1>1 DEF RegisteredUpTo
<1>3. LoadTypeOK' /\ RegisteredInv'
  BY <1>0, <1>1, <1>2 DEF LoadTypeOK, RegisteredInv
<1>4. \A f \in File : ~ InUse(f) /\ f \notin states /\ cli_magic[f] = None
  BY <1>1, NobodyYet
<1>5. FileInUseInv' /\ \A f \in File : cli_magic'[f] = None /\ file'[f] \notin {"open", "calling"}
  BY <1>1, <1>3, <1>4, QuietStep
<1>6. MagicInv'
  BY <1>1, <1>5 DEF MagicInv
<1>7. QED BY <1>3, <1>5, <1>6 DEF LoadInv

\* A step of a program with its file, which leaves the module alone.
LEMMA FileStepKeepsModule ==
  ASSUME LoadInv, NEW f \in File,
         kwallet_open(f) \/ CliBuild(f) \/ Call(f) \/ Return(f) \/ kwallet_release(f)
           \/ CloseDead(f)
  PROVE  /\ UNCHANGED <<driver, module, at, registered, major, magic>>
         /\ LoadTypeOK' /\ RegisteredInv'
         /\ UNCHANGED steps
         /\ \A g \in File \ {f} : /\ file'[g] = file[g] /\ cli_magic'[g] = cli_magic[g]
                                  /\ g \in states' <=> g \in states
<1>1. UNCHANGED <<driver, module, at, registered, major, magic>> /\ UNCHANGED steps
  BY DEF kwallet_open, CliBuild, Call, Return, kwallet_release, CloseDead, steps
<1>2. CASE kwallet_open(f)
  BY <1>1, <1>2 DEF kwallet_open, LoadInv, LoadTypeOK, RegisteredInv, RegisteredUpTo
<1>3. CASE CliBuild(f)
  <2>1. module \in {"coming", "live"} /\ InUse(f) /\ driver = "ioctl" /\ Last(steps) \in registered
    BY <1>3 DEF CliBuild, LoadInv, FileInUseInv, InUse, IsChar
  <2>2. at = Len(steps) + 1 /\ Len(steps) = 4
    BY <2>1, LastIsRegistered, LadderOf DEF LoadInv, LoadTypeOK, steps
  <2>3. major \in Nat
    BY <2>1, <2>2 DEF LoadInv, MagicInv
  <2>4. Magic(major) \in Nat
    BY <2>3 DEF Magic
  <2>5. QED
    BY <1>1, <1>3, <2>4 DEF CliBuild, LoadInv, LoadTypeOK, RegisteredInv, RegisteredUpTo
<1>4. CASE Call(f)
  BY <1>1, <1>4 DEF Call, LoadInv, LoadTypeOK, RegisteredInv, RegisteredUpTo
<1>5. CASE Return(f)
  BY <1>1, <1>5 DEF Return, LoadInv, LoadTypeOK, RegisteredInv, RegisteredUpTo
<1>6. CASE kwallet_release(f)
  BY <1>1, <1>6 DEF kwallet_release, LoadInv, LoadTypeOK, RegisteredInv, RegisteredUpTo
<1>7. CASE CloseDead(f)
  BY <1>1, <1>7 DEF CloseDead, LoadInv, LoadTypeOK, RegisteredInv, RegisteredUpTo
<1>8. QED BY <1>2, <1>3, <1>4, <1>5, <1>6, <1>7

\* A file gets into use only when its path is there and stays so.
LEMMA OpenIsReachable ==
  ASSUME LoadInv, Reachable
  PROVE  /\ Last(steps) \in registered
         /\ module \in {"coming", "live"}
<1>1. Last(steps) \in registered /\ ~ Removing /\ (IsChar => module \in {"coming", "live"})
  BY DEF Reachable
<1>2. module = "going" => at = Len(steps) /\ module # "absent" /\ module # "failing"
  BY <1>1, LastIsRegistered DEF LoadInv
<1>3. module = "going" => IsChar
  BY <1>1, <1>2, LadderOf DEF LoadInv, LoadTypeOK, Removing, steps, IsChar
<1>4. QED BY <1>1, <1>3, LastIsRegistered DEF LoadInv, LoadTypeOK

\* What programs do with the file changes nothing of the module.
LEMMA ProgramKeepsLoad ==
  ASSUME LoadInv, NEW f \in File,
         kwallet_open(f) \/ CliBuild(f) \/ Call(f) \/ Return(f) \/ kwallet_release(f)
           \/ CloseDead(f)
  PROVE  LoadInv'
<1>0. /\ UNCHANGED <<driver, module, at, registered, major, magic>>
      /\ LoadTypeOK' /\ RegisteredInv' /\ UNCHANGED steps
      /\ \A g \in File \ {f} : /\ file'[g] = file[g] /\ cli_magic'[g] = cli_magic[g]
                               /\ g \in states' <=> g \in states
  BY FileStepKeepsModule
<1>1. LoadTypeOK /\ FileInUseInv /\ MagicInv
  BY DEF LoadInv
<1>2. /\ states' \subseteq File
      /\ f \in states' => InUse(f)'
      /\ InUse(f)' => \/ InUse(f)
                      \/ Last(steps) \in registered /\ module \in {"coming", "live"}
      /\ cli_magic'[f] # None => driver = "ioctl" /\ InUse(f)' /\ cli_magic'[f] = magic
      /\ driver = "ioctl" /\ file'[f] = "calling" => cli_magic'[f] # None
  <2>1. CASE kwallet_open(f)
    BY <1>1, <2>1, OpenIsReachable DEF kwallet_open, LoadTypeOK, FileInUseInv, MagicInv, InUse
  <2>2. CASE CliBuild(f)
    <3>1. module \in {"coming", "live"} /\ InUse(f) /\ driver = "ioctl" /\ Last(steps) \in registered
      BY <1>1, <2>2 DEF CliBuild, FileInUseInv, InUse, IsChar
    <3>2. at = Len(steps) + 1 /\ Len(steps) = 4
      BY <3>1, LastIsRegistered, LadderOf DEF LoadInv, LoadTypeOK, steps
    <3>3. magic = Magic(major)
      BY <1>1, <3>1, <3>2 DEF MagicInv, BuildsAt
    <3>4. QED BY <1>1, <2>2, <3>1, <3>3 DEF CliBuild, LoadTypeOK, FileInUseInv, MagicInv, InUse
  <2>3. CASE Call(f)
    BY <1>1, <2>3 DEF Call, LoadTypeOK, FileInUseInv, MagicInv, InUse
  <2>4. CASE Return(f)
    BY <1>1, <2>4 DEF Return, LoadTypeOK, FileInUseInv, MagicInv, InUse
  <2>5. CASE kwallet_release(f)
    BY <1>1, <2>5 DEF kwallet_release, LoadTypeOK, FileInUseInv, MagicInv, InUse
  <2>6. CASE CloseDead(f)
    BY <1>1, <2>6 DEF CloseDead, LoadTypeOK, FileInUseInv, MagicInv, InUse
  <2>7. QED BY <2>1, <2>2, <2>3, <2>4, <2>5, <2>6
<1>3. FileInUseInv'
  BY <1>0, <1>1, <1>2 DEF FileInUseInv, InUse, IsChar
<1>4. MagicInv'
  BY <1>0, <1>1, <1>2 DEF MagicInv, InUse, Magic
<1>5. QED BY <1>0, <1>3, <1>4 DEF LoadInv

\* Every step of the loading keeps its invariant.
LEMMA LoadStep == LoadInv /\ [LoadNext]_load_vars => LoadInv'
<1> SUFFICES ASSUME LoadInv, [LoadNext]_load_vars PROVE LoadInv'
  OBVIOUS
<1>1. CASE ModuleNext
  BY <1>1, InsmodKeeps, BuildKeeps, RegisterKeeps, RegisterFailsKeeps, InitReturnsKeeps,
     RmmodKeeps, UndoKeeps, GoneKeeps DEF ModuleNext
<1>2. ASSUME NEW f \in File,
             kwallet_open(f) \/ CliBuild(f) \/ Call(f) \/ Return(f) \/ kwallet_release(f)
               \/ CloseDead(f)
      PROVE  LoadInv'
  BY <1>2, ProgramKeepsLoad
<1>3. CASE UNCHANGED load_vars
  BY <1>3 DEF load_vars, LoadInv, LoadTypeOK, RegisteredInv, RegisteredUpTo, FileInUseInv,
              MagicInv, InUse, IsChar, steps, Magic
<1>4. QED BY <1>1, <1>2, <1>3 DEF LoadNext

\* Before the first insmod nothing is registered or in use.
LEMMA LoadStart == LoadInit => LoadInv
<1> SUFFICES ASSUME LoadInit PROVE LoadInv
  OBVIOUS
<1>1. "dev" \in DOMAIN Ladder
  BY DEF Ladder
<1>2. LoadTypeOK
  BY <1>1 DEF LoadInit, LoadTypeOK
<1>3. QED
  BY <1>2 DEF LoadInit, LoadInv, RegisteredInv, FileInUseInv, MagicInv, InUse

\* Each of the four drivers, loaded and unloaded any number of times while any
\* number of programs have its file open.
THEOREM LoadInvariant == Spec => []LoadInv
<1>1. Init => LoadInv
  BY EachInit, LoadStart
<1>2. LoadInv /\ [Next]_program_vars => LoadInv'
  BY EachProgram, LoadStep
<1>3. QED BY <1>1, <1>2, PTL DEF Spec

\* An init that fails at any step, and an exit, leave no registration behind.
THEOREM NothingLeftCorrect == Spec => []NothingLeft
BY LoadInvariant, LoadInvIsSafe, PTL

\* No call finds a driver whose module or registration is gone.
THEOREM UseIsSafeCorrect == Spec => []UseIsSafe
BY LoadInvariant, LoadInvIsSafe, PTL

\* The numbers of a request are those of the driver that gets it, for any majors.
THEOREM CommandsAgreeCorrect == Spec => []CommandsAgree
BY LoadInvariant, LoadInvIsSafe, PTL
-----------------------------------------------------------------------------
\* The log rotator

RotatorTypeOK ==
  /\ script \in {"script", "stepa_script"}
  /\ cleanup_policy \in {"keep_newest", "keep_oldest"}
  /\ n_to_keep \in Nat /\ now \in Nat /\ target_dst \in Nat /\ written \in Nat
  /\ rotating \in {"config", "no", "cp", "tar", "compress", "rm_copy", "clean", "rm", "touch"}
  /\ entry \subseteq [at : Nat, kind : {"copy", "tar", "archive"}, lines : SUBSET Nat]
  /\ IsFiniteSet(entry)
  /\ log \subseteq Nat

Archived == LinesOf({e \in entry : e.kind = "archive"})

\* The lines that are in the log, but not since the copy, are where the run has
\* got them to by now; files have no names of the time to come, so that those of
\* this run are the newest.
RotatorInv ==
  /\ RotatorTypeOK
  /\ target_dst <= now /\ \A e \in entry : e.at <= target_dst
  /\ log_exists \/ log = {}
  /\ 1..written \subseteq log \cup late \cup dropped \cup Archived
  /\ rotating = "tar" => log \subseteq since_copy \cup LinesOf(Of("copy"))
  /\ rotating = "compress" => log \subseteq since_copy \cup LinesOf(Of("tar"))
  /\ rotating \in {"rm_copy", "clean", "rm"} => log \subseteq since_copy \cup dropped \cup Archived
  /\ rotating = "rm_copy" => Of("archive") # {}
  /\ rotating \in {"clean", "rm"} =>
       (cleanup_policy = "keep_newest" /\ n_to_keep > 0 => Of("archive") # {})
  /\ rotating = "rm" => Cardinality(Counted) <= n_to_keep

\* A line of some files is a line of one of them.
LEMMA InLinesOf ==
  ASSUME NEW files, NEW x
  PROVE  x \in LinesOf(files) <=> \E e \in files : x \in e.lines
BY DEF LinesOf

\* Archives that are not removed keep their lines.
LEMMA ArchivedGrows ==
  ASSUME \A e \in entry : e.kind = "archive" => e \in entry'
  PROVE  Archived \subseteq Archived'
BY DEF Archived, LinesOf

\* An entry that a run makes has the kind and the lines it is given, and the run's time.
LEMMA EntryType ==
  ASSUME RotatorTypeOK, NEW kind \in {"copy", "tar", "archive"}, NEW lines \in SUBSET Nat
  PROVE  /\ Entry(kind, lines) \in [at : Nat, kind : {"copy", "tar", "archive"}, lines : SUBSET Nat]
         /\ Entry(kind, lines).at = target_dst /\ Entry(kind, lines).kind = kind
         /\ Entry(kind, lines).lines = lines
BY DEF Entry, RotatorTypeOK

\* What files hold are lines, and what else the directory holds is finite.
LEMMA LinesType ==
  ASSUME RotatorTypeOK, NEW files \in SUBSET entry
  PROVE  LinesOf(files) \in SUBSET Nat /\ IsFiniteSet(entry \ files)
BY FS_Subset DEF RotatorTypeOK, LinesOf

\* Lines that are logged, and seconds that pass, during any step of a run.
LEMMA WorldKeepsRotator ==
  RotatorInv /\ (Configure \/ LogLine \/ Tick \/ UNCHANGED rotator_vars) => RotatorInv'
<1> SUFFICES ASSUME RotatorInv, Configure \/ LogLine \/ Tick \/ UNCHANGED rotator_vars
             PROVE  RotatorInv'
  OBVIOUS
<1>0. RotatorTypeOK
  BY DEF RotatorInv
<1>1. CASE Configure
  <2>1. rotating' = "no" /\ n_to_keep' \in Nat /\ script' \in {"script", "stepa_script"}
        /\ cleanup_policy' \in {"keep_newest", "keep_oldest"}
        /\ UNCHANGED <<now, target_dst, entry, log, log_exists, written, late, dropped>>
    BY <1>1, RotatorAssumption DEF Configure, history
  <2>2. RotatorTypeOK'
    BY <1>0, <2>1 DEF RotatorTypeOK
  <2>3. QED BY <2>1, <2>2 DEF RotatorInv, Archived
<1>2. CASE LogLine
  <2>1. /\ written' = written + 1 /\ log' = log \cup {written + 1} /\ log_exists'
        /\ since_copy' = since_copy \cup {written + 1}
        /\ UNCHANGED <<script, cleanup_policy, n_to_keep, rotating, now, target_dst, entry,
                       late, dropped>>
    BY <1>2 DEF LogLine, config
  <2>2. RotatorTypeOK'
    BY <1>0, <2>1 DEF RotatorTypeOK
  <2>3. 1..written' = (1..written) \cup {written + 1}
    BY <1>0, <2>1 DEF RotatorTypeOK
  <2>4. 1..written' \subseteq log' \cup late' \cup dropped' \cup Archived'
    BY <2>1, <2>3 DEF RotatorInv, Archived
  <2>5. QED BY <2>1, <2>2, <2>4 DEF RotatorInv, Of, Archived, Counted
<1>3. CASE Tick
  <2>1. /\ now' = now + 1
        /\ UNCHANGED <<script, cleanup_policy, n_to_keep, rotating, target_dst, entry, log,
                       log_exists, written, since_copy, late, dropped>>
    BY <1>3 DEF Tick, config, history
  <2>2. RotatorTypeOK' /\ target_dst' <= now'
    BY <1>0, <2>1 DEF RotatorTypeOK, RotatorInv
  <2>3. QED BY <2>1, <2>2 DEF RotatorInv, Of, Archived, Counted
<1>4. CASE UNCHANGED rotator_vars
  BY <1>4 DEF rotator_vars, RotatorInv, RotatorTypeOK, Of, Archived, Counted
<1>5. QED BY <1>1, <1>2, <1>3, <1>4

\* The steps that make the archive.
LEMMA ArchivingKeepsRotator ==
  RotatorInv /\ (Start \/ Copy \/ Tar \/ Compress) => RotatorInv'
<1> SUFFICES ASSUME RotatorInv, Start \/ Copy \/ Tar \/ Compress PROVE RotatorInv'
  OBVIOUS
<1>0. RotatorTypeOK
  BY DEF RotatorInv
<1>1. CASE Start
  <2>1. /\ rotating' = "cp" /\ target_dst' = now
        /\ entry' \subseteq entry \cup {[at |-> now, kind |-> "copy", lines |-> {}]}
        /\ entry \subseteq entry'
        /\ UNCHANGED <<script, cleanup_policy, n_to_keep, now, log, log_exists, written,
                       since_copy, late, dropped>>
    BY <1>1 DEF Start, config, history
  <2>2. IsFiniteSet(entry')
    BY <1>0, <1>1, FS_AddElement DEF Start, RotatorTypeOK
  <2>3. RotatorTypeOK'
    BY <1>0, <2>1, <2>2 DEF RotatorTypeOK
  <2>4. \A e \in entry' : e.at <= now
    BY <1>0, <2>1 DEF RotatorInv, RotatorTypeOK
  <2>5. Archived \subseteq Archived'
    BY <2>1, ArchivedGrows
  <2>6. QED BY <1>0, <2>1, <2>3, <2>4, <2>5 DEF RotatorInv, RotatorTypeOK
<1>2. CASE Copy
  <2>1. /\ rotating' = "tar" /\ since_copy' = {}
        /\ UNCHANGED <<script, cleanup_policy, n_to_keep, now, target_dst, log, log_exists,
                       written, late, dropped>>
    BY <1>2 DEF Copy, StepTo, config
  <2>2. CASE log_exists
    <3> DEFINE new == Entry("copy", log)
    <3>1. entry' = (entry \ Of("copy")) \cup {new}
      BY <1>2, <2>2 DEF Copy
    <3>2. /\ new \in [at : Nat, kind : {"copy", "tar", "archive"}, lines : SUBSET Nat]
          /\ new.at = target_dst /\ new.kind = "copy" /\ new.lines = log
      BY <1>0, EntryType DEF RotatorTypeOK
    <3> HIDE DEF new
    <3>3. IsFiniteSet(entry')
      BY <1>0, <3>1, LinesType, FS_AddElement DEF Of
    <3>4. RotatorTypeOK' /\ \A e \in entry' : e.at <= target_dst'
      BY <1>0, <2>1, <3>1, <3>2, <3>3 DEF RotatorTypeOK, RotatorInv
    <3>5. new \in Of("copy")'
      BY <2>1, <3>1, <3>2 DEF Of
    <3>6. log \subseteq LinesOf(Of("copy"))'
      BY <3>2, <3>5, InLinesOf DEF LinesOf
    <3>7. Archived \subseteq Archived'
      BY <3>1, ArchivedGrows DEF Of
    <3>8. QED BY <2>1, <3>4, <3>6, <3>7 DEF RotatorInv
  <2>3. CASE ~ log_exists
    <3>1. entry' = entry /\ log = {}
      BY <1>2, <2>3 DEF Copy, RotatorInv
    <3>2. RotatorTypeOK'
      BY <1>0, <2>1, <3>1 DEF RotatorTypeOK
    <3>3. QED BY <2>1, <3>1, <3>2 DEF RotatorInv, Archived
  <2>4. QED BY <2>2, <2>3
<1>3. CASE Tar
  <2> DEFINE new == Entry("tar", LinesOf(Of("copy")))
  <2>1. /\ rotating = "tar" /\ rotating' = "compress" /\ entry' = (entry \ Of("tar")) \cup {new}
        /\ UNCHANGED <<script, cleanup_policy, n_to_keep, now, target_dst, log, log_exists,
                       written, since_copy, late, dropped>>
    BY <1>3 DEF Tar, StepTo, config, history
  <2>2. LinesOf(Of("copy")) \in SUBSET Nat
    BY <1>0, LinesType DEF Of
  <2>3. /\ new \in [at : Nat, kind : {"copy", "tar", "archive"}, lines : SUBSET Nat]
        /\ new.at = target_dst /\ new.kind = "tar" /\ new.lines = LinesOf(Of("copy"))
    BY <1>0, <2>2, EntryType
  <2> HIDE DEF new
  <2>4. IsFiniteSet(entry')
    BY <1>0, <2>1, LinesType, FS_AddElement DEF Of
  <2>5. RotatorTypeOK' /\ \A e \in entry' : e.at <= target_dst'
    BY <1>0, <2>1, <2>3, <2>4 DEF RotatorTypeOK, RotatorInv
  <2>6. new \in Of("tar")'
    BY <2>1, <2>3 DEF Of
  <2>7. LinesOf(Of("copy")) \subseteq LinesOf(Of("tar"))'
    BY <2>3, <2>6 DEF LinesOf
  <2>8. Archived \subseteq Archived'
    BY <2>1, ArchivedGrows DEF Of
  <2>9. QED BY <2>1, <2>5, <2>7, <2>8 DEF RotatorInv
<1>4. CASE Compress
  <2> DEFINE new == Entry("archive", LinesOf(Of("tar")))
  <2>1. /\ rotating = "compress" /\ rotating' = "rm_copy"
        /\ entry' = (entry \ Of("tar")) \cup {new}
        /\ UNCHANGED <<script, cleanup_policy, n_to_keep, now, target_dst, log, log_exists,
                       written, since_copy, late, dropped>>
    BY <1>4 DEF Compress, MayCompress, StepTo, config, history
  <2>2. LinesOf(Of("tar")) \in SUBSET Nat
    BY <1>0, LinesType DEF Of
  <2>3. /\ new \in [at : Nat, kind : {"copy", "tar", "archive"}, lines : SUBSET Nat]
        /\ new.at = target_dst /\ new.kind = "archive" /\ new.lines = LinesOf(Of("tar"))
    BY <1>0, <2>2, EntryType
  <2> HIDE DEF new
  <2>4. IsFiniteSet(entry')
    BY <1>0, <2>1, LinesType, FS_AddElement DEF Of
  <2>5. RotatorTypeOK' /\ \A e \in entry' : e.at <= target_dst'
    BY <1>0, <2>1, <2>3, <2>4 DEF RotatorTypeOK, RotatorInv
  <2>6. new \in Of("archive")' /\ new \in entry'
    BY <2>1, <2>3 DEF Of
  <2>7. LinesOf(Of("tar")) \subseteq Archived'
    BY <2>3, <2>6 DEF LinesOf, Archived
  <2>8. Archived \subseteq Archived'
    BY <2>1, ArchivedGrows DEF Of
  <2>9. QED BY <2>1, <2>5, <2>6, <2>7, <2>8 DEF RotatorInv
<1>5. QED BY <1>1, <1>2, <1>3, <1>4

\* When the newest are kept, a run does not remove the archive it has just made:
\* it would have to be the only file left, and that is not too many.
LEMMA OwnArchiveStays ==
  ASSUME RotatorInv, rotating = "clean", Cardinality(Counted) > n_to_keep,
         NEW e \in Counted, \A f \in Counted \ {e} : Before(e, f),
         cleanup_policy = "keep_newest", n_to_keep > 0
  PROVE  e \notin Of("archive")
<1> SUFFICES ASSUME e \in Of("archive") PROVE FALSE
  OBVIOUS
<1>0. RotatorTypeOK
  BY DEF RotatorInv
<1>1. Counted \subseteq entry
  BY DEF Counted
<1>2. \A f \in entry : Rank(f) \in Nat /\ Rank(f) <= 3 * target_dst + 2
  BY <1>0 DEF Rank, RotatorInv, RotatorTypeOK
<1>3. Rank(e) = 3 * target_dst + 2
  BY DEF Rank, Of
<1>4. Counted = {e}
  BY <1>0, <1>1, <1>2, <1>3 DEF Before, RotatorTypeOK
<1>5. Cardinality(Counted) = 1
  BY <1>4, FS_Singleton
<1>6. QED BY <1>0, <1>5 DEF RotatorTypeOK

\* The steps that clean up and empty the log.
LEMMA CleaningKeepsRotator ==
  RotatorInv /\ (RemoveCopy \/ Clean \/ RemoveLog \/ Touch \/ Stop) => RotatorInv'
<1> SUFFICES ASSUME RotatorInv, RemoveCopy \/ Clean \/ RemoveLog \/ Touch \/ Stop
             PROVE  RotatorInv'
  OBVIOUS
<1>0. RotatorTypeOK
  BY DEF RotatorInv
<1>1. CASE RemoveCopy
  <2>1. /\ rotating = "rm_copy" /\ rotating' = "clean" /\ entry' \subseteq entry
        /\ \A e \in entry : e.kind = "archive" => e \in entry'
        /\ UNCHANGED <<script, cleanup_policy, n_to_keep, now, target_dst, log, log_exists,
                       written, since_copy, late, dropped>>
    BY <1>1 DEF RemoveCopy, StepTo, config, history, Of
  <2>2. IsFiniteSet(entry')
    BY <1>0, <2>1, FS_Subset DEF RotatorTypeOK
  <2>3. RotatorTypeOK'
    BY <1>0, <2>1, <2>2 DEF RotatorTypeOK
  <2>4. Archived \subseteq Archived'
    BY <2>1, ArchivedGrows
  <2>5. Of("archive") \subseteq Of("archive")'
    BY <2>1 DEF Of
  <2>6. QED BY <2>1, <2>3, <2>4, <2>5 DEF RotatorInv
<1>2. CASE Clean
  <2>1. CASE Cardinality(Counted) > n_to_keep
    <3>1. PICK e \in Counted : /\ \A f \in Counted \ {e} : Before(e, f)
                               /\ entry' = entry \ {e} /\ dropped' = dropped \cup e.lines
                               /\ UNCHANGED <<config, rotating, now, target_dst>>
      BY <1>2, <2>1 DEF Clean
    <3>2. rotating = "clean" /\ UNCHANGED <<script, cleanup_policy, n_to_keep, log, log_exists,
                                            written, since_copy, late>>
      BY <1>2, <3>1 DEF Clean, config
    <3>3. IsFiniteSet(entry')
      BY <1>0, <3>1, FS_Subset DEF RotatorTypeOK
    <3>4. RotatorTypeOK'
      BY <1>0, <3>1, <3>2, <3>3 DEF RotatorTypeOK
    <3>5. Archived \subseteq Archived' \cup dropped'
      BY <3>1 DEF Archived, LinesOf
    <3>6. cleanup_policy = "keep_newest" /\ n_to_keep > 0 => Of("archive")' # {}
      BY <2>1, <3>1, <3>2, OwnArchiveStays DEF RotatorInv, Of
    <3>7. QED BY <3>1, <3>2, <3>4, <3>5, <3>6 DEF RotatorInv
  <2>2. CASE ~ (Cardinality(Counted) > n_to_keep)
    <3>1. /\ rotating = "clean" /\ rotating' = "rm"
          /\ UNCHANGED <<script, cleanup_policy, n_to_keep, now, target_dst, entry, log,
                         log_exists, written, since_copy, late, dropped>>
      BY <1>2, <2>2 DEF Clean, StepTo, config
    <3>2. RotatorTypeOK'
      BY <1>0, <3>1 DEF RotatorTypeOK
    <3>3. Cardinality(Counted) \in Nat
      BY <1>0, FS_Subset, FS_CardinalityType DEF Counted, RotatorTypeOK
    <3>4. Cardinality(Counted) <= n_to_keep
      BY <1>0, <2>2, <3>3 DEF RotatorTypeOK
    <3>5. QED BY <3>1, <3>2, <3>4 DEF RotatorInv, Of, Archived, Counted
  <2>3. QED BY <2>1, <2>2
<1>3. CASE RemoveLog
  <2>1. /\ rotating = "rm" /\ rotating' \in {"touch", "no"} /\ log' = {}
        /\ late' = late \cup since_copy
        /\ UNCHANGED <<script, cleanup_policy, n_to_keep, now, target_dst, entry, written,
                       since_copy, dropped>>
    BY <1>3 DEF RemoveLog, StepTo, config
  <2>2. RotatorTypeOK'
    BY <1>0, <2>1 DEF RotatorTypeOK
  <2>3. QED BY <2>1, <2>2 DEF RotatorInv, Archived
<1>4. CASE Touch
  <2>1. /\ rotating' = "no" /\ log_exists'
        /\ UNCHANGED <<script, cleanup_policy, n_to_keep, now, target_dst, entry, log,
                       written, since_copy, late, dropped>>
    BY <1>4 DEF Touch, StepTo, config, history
  <2>2. RotatorTypeOK'
    BY <1>0, <2>1 DEF RotatorTypeOK
  <2>3. QED BY <2>1, <2>2 DEF RotatorInv, Archived
<1>5. CASE Stop
  <2>1. /\ rotating' = "no"
        /\ UNCHANGED <<script, cleanup_policy, n_to_keep, now, target_dst, log, log_exists,
                       written, since_copy, late, dropped>>
    BY <1>5 DEF Stop, StepTo, config, history
  <2>2. CASE UNCHANGED entry
    <3>1. RotatorTypeOK'
      BY <1>0, <2>1, <2>2 DEF RotatorTypeOK
    <3>2. QED BY <2>1, <2>2, <3>1 DEF RotatorInv, Archived
  <2>3. CASE entry' = (entry \ Of("tar")) \cup {Entry("tar", {})}
    <3> DEFINE new == Entry("tar", {})
    <3>1. /\ new \in [at : Nat, kind : {"copy", "tar", "archive"}, lines : SUBSET Nat]
          /\ new.at = target_dst
      BY <1>0, EntryType
    <3>2. entry' = (entry \ Of("tar")) \cup {new}
      BY <2>3
    <3> HIDE DEF new
    <3>3. IsFiniteSet(entry')
      BY <1>0, <3>2, LinesType, FS_AddElement DEF Of
    <3>4. RotatorTypeOK' /\ \A e \in entry' : e.at <= target_dst'
      BY <1>0, <2>1, <3>1, <3>2, <3>3 DEF RotatorTypeOK, RotatorInv
    <3>5. Archived \subseteq Archived'
      BY <3>2, ArchivedGrows DEF Of
    <3>6. QED BY <2>1, <3>4, <3>5 DEF RotatorInv
  <2>4. QED BY <1>5, <2>2, <2>3 DEF Stop
<1>6. QED BY <1>1, <1>2, <1>3, <1>4, <1>5

\* Before the first run there is no line and no file.
LEMMA RotatorStart == RotatorInit => RotatorInv
<1> SUFFICES ASSUME RotatorInit PROVE RotatorInv
  OBVIOUS
<1>1. RotatorTypeOK
  BY FS_EmptySet DEF RotatorInit, RotatorTypeOK
<1>2. QED BY <1>1 DEF RotatorInit, RotatorInv

\* Any number of runs of either script, for any policy and number of archives, each
\* ended at any step, while lines are logged: no line is lost but by the policy or
\* because it came between the copy and the emptying.
THEOREM LinesAreKeptCorrect == Spec => []LinesAreKept
<1>1. Init => RotatorInv
  BY EachInit, RotatorStart
<1>2. RotatorInv /\ [Next]_program_vars => RotatorInv'
  BY EachProgram, WorldKeepsRotator, ArchivingKeepsRotator, CleaningKeepsRotator
     DEF RotatorNext
<1>3. RotatorInv => LinesAreKept
  BY DEF RotatorInv, LinesAreKept, Archived
<1>4. QED BY <1>1, <1>2, <1>3, PTL DEF Spec
-----------------------------------------------------------------------------
\* The byte sorter

\* A byte as a number, larger when it is to come later; and the buffer in such numbers.
Weight(x) == IF order = "ascending" THEN Char(x) ELSE 0 - Char(x)
Weights == [k \in DOMAIN arr |-> Weight(arr[k])]

\* Of numbers r: no child is above its node, from node lo on, among the first hi;
\* the same but for one node, which heapify is to sink; and from index lo on, nothing
\* is below anything before it.
IsChild(k, c) == c = 2 * k + 1 \/ c = 2 * k + 2
HeapFrom(r, lo, hi) == \A k, c \in 0..(hi - 1) : lo <= k /\ IsChild(k, c) => r[c] <= r[k]
HeapBut(r, lo, hi, hole) ==
  \A k, c \in 0..(hi - 1) : lo <= k /\ IsChild(k, c) =>
    /\ k # hole => r[c] <= r[k]
    /\ c = hole => \A d \in 0..(hi - 1) : IsChild(c, d) => r[d] <= r[k]
SortedFrom(r, lo, hi) == \A k \in lo..(hi - 1) : \A j \in 0..k : r[j] <= r[k]

\* The variables of the sorter have their types, and the bytes fit their buffer.
SortTypeOK ==
  /\ sort_pc \in {"start", "read", "build", "extract", "heapify", "write", "done"}
  /\ order \in {"ascending", "descending"} /\ same_path \in BOOLEAN
  /\ content \in Seq(Byte) /\ unread \in Seq(Byte)
  /\ capacity \in Nat \ {0} /\ length \in Nat /\ length <= capacity
  /\ arr \in [0..(length - 1) -> Byte]
  /\ i \in Int /\ node \in Nat /\ n \in Nat /\ back \in {"build", "extract"}

\* The buffer holds what was read, in its order, and then the same bytes as often.
FilledInv ==
  /\ sort_pc = "start" => length = 0
  /\ sort_pc = "read" =>
       IF same_path THEN unread = <<>> /\ length = 0
       ELSE /\ length <= Len(content) /\ unread = SubSeq(content, length + 1, Len(content))
            /\ \A k \in 0..(length - 1) : arr[k] = content[k + 1]
  /\ sort_pc \notin {"start", "read"} =>
       IF same_path THEN length = 0 ELSE \A b \in Byte : Count(b, arr) = Count(b, content)

\* The heap grows to its root, and then gives way to the sorted end of the buffer.
HeapInv ==
  /\ sort_pc = "build" => i \in -1..(length - 1) /\ HeapFrom(Weights, i + 1, length)
  /\ sort_pc = "extract" => /\ i \in -1..(length - 1)
                            /\ HeapFrom(Weights, 0, i + 1) /\ SortedFrom(Weights, i + 1, length)
  /\ sort_pc = "heapify" =>
       /\ i \in -1..(length - 2) /\ node \in 0..(length - 1)
       /\ back = "build" => n = length /\ i < node /\ HeapBut(Weights, i + 1, n, node)
       /\ back = "extract" => /\ n = i + 1 /\ (node < n \/ n = 0)
                              /\ HeapBut(Weights, 0, n, node) /\ SortedFrom(Weights, n, length)
  /\ sort_pc \in {"write", "done"} => SortedFrom(Weights, 0, length)
  /\ sort_pc = "done" => output = arr

SortInv == SortTypeOK /\ FilledInv /\ HeapInv

\* A set of naturals with an element has a least one.
LEMMA LeastOfNaturals ==
  ASSUME NEW S, S \subseteq Nat, S # {}
  PROVE  \E x \in S : \A y \in S : x <= y
<1> DEFINE R == {ss \in Nat \X Nat : ss[1] < ss[2]}
<1>1. IsWellFoundedOn(R, Nat)
  BY NatLessThanWellFounded DEF OpToRel
<1> HIDE DEF R
<1>2. PICK x \in S : \A y \in S : ~(<<y, x>> \in R)
  BY <1>1, WFMin
<1>3. \A y \in S : ~(y < x)
  BY <1>2 DEF R
<1>4. QED BY <1>3

\* Every node but the root is the child of an earlier one.
LEMMA ParentOf ==
  ASSUME NEW x \in Nat, x # 0
  PROVE  /\ (x - 1) \div 2 \in 0..(x - 1)
         /\ IsChild((x - 1) \div 2, x)
BY DEF IsChild

\* Nothing in a heap is above its root: take the first node that is.
LEMMA RootIsLargest ==
  ASSUME NEW r, NEW hi \in Nat, \A k \in 0..(hi - 1) : r[k] \in Int,
         HeapFrom(r, 0, hi)
  PROVE  \A k \in 0..(hi - 1) : r[k] <= r[0]
<1> DEFINE S == {k \in 0..(hi - 1) : ~ (r[k] <= r[0])}
<1> SUFFICES ASSUME S # {} PROVE FALSE
  OBVIOUS
<1>1. S \subseteq Nat
  OBVIOUS
<1>2. PICK x \in S : \A y \in S : x <= y
  BY <1>1, LeastOfNaturals
<1>3. x \in 0..(hi - 1) /\ x # 0 /\ ~ (r[x] <= r[0])
  BY <1>2
<1> DEFINE p == (x - 1) \div 2
<1>4. p \in 0..(x - 1) /\ IsChild(p, x)
  BY <1>3, ParentOf
<1> HIDE DEF p
<1>5. p \in 0..(hi - 1) /\ p < x /\ 0 <= p
  BY <1>3, <1>4
<1>6. r[x] <= r[p]
  BY <1>3, <1>4, <1>5 DEF HeapFrom
<1>7. p \notin S
  BY <1>2, <1>3, <1>5
<1>8. r[p] <= r[0]
  BY <1>5, <1>7
<1>9. r[0] \in Int /\ r[p] \in Int /\ r[x] \in Int
  BY <1>3, <1>5
<1>10. QED BY <1>3, <1>6, <1>8, <1>9

\* Nodes j and k of r have changed places in q.
Exchanged(r, q, j, k, m) ==
  \A x \in 0..(m - 1) : q[x] = IF x = j THEN r[k] ELSE IF x = k THEN r[j] ELSE r[x]

\* heapify sinks its node by one level: its larger child takes its place.
LEMMA SiftDown ==
  ASSUME NEW m \in Nat, NEW r, \A k \in 0..(m - 1) : r[k] \in Int, NEW q,
         NEW lo \in Nat, NEW hi \in 0..m, NEW hole \in lo..(hi - 1),
         NEW j \in 0..(hi - 1), IsChild(hole, j),
         \A c \in 0..(hi - 1) : IsChild(hole, c) => r[c] <= r[j],
         r[hole] <= r[j], HeapBut(r, lo, hi, hole), Exchanged(r, q, hole, j, m)
  PROVE  HeapBut(q, lo, hi, j)
<1>1. hole < j /\ hole \in 0..(hi - 1)
  BY DEF IsChild
<1>2. \A x \in 0..(hi - 1) :
        q[x] = IF x = hole THEN r[j] ELSE IF x = j THEN r[hole] ELSE r[x]
  BY DEF Exchanged
<1>3. ASSUME NEW k \in 0..(hi - 1), NEW c \in 0..(hi - 1), lo <= k, IsChild(k, c), k # j
      PROVE  q[c] <= q[k]
  <2>1. CASE k = hole
    BY <1>1, <1>2, <1>3, <2>1
  <2>2. CASE k # hole /\ c = hole
    <3>1. r[j] <= r[k]
      BY <1>3, <2>2 DEF HeapBut
    <3>2. QED BY <1>2, <1>3, <2>2, <3>1
  <2>3. CASE k # hole /\ c # hole
    <3>1. c # j
      BY <1>1, <1>3, <2>3 DEF IsChild
    <3>2. r[c] <= r[k]
      BY <1>3, <2>3 DEF HeapBut
    <3>3. QED BY <1>2, <1>3, <2>3, <3>1, <3>2
  <2>4. QED BY <2>1, <2>2, <2>3
<1>4. ASSUME NEW k \in 0..(hi - 1), lo <= k, IsChild(k, j),
             NEW d \in 0..(hi - 1), IsChild(j, d)
      PROVE  q[d] <= q[k]
  <2>1. k = hole /\ d # hole /\ d # j /\ lo <= j
    BY <1>1, <1>4 DEF IsChild
  <2>2. r[d] <= r[j]
    BY <1>1, <1>4, <2>1 DEF HeapBut
  <2>3. QED BY <1>1, <1>2, <1>4, <2>1, <2>2
<1>5. QED BY <1>3, <1>4 DEF HeapBut

\* heapify is done when no child is above its node.
LEMMA Sunk ==
  ASSUME NEW r, NEW lo, NEW hi, NEW hole, HeapBut(r, lo, hi, hole),
         \A c \in 0..(hi - 1) : IsChild(hole, c) => r[c] <= r[hole]
  PROVE  HeapFrom(r, lo, hi)
BY DEF HeapBut, HeapFrom

\* The sorted end of the buffer stays sorted when two bytes before it change places.
LEMMA ExchangeBelow ==
  ASSUME NEW m \in Nat, NEW r, NEW q, NEW lo \in 0..m, SortedFrom(r, lo, m),
         NEW j \in 0..(lo - 1), NEW k \in 0..(lo - 1), Exchanged(r, q, j, k, m)
  PROVE  SortedFrom(q, lo, m)
<1> SUFFICES ASSUME NEW x \in lo..(m - 1), NEW y \in 0..x PROVE q[y] <= q[x]
  BY DEF SortedFrom
<1>1. q[x] = r[x]
  BY DEF Exchanged
<1>2. PICK z \in 0..x : q[y] = r[z]
  <2>1. q[y] = r[k] \/ q[y] = r[j] \/ q[y] = r[y]
    BY DEF Exchanged
  <2>2. QED BY <2>1
<1>3. r[z] <= r[x]
  BY DEF SortedFrom
<1>4. QED BY <1>1, <1>2, <1>3

\* The root of the heap goes behind it, and the last leaf to the root.
LEMMA RootGoesLast ==
  ASSUME NEW m \in Nat, NEW r, \A k \in 0..(m - 1) : r[k] \in Int, NEW q,
         NEW last \in 0..(m - 1), HeapFrom(r, 0, last + 1), SortedFrom(r, last + 1, m),
         Exchanged(r, q, 0, last, m)
  PROVE  HeapBut(q, 0, last, 0) /\ SortedFrom(q, last, m)
<1>1. \A x \in 0..last : r[x] <= r[0]
  <2>1. last + 1 \in Nat /\ (last + 1) - 1 = last /\ \A k \in 0..last : r[k] \in Int
    OBVIOUS
  <2>2. QED BY <2>1, RootIsLargest
<1>2. HeapBut(q, 0, last, 0)
  <2> SUFFICES ASSUME NEW k \in 0..(last - 1), NEW c \in 0..(last - 1), IsChild(k, c)
               PROVE  /\ k # 0 => q[c] <= q[k]
                      /\ c # 0
    BY DEF HeapBut
  <2>1. c # 0 /\ c # last /\ k # last
    BY DEF IsChild
  <2>2. r[c] <= r[k]
    BY DEF HeapFrom
  <2>3. QED BY <2>1, <2>2 DEF Exchanged
<1>3. SortedFrom(q, last, m)
  <2> SUFFICES ASSUME NEW x \in last..(m - 1), NEW y \in 0..x PROVE q[y] <= q[x]
    BY DEF SortedFrom
  <2>1. PICK z \in 0..x : q[y] = r[z]
    <3>1. q[y] = r[0] \/ q[y] = r[last] \/ q[y] = r[y]
      BY DEF Exchanged
    <3>2. QED BY <3>1
  <2>2. CASE x = last
    <3>1. q[x] = r[0]
      BY <2>2 DEF Exchanged
    <3>2. QED BY <1>1, <2>1, <2>2, <3>1
  <2>3. CASE x # last
    <3>1. q[x] = r[x]
      BY <2>3 DEF Exchanged
    <3>2. r[z] <= r[x]
      BY <2>3 DEF SortedFrom
    <3>3. QED BY <2>1, <3>1, <3>2
  <2>4. QED BY <2>2, <2>3
<1>4. QED BY <1>2, <1>3

\* Two bytes that change places change no count.
LEMMA SwapCount ==
  ASSUME NEW m \in Nat, NEW r, DOMAIN r = 0..(m - 1), NEW j \in 0..(m - 1),
         NEW k \in 0..(m - 1), NEW b
  PROVE  Count(b, Swapped(r, j, k)) = Count(b, r)
<1> DEFINE q == Swapped(r, j, k)
           S == {x \in DOMAIN r : r[x] = b}
           T == {x \in DOMAIN q : q[x] = b}
           f == [x \in S |-> IF x = j THEN k ELSE IF x = k THEN j ELSE x]
<1>1. DOMAIN q = DOMAIN r
  BY DEF Swapped
<1>2. \A x \in 0..(m - 1) : q[x] = IF x = k THEN r[j] ELSE IF x = j THEN r[k] ELSE r[x]
  BY DEF Swapped
<1>3. IsFiniteSet(S)
  <2>1. IsFiniteSet(0..(m - 1))
    BY FS_Interval
  <2>2. QED BY <2>1, FS_Subset
<1> HIDE DEF q
<1>4. f \in [S -> T]
  BY <1>1, <1>2
<1>5. \A x, y \in S : f[x] = f[y] => x = y
  OBVIOUS
<1>6. \A y \in T : \E x \in S : f[x] = y
  <2> SUFFICES ASSUME NEW y \in T PROVE \E x \in S : f[x] = y
    OBVIOUS
  <2> DEFINE x == IF y = j THEN k ELSE IF y = k THEN j ELSE y
  <2>1. x \in S
    BY <1>1, <1>2
  <2>2. f[x] = y
    BY <2>1
  <2>3. QED BY <2>1, <2>2
<1> HIDE DEF S, T, f
<1>7. f \in Bijection(S, T)
  BY <1>4, <1>5, <1>6 DEF Bijection, Injection, Surjection, IsInjective
<1>8. Cardinality(T) = Cardinality(S)
  BY <1>3, <1>7, FS_Bijection DEF ExistsBijection
<1>9. QED BY <1>8 DEF Count, S, T, q

\* A buffer that holds a text byte by byte holds each byte as often.
LEMMA ReadCount ==
  ASSUME NEW s \in Seq(Byte), NEW r, DOMAIN r = 0..(Len(s) - 1),
         \A k \in 0..(Len(s) - 1) : r[k] = s[k + 1], NEW b
  PROVE  Count(b, r) = Count(b, s)
<1> DEFINE S == {x \in DOMAIN r : r[x] = b}
           T == {x \in DOMAIN s : s[x] = b}
           f == [x \in S |-> x + 1]
<1>1. DOMAIN s = 1..Len(s) /\ Len(s) \in Nat
  OBVIOUS
<1>2. IsFiniteSet(S)
  <2>1. IsFiniteSet(0..(Len(s) - 1))
    BY <1>1, FS_Interval
  <2>2. QED BY <2>1, FS_Subset
<1>3. f \in [S -> T]
  BY <1>1
<1>4. \A x, y \in S : f[x] = f[y] => x = y
  BY <1>1
<1>5. \A y \in T : \E x \in S : f[x] = y
  <2> SUFFICES ASSUME NEW y \in T PROVE \E x \in S : f[x] = y
    OBVIOUS
  <2>1. y - 1 \in S /\ (y - 1) + 1 = y
    BY <1>1
  <2>2. QED BY <2>1
<1> HIDE DEF S, T, f
<1>6. f \in Bijection(S, T)
  BY <1>3, <1>4, <1>5 DEF Bijection, Injection, Surjection, IsInjective
<1>7. Cardinality(T) = Cardinality(S)
  BY <1>2, <1>6, FS_Bijection DEF ExistsBijection
<1>8. QED BY <1>7 DEF Count, S, T

\* The length of the buffer, from its domain.
LEMMA LengthOf ==
  ASSUME NEW m \in Nat, DOMAIN arr = 0..(m - 1)
  PROVE  length = m
<1>1. Cardinality(0..(m - 1)) = m
  BY FS_Interval
<1>2. QED BY <1>1 DEF length

\* The same in the next state.
LEMMA NextLengthOf ==
  ASSUME NEW m \in Nat, DOMAIN arr' = 0..(m - 1)
  PROVE  length' = m
<1>1. Cardinality(0..(m - 1)) = m
  BY FS_Interval
<1>2. QED BY <1>1 DEF length

\* The weight of a byte orders it as the comparison asked for does.
LEMMA LessIsWeight ==
  ASSUME NEW x \in Byte, NEW y \in Byte
  PROVE  /\ Weight(x) \in Int
         /\ Less(x, y) <=> Weight(x) < Weight(y)
BY DEF Less, Weight, Char, Byte

\* What a swap does to the buffer and to its weights.
LEMMA SwapOf ==
  ASSUME SortTypeOK, NEW j \in 0..(length - 1), NEW k \in 0..(length - 1),
         arr' = Swapped(arr, j, k), order' = order
  PROVE  /\ arr' \in [0..(length - 1) -> Byte] /\ length' = length
         /\ \A x \in 0..(length - 1) : Weights[x] \in Int
         /\ Exchanged(Weights, Weights', j, k, length)
         /\ \A b : Count(b, arr') = Count(b, arr)
<1>1. length \in Nat /\ arr \in [0..(length - 1) -> Byte]
  BY DEF SortTypeOK
<1> DEFINE m == length
<1>2. m \in Nat /\ arr \in [0..(m - 1) -> Byte] /\ j \in 0..(m - 1) /\ k \in 0..(m - 1)
  BY <1>1
<1> HIDE DEF m
<1>3. arr' \in [0..(m - 1) -> Byte]
  BY <1>2 DEF Swapped
<1>4. length' = m
  BY <1>2, <1>3, NextLengthOf
<1>5. \A x \in 0..(m - 1) : Weights[x] = Weight(arr[x]) /\ Weights'[x] = Weight(arr'[x])
  BY <1>2, <1>3 DEF Weights, Weight
<1>6. \A x \in 0..(m - 1) : Weights[x] \in Int
  BY <1>2, <1>5, LessIsWeight
<1>7. \A x \in 0..(m - 1) :
        arr'[x] = IF x = j THEN arr[k] ELSE IF x = k THEN arr[j] ELSE arr[x]
  BY <1>2 DEF Swapped
<1>8. Exchanged(Weights, Weights', j, k, m)
  BY <1>2, <1>5, <1>7 DEF Exchanged
<1>9. \A b : Count(b, arr') = Count(b, arr)
  BY <1>2, SwapCount
<1>10. QED BY <1>3, <1>4, <1>6, <1>8, <1>9 DEF m

\* The buffer stays, and with it all that is said of its bytes.
LEMMA SameBuffer ==
  ASSUME arr' = arr, order' = order
  PROVE  length' = length /\ Weights' = Weights
BY DEF length, Weights, Weight

\* main opens the files: nothing is read yet, and of one file nothing is left.
LEMMA OpenKeeps == SortInv /\ Open => SortInv'
<1> SUFFICES ASSUME SortInv, Open PROVE SortInv'
  OBVIOUS
<1> USE DEF SortInv, Open
<1>1. length' = length
  BY DEF length
<1>2. length = 0
  BY DEF FilledInv
<1>3. content' \in Seq(Byte)
  BY SorterAssumption
<1>4. unread' \in Seq(Byte)
  BY <1>3
<1>5. SortTypeOK'
  <2>1. arr' \in [0..(length' - 1) -> Byte]
    BY <1>1 DEF SortTypeOK
  <2>2. QED BY <1>1, <1>3, <1>4, <2>1 DEF SortTypeOK
<1>6. ~same_path' => unread' = SubSeq(content', 0 + 1, Len(content')) /\ 0 <= Len(content')
  BY <1>3
<1>7. FilledInv'
  BY <1>1, <1>2, <1>6 DEF FilledInv
<1>8. HeapInv'
  BY DEF HeapInv
<1>9. QED BY <1>5, <1>7, <1>8

\* A byte is stored behind the others; the buffer has grown if it was full.
LEMMA ReadByteKeeps == SortInv /\ ReadByte => SortInv'
<1> SUFFICES ASSUME SortInv, ReadByte PROVE SortInv'
  OBVIOUS
<1> DEFINE m == length
<1>1. /\ m \in Nat /\ capacity \in Nat \ {0} /\ m <= capacity
      /\ arr \in [0..(m - 1) -> Byte]
      /\ content \in Seq(Byte) /\ unread \in Seq(Byte) /\ unread # <<>>
  BY DEF SortInv, SortTypeOK, ReadByte
<1>2. capacity' \in Nat \ {0} /\ m < capacity'
  BY <1>1 DEF ReadByte, Grown
<1>3. /\ arr' = [k \in 0..m |-> IF k = m THEN Head(unread) ELSE arr[k]]
      /\ sort_pc' = sort_pc /\ sort_pc = "read" /\ unread' = Tail(unread)
      /\ content' = content /\ same_path' = same_path
  BY <1>2 DEF ReadByte
<1>4. /\ ~same_path /\ m <= Len(content) /\ unread = SubSeq(content, m + 1, Len(content))
      /\ \A k \in 0..(m - 1) : arr[k] = content[k + 1]
  BY <1>1, <1>3 DEF SortInv, FilledInv
<1> HIDE DEF m
<1>5. length' = m + 1
  <2>1. m + 1 \in Nat /\ DOMAIN arr' = 0..((m + 1) - 1)
    BY <1>1, <1>3
  <2>2. QED BY <2>1, NextLengthOf
<1>6. m < Len(content) /\ Head(unread) = content[m + 1]
      /\ Tail(unread) = SubSeq(content, (m + 1) + 1, Len(content))
  <2>1. Len(content) \in Nat
    BY <1>1
  <2>2. m < Len(content)
    BY <1>1, <1>4, <2>1
  <2>3. /\ Len(unread) = Len(content) - m
        /\ \A x \in 1..(Len(content) - m) : unread[x] = content[m + x]
    BY <1>1, <1>4, <2>1, <2>2
  <2>4. Head(unread) = content[m + 1]
    BY <1>1, <2>1, <2>2, <2>3
  <2>5. /\ Tail(unread) \in Seq(Byte) /\ Len(Tail(unread)) = Len(content) - (m + 1)
        /\ \A x \in 1..(Len(content) - (m + 1)) : Tail(unread)[x] = content[(m + 1) + x]
    BY <1>1, <2>1, <2>2, <2>3
  <2> DEFINE t == SubSeq(content, (m + 1) + 1, Len(content))
  <2>6. /\ t \in Seq(Byte) /\ Len(t) = Len(content) - (m + 1)
        /\ \A x \in 1..(Len(content) - (m + 1)) : t[x] = content[(m + 1) + x]
    BY <1>1, <2>1, <2>2
  <2> HIDE DEF t
  <2>7. Tail(unread) = t
    BY <2>1, <2>5, <2>6, SeqEqual
  <2>8. QED BY <2>2, <2>4, <2>7 DEF t
<1>7. Head(unread) \in Byte /\ Tail(unread) \in Seq(Byte)
  BY <1>1
<1>8. arr' \in [0..m -> Byte]
  BY <1>1, <1>3, <1>7
<1>9. \A k \in 0..((m + 1) - 1) : arr'[k] = content[k + 1]
  BY <1>1, <1>3, <1>4, <1>6
<1>10. SortTypeOK'
  <2>1. (m + 1) - 1 = m /\ m + 1 \in Nat /\ m + 1 <= capacity'
    BY <1>1, <1>2
  <2>2. arr' \in [0..(length' - 1) -> Byte] /\ length' \in Nat /\ length' <= capacity'
    BY <1>5, <1>8, <2>1
  <2>3. QED BY <1>2, <1>3, <1>7, <2>2 DEF SortInv, SortTypeOK, ReadByte
<1>11. FilledInv'
  <2>1. m + 1 <= Len(content)
    BY <1>1, <1>6
  <2>2. QED BY <1>3, <1>4, <1>5, <1>6, <1>9, <2>1 DEF FilledInv
<1>12. HeapInv'
  BY <1>3 DEF HeapInv
<1>13. QED BY <1>10, <1>11, <1>12 DEF SortInv

\* With all bytes read, the nodes from the middle on have no children.
LEMMA EndOfInputKeeps == SortInv /\ EndOfInput => SortInv'
<1> SUFFICES ASSUME SortInv, EndOfInput PROVE SortInv'
  OBVIOUS
<1> DEFINE m == length
<1>1. length' = m /\ Weights' = Weights
  BY SameBuffer DEF EndOfInput
<1>2. /\ m \in Nat /\ arr \in [0..(m - 1) -> Byte]
      /\ content \in Seq(Byte) /\ sort_pc = "read" /\ unread = <<>>
  BY DEF SortInv, SortTypeOK, EndOfInput
<1>3. i' = m \div 2 - 1 /\ sort_pc' = IF m <= 1 THEN "write" ELSE "build"
  BY DEF EndOfInput
<1>4. \A k \in 0..(m - 1) : Weights[k] \in Int
  BY <1>2, LessIsWeight DEF Weights
<1>5. SortTypeOK'
  <2>1. i' \in Int
    BY <1>2, <1>3
  <2>2. QED BY <1>1, <2>1 DEF SortInv, SortTypeOK, EndOfInput
<1>6. FilledInv'
  <2>1. CASE same_path
    BY <1>1, <1>2, <1>3, <2>1 DEF SortInv, FilledInv, EndOfInput
  <2>2. CASE ~same_path
    <3>1. /\ m <= Len(content) /\ unread = SubSeq(content, m + 1, Len(content))
          /\ \A k \in 0..(m - 1) : arr[k] = content[k + 1]
      BY <1>2, <2>2 DEF SortInv, FilledInv
    <3> HIDE DEF m
    <3>2. m = Len(content)
      <4>1. Len(content) \in Nat /\ Len(unread) = 0
        BY <1>2
      <4>2. Len(SubSeq(content, m + 1, Len(content))) = Len(content) - m
        BY <1>2, <3>1, <4>1
      <4>3. Len(unread) = Len(content) - m
        BY <3>1, <4>2, Zenon
      <4>4. m \in Nat
        BY <1>2
      <4>5. QED BY <4>1, <4>3, <4>4
    <3>3. \A b : Count(b, arr) = Count(b, content)
      <4>1. /\ DOMAIN arr = 0..(Len(content) - 1)
            /\ \A k \in 0..(Len(content) - 1) : arr[k] = content[k + 1]
        BY <1>2, <3>1, <3>2
      <4>2. QED BY <1>2, <4>1, ReadCount
    <3>4. arr' = arr /\ content' = content /\ same_path' = same_path
      BY DEF EndOfInput
    <3>5. \A b : Count(b, arr') = Count(b, content')
      BY <3>3, <3>4
    <3>6. sort_pc' \notin {"start", "read"}
      BY <1>3
    <3>7. QED BY <2>2, <3>4, <3>5, <3>6 DEF FilledInv
  <2>3. QED BY <2>1, <2>2
<1>7. HeapInv'
  <2> HIDE DEF m
  <2>1. m <= 1 => SortedFrom(Weights, 0, m)
    BY <1>2, <1>4 DEF SortedFrom
  <2>2. m > 1 => i' \in -1..(m - 1)
    BY <1>2, <1>3
  <2>3. i' + 1 = m \div 2 /\ \A k, c \in 0..(m - 1) : m \div 2 <= k => ~IsChild(k, c)
    BY <1>2, <1>3 DEF IsChild
  <2>4. HeapFrom(Weights, i' + 1, m)
    BY <2>3 DEF HeapFrom
  <2>5. QED BY <1>1, <1>2, <1>3, <2>1, <2>2, <2>4 DEF HeapInv
<1>8. QED BY <1>5, <1>6, <1>7 DEF SortInv

\* The node before the heap becomes the one that heapify is to sink.
LEMMA BuildHeapKeeps == SortInv /\ Build => SortInv'
<1> SUFFICES ASSUME SortInv, Build PROVE SortInv'
  OBVIOUS
<1> DEFINE m == length
<1>1. length' = m /\ Weights' = Weights
  BY SameBuffer DEF Build
<1>2. m \in Nat /\ i \in -1..(m - 1) /\ HeapFrom(Weights, i + 1, m)
  BY DEF SortInv, SortTypeOK, HeapInv, Build
<1>3. SortTypeOK'
  BY <1>1, <1>2 DEF SortInv, SortTypeOK, Build
<1>4. FilledInv'
  BY <1>1 DEF SortInv, FilledInv, Build
<1>5. CASE i >= 0
  <2>1. /\ node' = i /\ n' = m /\ back' = "build" /\ i' = i - 1 /\ sort_pc' = "heapify"
    BY <1>5 DEF Build
  <2> HIDE DEF m
  <2>2. i' + 1 = i /\ i' \in -1..(m - 2) /\ node' \in 0..(m - 1) /\ i' < node'
    BY <1>2, <1>5, <2>1
  <2>3. HeapBut(Weights, i, m, i)
    BY <1>2, <1>5 DEF HeapBut, HeapFrom, IsChild
  <2>4. QED BY <1>1, <1>3, <1>4, <2>1, <2>2, <2>3 DEF SortInv, HeapInv
<1>6. CASE ~ (i >= 0)
  <2>1. i' = m - 1 /\ sort_pc' = "extract"
    BY <1>6 DEF Build
  <2> HIDE DEF m
  <2>2. i + 1 = 0 /\ i' + 1 = m /\ i' \in -1..(m - 1)
    BY <1>2, <1>6, <2>1
  <2>3. HeapFrom(Weights, 0, m)
    BY <1>2, <2>2
  <2>4. SortedFrom(Weights, m, m)
    BY <1>2 DEF SortedFrom
  <2>5. QED BY <1>1, <1>3, <1>4, <2>1, <2>2, <2>3, <2>4 DEF SortInv, HeapInv
<1>7. QED BY <1>5, <1>6

\* The largest byte goes behind the heap, where the sorted ones begin.
LEMMA ExtractKeeps == SortInv /\ Extract => SortInv'
<1> SUFFICES ASSUME SortInv, Extract PROVE SortInv'
  OBVIOUS
<1> DEFINE m == length
<1>1. /\ m \in Nat /\ i \in -1..(m - 1) /\ SortTypeOK
      /\ HeapFrom(Weights, 0, i + 1) /\ SortedFrom(Weights, i + 1, m)
  BY DEF SortInv, SortTypeOK, HeapInv, Extract
<1>2. CASE i >= 0
  <2>1. /\ arr' = Swapped(arr, 0, i) /\ order' = order
        /\ node' = 0 /\ n' = i /\ back' = "extract" /\ i' = i - 1 /\ sort_pc' = "heapify"
    BY <1>2 DEF Extract
  <2>2. i \in 0..(m - 1) /\ 0 \in 0..(m - 1)
    BY <1>1, <1>2
  <2>3. /\ arr' \in [0..(m - 1) -> Byte] /\ length' = m
        /\ \A x \in 0..(m - 1) : Weights[x] \in Int
        /\ Exchanged(Weights, Weights', 0, i, m)
        /\ \A b : Count(b, arr') = Count(b, arr)
    BY <1>1, <2>1, <2>2, SwapOf
  <2>4. SortTypeOK'
    BY <1>1, <2>1, <2>2, <2>3 DEF SortTypeOK, Extract
  <2>5. FilledInv'
    <3>1. IF same_path THEN m = 0 ELSE \A b \in Byte : Count(b, arr) = Count(b, content)
      BY DEF SortInv, FilledInv, Extract
    <3>2. same_path' = same_path /\ content' = content
      BY DEF Extract
    <3>3. QED BY <2>1, <2>3, <3>1, <3>2 DEF FilledInv
  <2>6. HeapBut(Weights', 0, i, 0) /\ SortedFrom(Weights', i, m)
    <3> HIDE DEF m
    <3>1. QED BY <1>1, <2>2, <2>3, RootGoesLast
  <2>7. HeapInv'
    <3> HIDE DEF m
    <3>1. i' \in -1..(m - 2) /\ n' = i' + 1 /\ (0 < n' \/ n' = 0)
      BY <1>1, <2>1, <2>2
    <3>2. QED BY <2>1, <2>2, <2>3, <2>6, <3>1 DEF HeapInv
  <2>8. QED BY <2>4, <2>5, <2>7 DEF SortInv
<1>3. CASE ~ (i >= 0)
  <2>1. sort_pc' = "write" /\ UNCHANGED <<arr, node, n, back, i>>
    BY <1>3 DEF Extract
  <2>2. length' = m /\ Weights' = Weights
    BY <2>1, SameBuffer DEF Extract
  <2>3. i + 1 = 0
    BY <1>1, <1>3
  <2>4. SortTypeOK'
    BY <1>1, <2>1, <2>2 DEF SortTypeOK, Extract
  <2>5. FilledInv'
    BY <2>1, <2>2 DEF SortInv, FilledInv, Extract
  <2>6. HeapInv'
    BY <1>1, <2>1, <2>2, <2>3 DEF HeapInv
  <2>7. QED BY <2>4, <2>5, <2>6 DEF SortInv
<1>4. QED BY <1>2, <1>3

\* Largest is a node that is not below its children: itself or one of them.
LEMMA LargestOf ==
  ASSUME SortTypeOK, node \in 0..(length - 1), n \in 0..length, node < n \/ n = 0
  PROVE  /\ Largest \in 0..(length - 1)
         /\ Largest # node => /\ Largest \in 0..(n - 1) /\ IsChild(node, Largest)
                              /\ Weights[node] <= Weights[Largest]
         /\ \A c \in 0..(n - 1) : IsChild(node, c) => Weights[c] <= Weights[Largest]
<1> DEFINE m == length
<1>1. m \in Nat /\ arr \in [0..(m - 1) -> Byte] /\ node \in 0..(m - 1) /\ n \in 0..m
  BY DEF SortTypeOK
<1> HIDE DEF m
<1>2. \A x, y \in 0..(m - 1) : /\ Weights[x] \in Int
                               /\ Less(arr[x], arr[y]) <=> Weights[x] < Weights[y]
  BY <1>1, LessIsWeight DEF Weights
<1> DEFINE left == 2 * node + 1
           right == 2 * node + 2
           larger == IF left < n /\ Less(arr[node], arr[left]) THEN left ELSE node
<1>3. Largest = IF right < n /\ Less(arr[larger], arr[right]) THEN right ELSE larger
  BY DEF Largest
<1>4. left \in Nat /\ right \in Nat /\ \A c : IsChild(node, c) <=> c = left \/ c = right
  BY <1>1 DEF IsChild
<1>5. /\ larger \in 0..(m - 1) /\ Weights[node] <= Weights[larger]
      /\ left < n => Weights[left] <= Weights[larger]
      /\ larger # node => larger = left /\ left < n
  BY <1>1, <1>2, <1>4
<1> HIDE DEF larger, left, right
<1>6. /\ Largest \in 0..(m - 1) /\ Weights[larger] <= Weights[Largest]
      /\ right < n => Weights[right] <= Weights[Largest]
      /\ Largest # larger => Largest = right /\ right < n
  BY <1>1, <1>2, <1>3, <1>4, <1>5
<1>7. /\ Weights[node] <= Weights[Largest]
      /\ left < n => Weights[left] <= Weights[Largest]
  <2>1. left < n => left \in 0..(m - 1)
    BY <1>1, <1>4
  <2>2. QED BY <1>1, <1>2, <1>5, <1>6, <2>1
<1>8. Largest # node => Largest \in 0..(n - 1) /\ IsChild(node, Largest)
  BY <1>1, <1>4, <1>5, <1>6
<1>9. \A c \in 0..(n - 1) : IsChild(node, c) => Weights[c] <= Weights[Largest]
  BY <1>1, <1>4, <1>6, <1>7
<1>10. QED BY <1>6, <1>7, <1>8, <1>9 DEF m

\* heapify sinks its node by a level, or leaves a heap.
LEMMA HeapifyKeeps == SortInv /\ heapify => SortInv'
<1> SUFFICES ASSUME SortInv, heapify PROVE SortInv'
  OBVIOUS
<1> DEFINE m == length
           lo == IF back = "build" THEN i + 1 ELSE 0
<1>1. /\ m \in Nat /\ SortTypeOK /\ sort_pc = "heapify"
      /\ i \in -1..(m - 2) /\ node \in 0..(m - 1) /\ n \in Nat
      /\ back \in {"build", "extract"}
      /\ back = "build" => n = m /\ i < node
      /\ back = "extract" => /\ n = i + 1 /\ (node < n \/ n = 0)
                             /\ SortedFrom(Weights, n, m)
      /\ HeapBut(Weights, lo, n, node)
  BY DEF SortInv, SortTypeOK, HeapInv, heapify
<1>2. /\ n \in 0..m /\ (node < n \/ n = 0)
      /\ lo \in Nat /\ lo <= node
      /\ lo = IF back = "build" THEN i + 1 ELSE 0
  BY <1>1
<1> HIDE DEF lo
<1>3. /\ Largest \in 0..(m - 1)
      /\ Largest # node => /\ Largest \in 0..(n - 1) /\ IsChild(node, Largest)
                           /\ Weights[node] <= Weights[Largest]
      /\ \A c \in 0..(n - 1) : IsChild(node, c) => Weights[c] <= Weights[Largest]
  BY <1>1, <1>2, LargestOf
<1>4. CASE Largest # node
  <2> DEFINE j == Largest
  <2>1. /\ arr' = Swapped(arr, node, j) /\ order' = order /\ node' = j /\ sort_pc' = sort_pc
        /\ UNCHANGED <<same_path, content, unread, capacity, i, n, back, output>>
    BY <1>4 DEF heapify
  <2>2. j \in 0..(n - 1) /\ j \in 0..(m - 1) /\ IsChild(node, j) /\ node \in lo..(n - 1)
    BY <1>1, <1>2, <1>3, <1>4 DEF IsChild
  <2> HIDE DEF j
  <2>3. /\ arr' \in [0..(m - 1) -> Byte] /\ length' = m
        /\ \A x \in 0..(m - 1) : Weights[x] \in Int
        /\ Exchanged(Weights, Weights', node, j, m)
        /\ \A b : Count(b, arr') = Count(b, arr)
    BY <1>1, <2>1, <2>2, SwapOf
  <2>4. SortTypeOK'
    BY <1>1, <2>1, <2>2, <2>3 DEF SortTypeOK
  <2>5. FilledInv'
    <3>1. IF same_path THEN m = 0 ELSE \A b \in Byte : Count(b, arr) = Count(b, content)
      BY <1>1 DEF SortInv, FilledInv
    <3>2. QED BY <1>1, <2>1, <2>3, <3>1 DEF FilledInv
  <2>6. HeapBut(Weights', lo, n, j)
    <3>1. /\ \A c \in 0..(n - 1) : IsChild(node, c) => Weights[c] <= Weights[j]
          /\ Weights[node] <= Weights[j]
      BY <1>3, <1>4 DEF j
    <3> HIDE DEF m
    <3>2. QED BY <1>1, <1>2, <2>2, <2>3, <3>1, SiftDown
  <2>7. back = "extract" => SortedFrom(Weights', n, m)
    <3> HIDE DEF m
    <3>1. node \in 0..(n - 1) /\ n \in 0..m
      BY <1>1, <1>2, <2>2
    <3>2. QED BY <1>1, <2>2, <2>3, <3>1, ExchangeBelow
  <2>8. HeapInv'
    <3> HIDE DEF m
    <3>1. node' \in 0..(m - 1) /\ node' < n' /\ (back' = "build" => i' < node')
      BY <1>1, <1>2, <2>1, <2>2 DEF IsChild
    <3>2. QED BY <1>1, <1>2, <2>1, <2>3, <2>6, <2>7, <3>1 DEF HeapInv
  <2>9. QED BY <2>4, <2>5, <2>8 DEF SortInv
<1>5. CASE Largest = node
  <2>1. /\ sort_pc' = back
        /\ UNCHANGED <<arr, node, order, same_path, content, unread, capacity, i, n, back,
                       output>>
    BY <1>5 DEF heapify
  <2>2. length' = m /\ Weights' = Weights
    BY <2>1, SameBuffer
  <2>3. SortTypeOK'
    BY <1>1, <2>1, <2>2 DEF SortTypeOK
  <2>4. FilledInv'
    BY <1>1, <2>1, <2>2 DEF SortInv, FilledInv
  <2>5. HeapFrom(Weights, lo, n)
    BY <1>1, <1>3, <1>5, Sunk
  <2>6. HeapInv'
    <3> HIDE DEF m
    <3>1. i' \in -1..(m - 1)
      BY <1>1, <2>1
    <3>2. QED BY <1>1, <1>2, <2>1, <2>2, <2>5, <3>1 DEF HeapInv
  <2>7. QED BY <2>3, <2>4, <2>6 DEF SortInv
<1>6. QED BY <1>4, <1>5

\* The buffer is written as it is.
LEMMA WriteKeeps == SortInv /\ Write => SortInv'
<1> SUFFICES ASSUME SortInv, Write PROVE SortInv'
  OBVIOUS
<1>1. length' = length /\ Weights' = Weights
  BY SameBuffer DEF Write
<1>2. SortTypeOK'
  BY <1>1 DEF SortInv, SortTypeOK, Write
<1>3. FilledInv'
  BY <1>1 DEF SortInv, FilledInv, Write
<1>4. HeapInv'
  BY <1>1 DEF SortInv, HeapInv, Write
<1>5. QED BY <1>2, <1>3, <1>4 DEF SortInv

\* Every step of the sorter keeps its invariant.
LEMMA SortStep == SortInv /\ [SortNext]_sort_vars => SortInv'
<1>1. SortInv /\ UNCHANGED sort_vars => SortInv'
  <2> SUFFICES ASSUME SortInv, UNCHANGED sort_vars PROVE SortInv'
    OBVIOUS
  <2>1. length' = length /\ Weights' = Weights
    BY SameBuffer DEF sort_vars
  <2>2. SortTypeOK'
    BY <2>1 DEF SortInv, SortTypeOK, sort_vars
  <2>3. FilledInv'
    BY <2>1 DEF SortInv, FilledInv, sort_vars
  <2>4. HeapInv'
    BY <2>1 DEF SortInv, HeapInv, sort_vars
  <2>5. QED BY <2>2, <2>3, <2>4 DEF SortInv
<1>2. QED BY <1>1, OpenKeeps, ReadByteKeeps, EndOfInputKeeps, BuildHeapKeeps, ExtractKeeps,
             HeapifyKeeps, WriteKeeps, Zenon DEF SortNext

\* The sorter starts with an empty buffer.
LEMMA SortStart == SortInit => SortInv
<1> SUFFICES ASSUME SortInit PROVE SortInv
  OBVIOUS
<1>1. DOMAIN arr = 0..(0 - 1)
  BY DEF SortInit
<1>2. length = 0
  BY <1>1, LengthOf
<1>3. arr \in [0..(length - 1) -> Byte]
  BY <1>2 DEF SortInit
<1>4. SortTypeOK
  <2>1. content \in Seq(Byte) /\ unread \in Seq(Byte)
    BY DEF SortInit
  <2>2. capacity \in Nat \ {0} /\ length \in Nat /\ length <= capacity
    BY <1>2, SorterAssumption DEF SortInit
  <2>3. /\ sort_pc = "start" /\ order = "ascending" /\ same_path = FALSE
        /\ i = 0 /\ node = 0 /\ n = 0 /\ back = "build"
    BY DEF SortInit
  <2>4. i \in Int /\ node \in Nat /\ n \in Nat
    BY <2>3
  <2>5. same_path \in BOOLEAN
    BY <2>3
  <2>6. QED BY <1>3, <2>1, <2>2, <2>3, <2>4, <2>5, Zenon DEF SortTypeOK
<1>5. QED BY <1>2, <1>4 DEF SortInv, FilledInv, HeapInv, SortInit

\* What the sorter has written is what its invariant says of the buffer.
LEMMA SortInvIsSorted == SortInv => OutputIsSorted
<1> SUFFICES ASSUME SortInv PROVE OutputIsSorted
  OBVIOUS
<1> DEFINE m == length
<1>1. sort_pc # "overrun"
  BY DEF SortInv, SortTypeOK
<1>2. ASSUME sort_pc = "done", same_path
      PROVE  output = <<>>
  <2>1. arr \in [0..(0 - 1) -> Byte] /\ output = arr
    BY <1>2 DEF SortInv, SortTypeOK, FilledInv, HeapInv
  <2>2. arr \in Seq(Byte) /\ Len(arr) = 0
    BY <2>1
  <2>3. QED BY <2>1, <2>2
<1>3. ASSUME sort_pc = "done", ~same_path
      PROVE  /\ \A b \in Byte : Count(b, output) = Count(b, content)
             /\ \A j, k \in DOMAIN output : j < k => ~ Less(output[k], output[j])
  <2>1. /\ arr \in [0..(m - 1) -> Byte] /\ output = arr /\ SortedFrom(Weights, 0, m)
        /\ \A b \in Byte : Count(b, arr) = Count(b, content)
        /\ m \in Nat
    BY <1>3 DEF SortInv, SortTypeOK, FilledInv, HeapInv
  <2> HIDE DEF m
  <2>2. ASSUME NEW j \in DOMAIN output, NEW k \in DOMAIN output, j < k
        PROVE  ~ Less(output[k], output[j])
    <3>1. k \in 0..(m - 1) /\ j \in 0..k /\ output[k] \in Byte /\ output[j] \in Byte
      BY <2>1, <2>2
    <3>2. Weights[j] <= Weights[k]
      BY <2>1, <3>1 DEF SortedFrom
    <3>3. Weights[j] = Weight(output[j]) /\ Weights[k] = Weight(output[k])
      BY <2>1, <2>2 DEF Weights
    <3>4. /\ Weight(output[j]) \in Int /\ Weight(output[k]) \in Int
          /\ Less(output[k], output[j]) <=> Weight(output[k]) < Weight(output[j])
      BY <3>1, LessIsWeight
    <3>5. QED BY <3>2, <3>3, <3>4
  <2>3. QED BY <2>1, <2>2
<1>4. QED BY <1>1, <1>2, <1>3 DEF OutputIsSorted

\* The sorter's output holds the bytes of its input in the order asked for, however
\* long the input is: heapify leaves a heap above the sorted end of the buffer, and
\* no byte is stored behind the buffer, which doubles before it is full.
THEOREM OutputIsSortedCorrect == Spec => []OutputIsSorted
<1>1. Init => SortInv
  BY EachInit, SortStart
<1>2. SortInv /\ [Next]_program_vars => SortInv'
  BY EachProgram, SortStep
<1>3. QED BY <1>1, <1>2, SortInvIsSorted, PTL DEF Spec
=============================================================================
