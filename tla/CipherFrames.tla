---------------------------- MODULE CipherFrames ----------------------------
(***************************************************************************)
(* The sizes of one message of the socket chat (hw1_task3) on its way from *)
(* the keyboard of a peer to the screen of the other, in bytes: AES pads   *)
(* the text, the frame has its length in front, the reader's loop adds and *)
(* subtracts sizes until the buffer is used up.  Both peers have one key   *)
(* (KeysAgree of SocketChat), and the message is alone in the socket.      *)
(***************************************************************************)
EXTENDS Integers

CONSTANT Typed              \* sizes of a text, with its NUL

STRING_T_MAX_SIZE == 4100
HEADER == 8                 \* sizeof(uint64_t)
BLOCK == 16                 \* EVP_CIPHER_block_size

ASSUME TypedAssumption == Typed \subseteq 1..STRING_T_MAX_SIZE

VARIABLES stage,            \* where the message is
          skip_crypto,      \* the option, the same for both peers
          cipher,           \* "works", or which of its two calls fails
          text_size,        \* size of the text that was typed
          message_size,     \* size of the message in the frame
          bytes_read,       \* what is left of the reader's buffer
          cleared,          \* has the reader cleared its buffer?
          texts, nulls      \* how often it printed the text, and "(null)"

cipher_vars == <<stage, skip_crypto, cipher, text_size, message_size, bytes_read,
                 cleared, texts, nulls>>

CipherInit == /\ stage = "stdin"
              /\ skip_crypto = FALSE /\ cipher = "works"
              /\ text_size = 1 /\ message_size = 0
              /\ bytes_read = 0 /\ cleared = FALSE
              /\ texts = 0 /\ nulls = 0

string_required_buffer_size(size) == size + HEADER

\* string_create: asserts that the text fits the buffer.
Type == /\ stage = "stdin"
        /\ text_size' \in Typed
        /\ skip_crypto' \in BOOLEAN
        /\ cipher' \in IF skip_crypto' THEN {"works"}
                       ELSE {"works", "encrypt_fails", "decrypt_fails"}
        /\ stage' = IF string_required_buffer_size(text_size') < STRING_T_MAX_SIZE
                    THEN "encrypt" ELSE "aborted"
        /\ UNCHANGED <<message_size, bytes_read, cleared, texts, nulls>>

\* At least a byte of padding.
Padded(size) == BLOCK * (size \div BLOCK + 1)

\* What the message in the frame is: the text, nothing, or the padded text.
EncryptedSize == IF skip_crypto THEN text_size
                 ELSE IF cipher = "encrypt_fails" THEN 0 ELSE Padded(text_size)

encrypt_data == /\ stage = "encrypt"
                /\ message_size' = EncryptedSize
                /\ stage' = "serialize"
                /\ UNCHANGED <<skip_crypto, cipher, text_size, bytes_read, cleared,
                               texts, nulls>>

\* The frame is put together in the buffer, which it may overrun, and written.
string_serialize_to_buffer ==
  /\ stage = "serialize"
  /\ stage' = IF string_required_buffer_size(message_size) <= STRING_T_MAX_SIZE
              THEN "socket" ELSE "overrun"
  /\ UNCHANGED <<skip_crypto, cipher, text_size, message_size, bytes_read, cleared,
                 texts, nulls>>

Read == /\ stage = "socket"
        /\ LET frame == string_required_buffer_size(message_size)
           IN bytes_read' = IF frame < STRING_T_MAX_SIZE THEN frame ELSE STRING_T_MAX_SIZE - 1
        /\ stage' = "loop"
        /\ UNCHANGED <<skip_crypto, cipher, text_size, message_size, cleared, texts, nulls>>

\* The length string_decerealize finds: the frame's, then zeros.
FoundSize == IF cleared THEN 0 ELSE message_size

\* Mutant: it is the size of the text.
DecryptedSize_Plain == IF FoundSize = 0 \/ cipher = "decrypt_fails" THEN 0 ELSE text_size

\* The .size decrypt_data returns: that of what it was given, or 0 when it fails,
\* as it does when there is nothing to decrypt.
DecryptedSize == IF cipher = "decrypt_fails" THEN 0 ELSE FoundSize

\* A turn of the reader's loop.  A message without data is printed as "(null)".
ReadLoop ==
  /\ stage = "loop" /\ bytes_read > 0
  /\ LET size == IF skip_crypto THEN FoundSize ELSE DecryptedSize
     IN /\ IF size > 0 THEN texts' = texts + 1 /\ UNCHANGED nulls
                       ELSE nulls' = nulls + 1 /\ UNCHANGED texts
        /\ bytes_read' = bytes_read - string_required_buffer_size(size)
  /\ cleared' = TRUE
  /\ UNCHANGED <<stage, skip_crypto, cipher, text_size, message_size>>

Printed == /\ stage = "loop" /\ bytes_read <= 0
           /\ stage' = "printed"
           /\ UNCHANGED <<skip_crypto, cipher, text_size, message_size, bytes_read, cleared,
                          texts, nulls>>

CipherNext == \/ Type \/ encrypt_data \/ string_serialize_to_buffer \/ Read
              \/ ReadLoop \/ Printed
-----------------------------------------------------------------------------
\* What was printed.  With a cipher that works, the text once and nothing else:
\* the size the writer pads to, the size in the frame and the size the reader takes
\* off its buffer agree to the byte.  When the cipher fails, on either side,
\* "(null)" for every eight bytes of the frame.
PrintedExactly == stage = "printed" =>
  IF cipher = "works" THEN texts = 1 /\ nulls = 0
  ELSE texts = 0 /\ nulls = string_required_buffer_size(message_size) \div HEADER

\* The padding makes the frame overrun its buffer exactly for the last twelve
\* sizes that string_create lets through.
OverrunByPadding ==
  /\ stage = "overrun" => ~ skip_crypto /\ text_size \in 4080..4091
  /\ stage \in {"socket", "loop", "printed"} /\ ~ skip_crypto /\ cipher # "encrypt_fails"
       => text_size < 4080

\* A message arrives as it was typed, once, or it is one of the few that overrun
\* the buffer; with and without the cipher, and whatever fails.
CleanTransfer == PrintedExactly /\ OverrunByPadding
=============================================================================
