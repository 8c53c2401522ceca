----------------------------- MODULE ByteSorter -----------------------------
(***************************************************************************)
(* The byte sorter (1_semester/hw7): main opens the two files, run reads   *)
(* all bytes into a buffer that doubles when it is full, heap-sorts them   *)
(* as signed chars in the order asked for, and writes them.  Indices are   *)
(* C's, from 0; the recursion of heapify is its last call, so a loop.      *)
(***************************************************************************)
EXTENDS Integers, Sequences, FiniteSets

CONSTANTS Content,          \* what may be in the input file
          CAPACITY          \* of the first buffer (1024)

Byte == 0..255

ASSUME SorterAssumption == Content \subseteq Seq(Byte) /\ CAPACITY \in Nat \ {0}

VARIABLES sort_pc,          \* where the program is
          order,            \* the ordering asked for
          same_path,        \* are both files one?
          content,          \* what the input file held before
          unread,           \* what of it is still to be read
          capacity, arr,    \* of the buffer, and the bytes in it
          i,                \* the loop variable of sort
          node, n, back,    \* heapify's node and size, and the loop it returns to
          output            \* what was written

sort_vars == <<sort_pc, order, same_path, content, unread, capacity, arr, i, node, n, back, output>>

SortInit == /\ sort_pc = "start"
            /\ order = "ascending" /\ same_path = FALSE
            /\ content = <<>> /\ unread = <<>>
            /\ capacity = CAPACITY
            /\ arr = [k \in {} |-> 0]
            /\ i = 0 /\ node = 0 /\ n = 0 /\ back = "build"
            /\ output = arr

length == Cardinality(DOMAIN arr)

\* main: the output file is emptied when it is opened, before the input is read.
Open == /\ sort_pc = "start"
        /\ order' \in {"ascending", "descending"}
        /\ same_path' \in BOOLEAN
        /\ content' \in Content
        /\ unread' = IF same_path' THEN <<>> ELSE content'
        /\ sort_pc' = "read"
        /\ UNCHANGED <<capacity, arr, i, node, n, back, output>>

\* The size of the buffer when the next byte is stored.
Grown == IF length = capacity THEN 2 * capacity ELSE capacity

\* A byte is read and stored, if it has a place in the buffer.
ReadByte ==
  /\ sort_pc = "read" /\ unread # <<>>
  /\ capacity' = Grown
  /\ unread' = Tail(unread)
  /\ IF length < capacity'
     THEN arr' = [k \in 0..length |-> IF k = length THEN Head(unread) ELSE arr[k]]
          /\ UNCHANGED sort_pc
     ELSE sort_pc' = "overrun" /\ UNCHANGED arr
  /\ UNCHANGED <<order, same_path, content, i, node, n, back, output>>

EndOfInput == /\ sort_pc = "read" /\ unread = <<>>
              /\ i' = length \div 2 - 1
              /\ sort_pc' = IF length <= 1 THEN "write" ELSE "build"
              /\ UNCHANGED <<order, same_path, content, unread, capacity, arr, node, n, back, output>>

\* A char is signed.
Char(b) == IF b > 127 THEN b - 256 ELSE b

\* asc_cmp, desc_cmp
Less(a, b) == IF order = "ascending" THEN Char(a) < Char(b) ELSE Char(a) > Char(b)

Swapped(a, j, k) == [a EXCEPT ![j] = a[k], ![k] = a[j]]

\* The two loops of sort: over the inner nodes, then over the end of the heap.
Build == /\ sort_pc = "build"
         /\ IF i >= 0
            THEN /\ node' = i /\ n' = length /\ back' = "build"
                 /\ i' = i - 1
                 /\ sort_pc' = "heapify"
            ELSE /\ i' = length - 1
                 /\ sort_pc' = "extract"
                 /\ UNCHANGED <<node, n, back>>
         /\ UNCHANGED <<order, same_path, content, unread, capacity, arr, output>>

Extract == /\ sort_pc = "extract"
           /\ IF i >= 0
              THEN /\ arr' = Swapped(arr, 0, i)
                   /\ node' = 0 /\ n' = i /\ back' = "extract"
                   /\ i' = i - 1
                   /\ sort_pc' = "heapify"
              ELSE sort_pc' = "write" /\ UNCHANGED <<arr, node, n, back, i>>
           /\ UNCHANGED <<order, same_path, content, unread, capacity, output>>

\* Mutant: the right child is compared with the node, not with the larger.
Largest_NotOfThree ==
  LET left == 2 * node + 1  right == 2 * node + 2
  IN IF right < n /\ Less(arr[node], arr[right]) THEN right
     ELSE IF left < n /\ Less(arr[node], arr[left]) THEN left ELSE node

\* The largest of a node and its children.
Largest ==
  LET left == 2 * node + 1
      right == 2 * node + 2
      largest == IF left < n /\ Less(arr[node], arr[left]) THEN left ELSE node
  IN IF right < n /\ Less(arr[largest], arr[right]) THEN right ELSE largest

heapify == /\ sort_pc = "heapify"
           /\ IF Largest # node
              THEN /\ arr' = Swapped(arr, node, Largest)
                   /\ node' = Largest
                   /\ UNCHANGED sort_pc
              ELSE sort_pc' = back /\ UNCHANGED <<arr, node>>
           /\ UNCHANGED <<order, same_path, content, unread, capacity, i, n, back, output>>

Write == /\ sort_pc = "write"
         /\ output' = arr
         /\ sort_pc' = "done"
         /\ UNCHANGED <<order, same_path, content, unread, capacity, arr, i, node, n, back>>

SortNext == Open \/ ReadByte \/ EndOfInput \/ Build \/ Extract \/ heapify \/ Write
-----------------------------------------------------------------------------
\* How often a byte is in a function or a sequence.
Count(b, f) == Cardinality({k \in DOMAIN f : f[k] = b})

\* No byte is stored behind the buffer, and the output holds every byte of the
\* input as often as it was there, in the order asked for; unless it goes to the
\* input file itself, which was emptied first.
OutputIsSorted ==
  /\ sort_pc # "overrun"
  /\ sort_pc = "done" =>
       IF same_path THEN output = <<>>
       ELSE /\ \A b \in Byte : Count(b, output) = Count(b, content)
            /\ \A j, k \in DOMAIN output : j < k => ~ Less(output[k], output[j])
=============================================================================
