--------------------------- MODULE PasswordStack ---------------------------
(***************************************************************************)
(* The password manager over its growing stack (stack.c, run_stack): list, *)
(* rm and find empty the stack into a second one, pair by pair, and pour   *)
(* what is left back.  A stack is its pairs and the capacity of its        *)
(* buffer; sizes are counted in pairs, which all have the size of two      *)
(* pointers.  Capacity 0 is the buffer not allocated yet.                  *)
(***************************************************************************)
EXTENDS PasswordPair, SequencesExt

CONSTANTS FIRST_CAPACITY,   \* pairs the first buffer holds (10)
          MAX_PAIRS         \* bound on the pairs added

ASSUME StackAssumption == /\ FIRST_CAPACITY \in Nat \ {0}
                          /\ MAX_PAIRS \in Nat

VARIABLES stack,            \* the custom_stack_t of run_stack
          tmp_stack,        \* the one list, rm and find fill
          loop,             \* "idle", or the while loop a command is in
          cmd, line,        \* the command and the key it was given
          stack_printed     \* the pairs it printed something of, in order

stackVars == <<stack, tmp_stack, loop, cmd, line, stack_printed>>

create_stack == [data |-> <<>>, capacity |-> 0]

is_stack_empty(s) == s.data = <<>>

\* Mutant: the buffer grows only when it is already overrun.
Capacity_Late(s) ==
  LET allocated == IF s.capacity = 0 THEN FIRST_CAPACITY ELSE s.capacity
  IN IF allocated < Len(s.data) THEN 2 * allocated ELSE allocated

\* The capacity a push leaves: the first buffer, doubled while the pair would
\* fill it to the brim.
Capacity(s) ==
  LET allocated == IF s.capacity = 0 THEN FIRST_CAPACITY ELSE s.capacity
  IN IF allocated <= Len(s.data) + 1 THEN 2 * allocated ELSE allocated

push_stack(s, pair) == [data |-> Append(s.data, pair), capacity |-> Capacity(s)]

pop_stack(s) == [s EXCEPT !.data = Front(@)]

StackInit == /\ stack = create_stack
             /\ tmp_stack = create_stack
             /\ loop = "idle"
             /\ cmd = "LIST_PASSWORDS"
             /\ line \in Key
             /\ stack_printed = <<>>

StackAdd(pair) == /\ loop = "idle"
                  /\ Len(stack.data) < MAX_PAIRS
                  /\ stack' = push_stack(stack, pair)
                  /\ stack_printed' = <<>>
                  /\ UNCHANGED <<tmp_stack, loop, cmd, line>>

\* A command of the other three is read, and its key if it has one.
StackCommand(c, key) == /\ loop = "idle"
                        /\ c = "LIST_PASSWORDS" => key = line
                        /\ cmd' = c
                        /\ line' = key
                        /\ loop' = "emptying"
                        /\ tmp_stack' = create_stack
                        /\ stack_printed' = <<>>
                        /\ UNCHANGED stack

\* What the command says of a pair it meets: does it print, does it drop it?
IsPrinted(pair) == cmd = "LIST_PASSWORDS" \/ pair.first = line
IsDropped(pair) == cmd = "REMOVE_PASSWORD" /\ pair.first = line

\* One turn of the first loop.
Empty == /\ loop = "emptying"
         /\ ~ is_stack_empty(stack)
         /\ LET pair == Last(stack.data)
            IN /\ stack_printed' = IF IsPrinted(pair) THEN Append(stack_printed, pair)
                                                      ELSE stack_printed
               /\ tmp_stack' = IF IsDropped(pair) THEN tmp_stack
                                                 ELSE push_stack(tmp_stack, pair)
         /\ stack' = pop_stack(stack)
         /\ UNCHANGED <<loop, cmd, line>>

EmptyDone == /\ loop = "emptying"
             /\ is_stack_empty(stack)
             /\ loop' = "refilling"
             /\ UNCHANGED <<stack, tmp_stack, cmd, line, stack_printed>>

\* Mutant: the pairs are poured back in the order they came out.
Refill_InOrder == /\ loop = "refilling"
                  /\ ~ is_stack_empty(tmp_stack)
                  /\ stack' = push_stack(stack, Head(tmp_stack.data))
                  /\ tmp_stack' = [tmp_stack EXCEPT !.data = Tail(@)]
                  /\ UNCHANGED <<loop, cmd, line, stack_printed>>

\* One turn of the second loop.
Refill == /\ loop = "refilling"
          /\ ~ is_stack_empty(tmp_stack)
          /\ stack' = push_stack(stack, Last(tmp_stack.data))
          /\ tmp_stack' = pop_stack(tmp_stack)
          /\ UNCHANGED <<loop, cmd, line, stack_printed>>

RefillDone == /\ loop = "refilling"
              /\ is_stack_empty(tmp_stack)
              /\ loop' = "idle"
              /\ UNCHANGED <<stack, tmp_stack, cmd, line, stack_printed>>

StackNext == \/ \E pair \in Pair : StackAdd(pair)
             \/ \E c \in Command, key \in Key : StackCommand(c, key)
             \/ Empty \/ EmptyDone \/ Refill \/ RefillDone

StackSpec == StackInit /\ [][StackNext]_stackVars
-----------------------------------------------------------------------------
Stack == [data : Seq(Pair), capacity : Nat]

\* The variables of run_stack have their types.
StackTypeOK == /\ stack \in Stack
               /\ tmp_stack \in Stack
               /\ loop \in {"idle", "emptying", "refilling"}
               /\ cmd \in Command
               /\ line \in Key
               /\ stack_printed \in Seq(Pair)

\* A buffer that was allocated always has room for one more pair than it
\* holds ("ASSERT_GT(s.capacity, size)"), in both stacks and in every turn of
\* the loops: no push writes beyond it, and increase_stack_size is never asked
\* for less than there is.
SpareRoom == \A s \in {stack, tmp_stack} :
  Len(s.data) < s.capacity \/ (s.data = <<>> /\ s.capacity = 0)

\* Where a stack holds what the command will keep, and what it will print.
Kept(s) == {i \in DOMAIN s : ~ IsDropped(s[i])}
Shown(s) == {i \in DOMAIN s : IsPrinted(s[i])}

\* The pairs the stack stands for while a command is halfway: what it has not
\* met yet and will keep, and what it put aside, newest first.
StackPairs ==
  (IF loop = "emptying" THEN Picked(stack.data, Kept(stack.data)) ELSE stack.data)
    \o Reverse(tmp_stack.data)

\* What the command has printed and will have printed.
StackShown ==
  stack_printed \o
    (IF loop = "emptying" THEN Reverse(Picked(stack.data, Shown(stack.data))) ELSE <<>>)

StackBook == INSTANCE PasswordBook WITH pairs <- StackPairs, shown <- StackShown

\* The stack implements the password book, taking the step of a command when
\* the command starts: emptying and refilling lose no pair and keep the order.
StackIsBook == StackBook!BookSpec
=============================================================================
