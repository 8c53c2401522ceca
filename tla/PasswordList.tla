---------------------------- MODULE PasswordList ----------------------------
(***************************************************************************)
(* The password manager over its doubly linked list (list.c, run_list).    *)
(* Nodes are memory: malloc gives one that is not live, and what free      *)
(* leaves in one is FreeContent.  rm moves first_node and last_node while  *)
(* it walks the list, and deletes the matches one by one afterwards, so    *)
(* last_node can be left pointing to a freed node.  The next add writes    *)
(* through it; what the program does from then on is undefined, and the    *)
(* model stops there.                                                      *)
(***************************************************************************)
EXTENDS PasswordPair, SequencesExt

CONSTANTS Node,             \* memory for the nodes: bounds how many are live
          NULL,
          FreeContent       \* what memory holds that is not allocated

ASSUME ListAssumption == NULL \notin Node

VARIABLES first_node, last_node,
          memory,           \* data, next_node and prev_node, in the whole memory
          live,             \* the nodes that are allocated
          undefined,        \* a freed node was written to
          list_loop,        \* "idle", or the loop a command is in
          list_cmd, list_line,    \* the command and the key it was given
          list_node,        \* node, the variable of the loop over the list
          nodes,            \* the matches of rm that are still to be deleted
          list_printed,     \* the pairs the command printed something of
          chain,            \* history: the live nodes in the order of their adding
          cut               \* history: some rm took the last two nodes

listVars == <<first_node, last_node, memory, live, undefined, list_loop, list_cmd,
              list_line, list_node, nodes, list_printed, chain, cut>>

ListInit == /\ first_node = NULL /\ last_node = NULL
            /\ memory = [n \in Node |-> FreeContent]
            /\ live = {}
            /\ undefined = FALSE
            /\ list_loop = "idle" /\ list_cmd = "LIST_PASSWORDS" /\ list_line \in Key
            /\ list_node = NULL /\ nodes = <<>>
            /\ list_printed = <<>>
            /\ chain = <<>> /\ cut = FALSE

\* Mutant: the first node of an empty list is not noted.
push_back_list_NoFirst(pair) == \E n \in Node \ live :
  LET filled == [memory EXCEPT ![n] = [data |-> pair, next_node |-> NULL,
                                       prev_node |-> last_node]]
  IN /\ memory' = IF last_node \in live THEN [filled EXCEPT ![last_node].next_node = n]
                                         ELSE filled
     /\ undefined' = (last_node \notin live \cup {NULL})
     /\ last_node' = n
     /\ live' = live \cup {n}
     /\ chain' = Append(chain, n)
     /\ UNCHANGED first_node

\* add: a new node behind last_node, whatever that points to.  A write to a
\* freed node is shown at its least harmful, as one that changes nothing else.
push_back_list(pair) == \E n \in Node \ live :
  LET filled == [memory EXCEPT ![n] = [data |-> pair, next_node |-> NULL,
                                       prev_node |-> last_node]]
  IN /\ memory' = IF last_node \in live THEN [filled EXCEPT ![last_node].next_node = n]
                                         ELSE filled
     /\ undefined' = (last_node \notin live \cup {NULL})
     /\ last_node' = n
     /\ first_node' = IF first_node = NULL THEN n ELSE first_node
     /\ live' = live \cup {n}
     /\ chain' = Append(chain, n)

ListAdd(pair) == /\ list_loop = "idle" /\ ~ undefined
                 /\ push_back_list(pair)
                 /\ list_printed' = <<>>
                 /\ UNCHANGED <<list_loop, list_cmd, list_line, list_node, nodes, cut>>

\* A command of the other three is read, and its key if it has one.
ListCommand(c, key) == /\ list_loop = "idle" /\ ~ undefined
                       /\ c = "LIST_PASSWORDS" => key = list_line
                       /\ list_cmd' = c
                       /\ list_line' = key
                       /\ list_loop' = "walking"
                       /\ list_node' = first_node
                       /\ list_printed' = <<>>
                       /\ UNCHANGED <<first_node, last_node, memory, live, undefined,
                                      nodes, chain, cut>>

\* What the command says of a node it meets: does it print, does it drop it?
Printing(n) == list_cmd = "LIST_PASSWORDS" \/ memory[n].data.first = list_line
Dropping(n) == list_cmd = "REMOVE_PASSWORD" /\ memory[n].data.first = list_line

\* Mutant: last_node is left where it is.
LastWithout_Stays(n) == last_node

\* last_node when n is to be deleted: the node before, though it may match too.
LastWithout(n) == IF last_node = n THEN memory[n].prev_node ELSE last_node

\* rm notes a match: first_node and last_node leave it, its links stay.
NoteMatch(n) ==
  /\ first_node' = IF first_node = n THEN memory[n].next_node ELSE first_node
  /\ last_node' = LastWithout(n)
  /\ nodes' = Append(nodes, n)
  /\ cut' = (cut \/ (memory[n].next_node = NULL /\ memory[n].prev_node \in ToSet(nodes)))

\* One turn of the loop over the list.
Meet == /\ list_loop = "walking"
        /\ list_node # NULL
        /\ list_printed' = IF Printing(list_node)
                           THEN Append(list_printed, memory[list_node].data)
                           ELSE list_printed
        /\ IF Dropping(list_node) THEN NoteMatch(list_node)
                                  ELSE UNCHANGED <<first_node, last_node, nodes, cut>>
        /\ list_node' = memory[list_node].next_node
        /\ UNCHANGED <<memory, live, undefined, list_loop, list_cmd, list_line, chain>>

MeetDone == /\ list_loop = "walking"
            /\ list_node = NULL
            /\ list_loop' = IF list_cmd = "REMOVE_PASSWORD" THEN "deleting" ELSE "idle"
            /\ UNCHANGED <<first_node, last_node, memory, live, undefined, list_cmd,
                           list_line, list_node, nodes, list_printed, chain, cut>>

\* Mutant: the node behind keeps its link to the deleted one.
delete_node_OneWay(n) ==
  LET prev == memory[n].prev_node
      next == memory[n].next_node
  IN [IF prev = NULL THEN memory ELSE [memory EXCEPT ![prev].next_node = next]
        EXCEPT ![n] = FreeContent]

\* The memory after the neighbours of n were linked to each other and n freed.
delete_node(n) ==
  LET prev == memory[n].prev_node
      next == memory[n].next_node
      linked == IF prev = NULL THEN memory ELSE [memory EXCEPT ![prev].next_node = next]
      unlinked == IF next = NULL THEN linked ELSE [linked EXCEPT ![next].prev_node = prev]
  IN [unlinked EXCEPT ![n] = FreeContent]

\* One call of for_each(nodes, delete_node).
Delete == /\ list_loop = "deleting"
          /\ nodes # <<>>
          /\ memory' = delete_node(Head(nodes))
          /\ live' = live \ {Head(nodes)}
          /\ nodes' = Tail(nodes)
          /\ chain' = RemoveAt(chain, CHOOSE i \in DOMAIN chain : chain[i] = Head(nodes))
          /\ UNCHANGED <<first_node, last_node, undefined, list_loop, list_cmd, list_line,
                         list_node, list_printed, cut>>

DeleteDone == /\ list_loop = "deleting"
              /\ nodes = <<>>
              /\ list_loop' = "idle"
              /\ UNCHANGED <<first_node, last_node, memory, live, undefined, list_cmd,
                             list_line, list_node, nodes, list_printed, chain, cut>>

ListNext == \/ \E pair \in Pair : ListAdd(pair)
            \/ \E c \in Command, key \in Key : ListCommand(c, key)
            \/ Meet \/ MeetDone \/ Delete \/ DeleteDone

ListSpec == ListInit /\ [][ListNext]_listVars
-----------------------------------------------------------------------------
\* Where the nodes stand in the chain that no rm has noted for deleting.
Staying == {i \in DOMAIN chain : chain[i] \notin ToSet(nodes)}

\* Until something undefined happened, the links are sound at every turn of every
\* loop: they lead through the live nodes in the order they were added, forth from
\* the first one that stays and back again, so no node is lost, none is met twice
\* and no walk reads a freed one.
ChainSound == ~ undefined =>
  /\ ToSet(chain) = live /\ IsInjective(chain)
  /\ first_node = IF Staying = {} THEN NULL ELSE chain[Min(Staying)]
  /\ \A i \in DOMAIN chain :
       /\ memory[chain[i]].next_node = IF i = Len(chain) THEN NULL ELSE chain[i + 1]
       /\ memory[chain[i]].prev_node = IF i = 1 THEN NULL ELSE chain[i - 1]

\* last_node is the end of the list, until an rm takes the last two nodes of it
\* at once: then, and only then, it points to a node that is freed or will be.
LastNodeExact == ~ undefined =>
  IF cut THEN last_node \notin {chain[i] : i \in Staying} \cup {NULL}
         ELSE last_node = IF Staying = {} THEN NULL ELSE chain[Max(Staying)]

\* The pairs of the chain; where it has what the command will keep, and what it
\* will still print.
Data == [i \in DOMAIN chain |-> memory[chain[i]].data]
Remaining == {i \in DOMAIN chain : list_loop = "idle" \/ ~ Dropping(chain[i])}
Ahead == {i \in DOMAIN chain : /\ \E j \in 1..i : chain[j] = list_node
                               /\ Printing(chain[i])}

\* The pairs the list stands for, and what the command has printed and will have.
ListPairs == Picked(Data, Remaining)
ListShown == list_printed \o Picked(Data, Ahead)

ListBook == INSTANCE PasswordBook WITH pairs <- ListPairs, shown <- ListShown

\* The list implements the password book until something undefined happens, taking
\* the step of a command when the command starts: what its walk prints and deletes
\* through the links is what it should.
ListIsBook == ListBook!BookInit /\
  [][~ undefined' => [ListBook!BookNext]_(ListBook!bookVars)]_listVars

\* "push_back_list() - appends a new node to the tail": the node that was the end
\* leads to the one that was added.
AddsToTail == [][\A pair \in Pair : ListAdd(pair) =>
  (chain # <<>> => memory'[Last(chain)].next_node = Last(chain'))]_listVars
=============================================================================
