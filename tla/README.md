# A verification project for sys_prog_iu4

TLA+ models, TLC runs and TLAPS proofs for the programs of this repository. The repository is
a collection of system programming exercises; what they have in common is little, and the part
with the most logic of its own is the *wallet*: a kernel module that keeps (key, private key)
pairs, in four versions that differ in how user space talks to it. The project starts there, and
goes on to the two chats, over pipes and over a socket, the password manager, and the smaller
programs: the sorter, the file tool, the log rotators and the signal sender.

`PROJECT.json` lists the components, the runs, the mutants, the source lines each definition
models, the findings, the hazards and the theorems.

## 1. Inventory

### The wallet (`2_semester/hw3`, `hw4`, `hw5`)

All four drivers hold the same table code: `wallet_table[100]` of `{key_id[32], priv_key[64],
creation_id}`, the counter `wallet_next_cid`, the mutex `wallet_lock`, and six commands.

| command | effect | refused with |
|---|---|---|
| CREATE k p | first free slot gets k, p and the next id | EINVAL, EEXIST, ENOSPC |
| READ k | - | EINVAL, ENOENT |
| READALL | prints the table into a buffer | - |
| CHANGE k old new | replaces the private key if old matches | EINVAL, ENOENT, EPERM |
| DELETE k | frees the slot; ids restart when the table is empty | EINVAL, ENOENT |
| DELETEALL | frees every slot; ids restart | - |

| driver | state it adds | operations | how the answer gets back |
|---|---|---|---|
| `hw3/kwallet.c`, /dev/kwallet | `pending_response`, `response_ready`, `response_lock`; per file `response_consumed` | open, release, write, read | a success is stored, to be read once per file; a failure is write()'s return value |
| `hw4/kwallet_proc.c`, /proc/kwallet | `global_response`, `response_ready`, `response_lock`; per file `consumed` | open, release, write, read | successes and failures are stored, write() always succeeds; read() copies *after* it released the lock |
| `hw4/kwallet_sys.c`, /sys/kwallet/kwallet | `global_response`, `response_ready`, `response_lock`; the offset sysfs keeps | write, read | as /proc, but read() copies under the lock and from the offset, any number of times |
| `hw5/kwallet.c`, ioctl | none | ioctl | in the request structure; one call, all of it under `wallet_lock` |

The clients are `kwallet_cli.py` (write, close, open, read) for the first three and
`hw5/kwallet_cli.c` (fills in a request structure, one ioctl) for the last.

What is hard: files are used concurrently, the command and the storing of its answer run under
*two different* mutexes one after the other, there is *one* response for all clients, error
paths leave through a shared label, copies to the user can fail after the command was done,
words are cut on the way into the table but not when they are looked up, and listings are cut
to the buffer.

What makes them correct: the table is a bounded map from keys to private keys; a command is
atomic, whatever the interleaving, and is answered once; locks are free after every exit; an
answer that is read is one command's answer, whole; a refused call has no effect, a failed copy
leaves exactly the effect of its command; every write() returns. A module is loaded and unloaded
(`kwallet_init` and its goto ladder, `kwallet_exit`) while programs hold its file: an init that
fails half way leaves nothing, a call finds all that was registered, and the ioctl client, which
builds its command numbers from the major number as the driver does, agrees with the driver
after any reload.

### The other programs

| component | state | operations | hard behaviour | what would make it correct |
|---|---|---|---|---|
| pipe chat, `hw1_task2` | a buffer per process, two pipes | over named pipes: open, poll, read frames, write frame, hang up; over unnamed ones: fork, handlers, the child that sends back what it is sent | several frames in one read, a full pipe, a hang-up together with data, two processes that wait for room in each other's pipe | what is typed on one side is printed on the other, in order, once; a hang-up is seen, after the data; nobody waits for ever |
| socket chat, `hw1_task3` | a socket, key file, buffer | key file, connect or bind, accept, poll, frames, encrypt/decrypt | peers starting together, a third peer, hang-up together with data, the path that outlives its listener, padding that makes a frame longer than its buffer | as above; all peers have one key; a listener keeps the path |
| signal sender, `hw1_task1` | a child with handlers, pending signals | fork, install handlers, send signals, CTRL+C, SIGKILL | the signals race the installing; stop signals and SIGCONT cancel each other | a child that is in time prints every signal; every child ends |
| password manager, `1_semester/hw6` | a linked list or a growing stack of pairs | add, rm, list, find | several matches of one rm, first and last node, growth; every command takes the stack apart and puts it together | both are one sequence of pairs; links sound, no write beyond a buffer |
| byte sorter, `1_semester/hw7` | a buffer that doubles, indices | open, read, heapify, sort, write | index bounds, bytes above 127, the input file as output | sorted, and a permutation |
| file tool, `1_semester/hw5` | a path | create, delete | check, then act | data is lost in a race only |
| log rotator, `1_semester/hw2`, two scripts | an archive directory, a log | copy, tar, compress, clean up, empty the log | an end at any step, two runs in a second, lines logged meanwhile | a line is in the log or in an archive unless the policy dropped it; no more than n archives, the newest among them |
| timer and process hiding, `group_task` | a counter, a kernel thread | load, show, store, unload | - | not modelled, see 5 |
| hello world modules, exercise scripts, CI | none | - | - | - |

## 2. Modules

| module | models | composes |
|---|---|---|
| `WalletReply` | the replies, one record per kind of line | |
| `WalletMap` | the abstract wallet: a set of entries, the last id, the answers not yet returned. No slots, no order, no counter | `WalletReply` |
| `WalletTable` | the table code: helpers, the six commands with each of their exits, `TableSpec` with a command as one step | `WalletReply`; `WalletMap` by INSTANCE |
| `WalletWrite` | `kwallet_write` up to the release of `wallet_lock`: parse, lock, search, execute, unlock | `WalletTable` |
| `KWalletDev` | the char device: open, release, write, read | `WalletWrite` |
| `KWalletDevLast` | the same with a history variable, for one question | `KWalletDev` |
| `WalletRespond` | the rest of `kwallet_write` of /proc and /sys: storing the answer under `response_lock`, unit by unit | `WalletWrite` |
| `KWalletProc` | /proc/kwallet: open, release, write, read with its unlocked copy | `WalletRespond` |
| `KWalletSys` | /sys/kwallet/kwallet: write, read from an offset | `WalletRespond` |
| `KWalletIoctl` | the ioctl handler and the requests of its client | `WalletTable`; `WalletMap` by INSTANCE |
| `PasswordPair` | a pair of strings, the commands over all pairs, and picking pairs of a sequence by their positions | |
| `PasswordBook` | the abstract password manager: a sequence of pairs, what the last command showed | `PasswordPair` |
| `PasswordStack` | `stack.c` and `run_stack`: pairs and capacity of both stacks, each turn of the loops a step | `PasswordPair`; `PasswordBook` by INSTANCE |
| `PasswordList` | `list.c` and `run_list`: nodes as memory, first and last node, links, what was freed, each turn of the loops a step | `PasswordPair`; `PasswordBook` by INSTANCE |
| `PasswordManager` | `main()`: one of the containers | `PasswordStack`, `PasswordList` |
| `ChatFrames` | what both chats put on the wire, and what their loops make of a buffer | |
| `PipeChat` | `run_named_pipe`, two peers | `ChatFrames` |
| `UnnamedPipes` | `run_unnamed_pipes`: parent, child, handlers, writes that wait | `PipeChat` |
| `PipeProgram` | `run`: the program over either kind of pipe, and its fairness | `UnnamedPipes` |
| `SocketChat` | `crypto_options_create`, `create_sock`, `run_data_transfer`, `close_sock`, any number of peers | `ChatFrames` |
| `CipherFrames` | one message of the socket chat in bytes: `string_create`, `encrypt_data`, the frame, the reader's loop, `decrypt_data` | |
| `KWalletLoad` | `kwallet_init` and `kwallet_exit` of the four drivers, the kernel's reference counts, programs that open, call and close | |
| `ByteSorter` | `main`, `run`, `sort`, `heapify` | |
| `FileTool` | `run_create`, `run_delete`, for several users of a path | |
| `LogRotator` | `script.sh` and `stepa_script.sh` | |
| `SignalSender` | `run`, `parent_process`, `child_process`, `signal_handler`, and what the kernel does with a signal | |
| `Programs` | one of the last six in each behaviour, so that a single run checks them | `KWalletLoad`, `ByteSorter`, `FileTool`, `LogRotator`, `SignalSender`, `CipherFrames` |
| `MC...` | the bounds of the runs | one each |
| `WalletTableProofs` | theorems of the table, and the lemmas about the writing half of the text drivers | `WalletWrite` |
| `KWalletDevProofs`, `WalletRespondProofs`, `KWalletIoctlProofs` | theorems of the char device, of /proc and /sys, and of the ioctl driver | the module they are about, `WalletTableProofs` or the table's lemmas |
| `ChatFramesProofs` | lemmas about streams of frames, what a read takes of them and what is printed of it | `ChatFrames` |
| `PipeChatProofs`, `SocketChatProofs` | theorems of the chats | `ChatFramesProofs` and the chat |
| `ProgramsProofs` | theorems of the smaller programs and of both containers of the password manager | `Programs`, `PasswordStack`, `PasswordList` |

How state and code correspond. `wallet_table`, `wallet_next_cid`, `wallet_lock`,
`pending_response`, `response_ready`, `global_response`, `response_lock` are the globals of
those names. `file` is `filp` with its `private_data`; `full_reply`, `total_len`, `cmd`, `idx`
are the locals of those names, one per call in progress; `reply` is `reply` or `ret` of the
call; `pc` is where the call is. `given`, `solo`, `solo_reply`, `undisturbed`, `sources`,
`got`, `eof`, `last_reply` are history: no guard of the code's steps reads them.

What is abstracted. Words are model values and never spelled: a word is a key, a private key or
empty. What `strscpy` keeps of a key in `key_id[32]` is the function `Truncated`, so that a word
that is looked up whole and stored cut is two different keys, as in the code. Private keys fit
their field. A printed line has the length `LINE_LEN`; a listing is the set of entries printed
whole and whether it was cut. A line the parser rejects is `"malformed"`. A blank line leaves
`cmd[]` uninitialised: it acts as one of the lines without arguments. Lines too long and
unreadable user memory return before any state is touched and are no step. The responses of
/proc and /sys are two units (`Unit`), enough for a reader to meet a writer between them; a short
line has its NUL in the second. Ids stop at `MAX_CID`; the code's `int` is not wrapped.
A client is one open file with at most one call in progress, so two concurrent calls are calls
of two clients.

In the chats a stream is a sequence of units and a frame takes one or more of them; a read() takes
`READ_UNITS` at most, so that it may return a frame, several, or several and a piece. A frame
that starts a buffer is whole in it: the code asserts that a message fits one. The loop prints the
first frame of a buffer and then clears the buffer it is walking through; what it makes of the
zeros, and of a text taken for a length, is nothing, `Garbage`, or the end of the program
(`Decoded`, `MayCrash`). Write of a frame is whole or, in a full pipe, not at all (frames of 4097
to 4099 bytes, which the kernel may split, are left out; encrypted ones longer than the buffer are
in `CipherFrames`). Over unnamed pipes, where only the read ends are non-blocking, `WriteThen`
waits for room instead, and ends with SIGPIPE when the reader is gone. What the user of the parent
types is one of the sequences in `Dialog`. An empty line, which is also what the end of stdin gives again and again, is one of
the messages. `Kill` is the end of a program for any reason outside the loop. In `SocketChat` each
system call of start and end is a step; `rand()` seeded with the second gives any of `CryptoKey`;
the permissions of a file created without a mode are either readable or not. Decrypting with
another key yields `Garbage`. `sent`, `raced` (and `paced`, `how` in `PipeChat`) are history;
`sent` and `typed` also carry the bound on lines.

`CipherFrames` has the sizes that `ChatFrames` abstracts: one message, alone in the socket, both
peers with one key. The cipher works, or one of its two calls fails. In `KWalletLoad` an init or exit
is a step per registration; the device path is the one `device_create` makes (no mknod); the
driver's commands are a step of their own between the region and `cdev_add`. The kernel's part is
marked external: a char device's open files hold its module (`.owner`), the removal of a /proc or
/sys file waits for calls in progress. In `SignalSender` the numbers below `N_OF_SIGNALS` have a
default each (`Default`), pending signals are a set, and a signal is looked up when it is
delivered; deliveries in any order, since they nest. `ByteSorter` has C's indices; the recursion
of `heapify` is its last call and so a loop. `LogRotator` has the log as a set of lines and an
entry of the directory as a time, a kind (copy, tar or archive, in the order of their names) and
lines; `Stop` at any step stands for a command that fails under `set -e` and for a killed script;
runs do not overlap and the clock is not set back. `late`, `since_copy`, `dropped`, `early`,
`discarded`, `overtaken` are history.

In the password manager the size of everything is counted in pairs, which all have the size of two
pointers. The loops over either container are a step per turn. The list's three commands share
the walk (`Meet`), which prints, and for rm moves `first_node` and `last_node` and notes the match
in `nodes`; `Delete` is one call of `delete_node` afterwards. `list_node`, `nodes` are the locals
`node`, `nodes`; `chain` (the live nodes in the order they were added) and `cut` (an rm took the
last two) are history. Memory is the set `Node`; free() leaves
`FreeContent`. A write through a freed `last_node` sets `undefined`, and the model stops there. A
line that names no command changes nothing; an add without a value and an end of input inside a
command are left out.

Granularity. In `WalletTable` and `KWalletIoctl` a command is one step: the ioctl handler holds
`wallet_lock` from its first line to its last. In `WalletWrite` it is two, the search and the
use of what was found, with `wallet_lock` modelled, so that it is the lock that makes a command
atomic and the refinement of `TableSpec` says something. Storing a response is one step where
every reader holds the lock (`KWalletDev`), and two where one does not.

## 3. Runs

| run | bounds | states | question |
|---|---|---|---|
| `table` | 3 slots, 3 keys (one cut to another), 2 private keys, 1 caller, 5 ids, 3 buffers | 7 thousand | does the table code implement the abstract wallet? |
| `dev` | 2 files, 1 slot, 2 keys, 1 private key, 2 ids | 325 thousand | interleavings of two files: atomicity, one response per open, liveness of write() |
| `dev_last` | as `dev` | violated | is it the last command's response that is read? |
| `proc` | as `dev`, 2 private keys | 603 thousand | undisturbed reads, a client on its own, CHANGE's check of the old key |
| `proc_torn` | as `dev` | violated | is a read of one response? |
| `sys` | as `dev` | 90 thousand | reading in pieces |
| `ioctl` | 2 slots, 3 words (two keys), 2 private keys, 2 callers, 3 ids, 3 buffers and size 0 | 495 thousand | refusals, faults, truncated listings, the exact map |
| `passwords` | 4 pairs, 2 keys, 2 values, first buffer for 2 pairs | 22 thousand | do both containers implement the password book? are buffers and links sound? |
| `passwords_tail` | as `passwords` | violated | is an added pair at the tail? |
| `pipe_chat` | 2 peers, 3 lines of one and 1 of the other, or a dialog of 6 lines with a child; frames of 1 and 2 units, reads of 2, pipes of 4 | 109 thousand | order, loss, draining, hang-up seen; two writers that wait for room, an orphan |
| `socket_chat` | 3 peers, 2 lines each, 2 keys, frames of 1 and 2 units, reads of 2 | 3.4 million | one key, no foreign messages, who may take the path |
| `programs` | 4 drivers, 2 files, majors 240 and 511; inputs of up to 7 bytes of {1, 127, 200}, first buffer of 2; 2 users of a path; 2 lines, 3 seconds, 1 or 2 archives; 9 signals, one of each default at least; texts of 1 to 34 and 4060 to 4100 bytes | 1.2 million | see the properties of each module |

Why the bounds are enough to be interesting. Three slots let a freed slot lie before, between or
behind occupied ones, and five ids let the counter restart while the table is refilled. One slot and two keys
make two writers race both for the slot and for a key. Two files are the writer and the reader
of every hazard listed; a third would repeat one of them. Buffers are too small for one line,
for two, and large enough. What depends on more clients, slots or keys is what the theorems are
for. Four pairs let a match of rm be first, last, in the middle and next to another, and let both
stacks double twice. Seven bytes are a heap of three levels, and make the buffer double twice;
majors 240 and 511 differ in their low byte, which is what a command number has of them; three
seconds have two runs in one of them and a third later. A read of two units returns one short message and a piece of a long one,
after which a stream is no longer framed; a pipe of four is full after three messages. A third
peer of the socket chat can connect, bind or unlink between any two steps of the other two. Private keys, keys without a cut and callers are interchangeable and declared symmetric in
runs without liveness.

`CHECK_DEADLOCK FALSE` stands in the drivers' configurations because every id may be used up
while no client has anything left to do that the bound allows; in the chats' because every
peer may have ended; in `programs` because programs come to their end; in the password manager's because the model stops at a write to freed memory.

Fairness, used by `WriteReturns` in the char device. Weak fairness of the steps inside a call: a call that
runs and waits for nothing is scheduled again. Strong fairness of `mutex_lock(&wallet_lock)`:
the kernel queues the waiters of a mutex, so that one who asks again and again while the mutex
is released again and again gets it. No fairness of opening, writing or reading: users need not do anything.
Used by `HangUpIsSeen` in the pipe chat: weak fairness of the loop of each peer, which is a
program that is scheduled and whose poll() returns when there is an event. Nobody has to type,
to open a pipe, or to end. Used by `WriteComesBack` and `OrphanEnds`: weak fairness of the loop of
the parent and of that of the child. Used by `ChildEnds`: weak fairness of the parent's
loop and its last kill (`ParentGoesOn`), which waits for nothing but time; none of the child.

### What the runs show beyond passing

* `dev_last`: a command of the char device that fails stores nothing, so that a reader is given
  the response of an older command; the header promises that of the last. Two writers whose
  stores overtake each other do the same.
* `proc_torn`: a read of /proc can mix two responses, since it copies from the shared buffer
  after it released the lock. `UndisturbedRead` says when it does not.
* `CutIsTold`: a listing that does not fit its buffer returns success with an `out_len` beyond
  the buffer, which the field's comment ("bytes written", `hw5/kwallet.c:68`) does not tell. What a
  caller can rely on is that an `out_len` below the size of the buffer means the listing is whole.
* `FaultIsCommit`: EFAULT does not tell a caller whether its command was done. It was done whole, in
  every slot and in the counter of ids, or nothing was; there is nothing in between.
* `OldKeyKnown` says of CHANGE what `WalletMap` leaves open: the map's `Change` does not fix which
  old private key the caller named, the property compares the one in `cmd` with the one replaced.
* `passwords_tail`: add a pair twice and remove it by its key: the last node *and* the one before
  it match, `last_node` is left on a freed node, and the next add is linked to that instead of to
  the list. `LastNodeExact` says that this is the only way for it to go wrong, and
  `ListIsBook` that up to that write every command does what the stack would do.
* `PacedIsWhole` and `PrintedInOrder` of the pipe chat say together what the framing loop is good
  for: messages are never doubled or swapped; they are lost only when one is sent while another
  one waits in the pipe.
* `DrainedAtHangUp` depends on the reset of `revents` after a read, which looks like a slip:
  it is what keeps a peer from leaving with data in the pipe. The socket chat looks for the
  hang-up first, and may lose the last message.
* `KeysAgree`: whichever peers start together, those that survive the assertions have one key.
  `PathIsTakenInRace`: the unlink() in `create_sock` takes the path of a living listener only if
  its caller had tried to connect before that one listened.
* Long keys are created again and again (`Plain` in `PlainKeysUnique` is what it takes to be
  unique in the text drivers); in the ioctl version the client cuts the word first, and
  `ExactMap` holds without exception.
* `WriteComesBack` depends on the size of a pipe: the parent reads its pipe between any two lines it
  writes, and the child answers one message per buffer. With a pipe of less than two buffers
  (3 units here) both wait for ever; 64 KiB against 4 KiB is far from that.
* `ChildEnds` excepts a CTRL+C: the parent is ended by it, the child has a handler for it, as for
  every other signal, and stays. The option `--duration` invites the user to press it
  (`hw1_task1/src/main.cpp:32`).
* `PromptChildMisses`: a child in time does not print every signal. With a duration of 0 SIGKILL
  follows the last signal at once, and what is pending then is lost; and a SIGCONT that was not
  taken when SIGTSTP is sent is discarded. It misses nothing else; a child that is late may be ended
  or stopped instead.
* `CleanTransfer`: the texts of 4080 to 4091 bytes, which `string_create` lets through, are padded to
  a frame longer than the buffer; all others arrive as they were typed. When the cipher fails,
  "(null)" is printed for every eight bytes of the frame.
* `LinesAreKept`: since `set -e` ends a run whose archive is refused (two runs in a second), no line is
  lost but by the policy or because it was logged after the copy was made. `script.sh` counts what an
  ended run left in the directory as archives, so that fewer archives than `n_to_keep` may be
  left; `stepa_script.sh` does not, and does not remove it either.
* `OutputIsSorted` has an exception for a file that is sorted onto itself: it is emptied first.

## 4. Proofs

Every safety property of the passing runs is a theorem, for every value of the constants. The
constants have only the assumptions named in the modules:

* wallet: there is at least one slot; the empty word is no key, private key or client; cutting a key
  twice is cutting it once; lengths and buffer sizes are positive;
* chats: a frame has at most as many units as one read takes, a pipe holds what a read takes
  (64 KiB against 4 KiB), the garbage of a cleared buffer is no message; two peers have the pipes,
  any number of them the socket; no peer is `None`, no key says "absent" or "empty"; a typed text has
  at most 4100 bytes with its NUL;
* smaller programs: major numbers are numbers; the first buffers of the sorter and of the stack are
  not empty; `NULL` is no node of the list; SIGINT ends a program, and SIGCONT has a lower number
  than the stop signals, as on Linux.

The wallet:

| theorem | argument |
|---|---|
| `TypeCorrect`, `CidsCorrect`, `PlainKeysCorrect` | each invariant is inductive together with `TableTypeOK`. `CidInv` needs its three parts together: distinct ids follow from ids below the counter, and these from the counter restarting only in an empty table |
| `TableImplementsMap` | every command maps to the action of `WalletMap` of the same name or to a refusal; the freed, filled or changed slot maps to the one entry removed, added or replaced because `CidInv` makes entries of different slots different. `CREATE` into a free slot needs the number of entries to be the number of occupied slots (`StoreCardinality`) |
| `MutexCorrect` | `WriteInv`: types, `LockReleased`, `IndexStillValid`. Mutual exclusion is what keeps a search result valid, and each of the two is needed to preserve the other through `Search` |
| `DevTypeCorrect` | the types of the response and of the files, on top of `WriteInv` |
| `DevImplementsTable`, `DevImplementsMap` | a step of `Search` or `Execute` that answers is the atomic command of `WalletTable` (`CommandIsAtomic`), every other step changes nothing of the table; composed with `TableImplementsMap` |
| `OncePerOpenCorrect` | a file that was given bytes, or that copies, is marked |
| `WholeResponseCorrect` | a copy in progress is of a local that only the reader's own steps set, and these start and end a copy |
| `SuccessReadCorrect` | what is pending is a success once anything is ready, and a reader copies only what was pending |
| `ProcInvariant` | `RespondInv` says where a call of either driver is: who holds `response_lock` stores, has stored the first unit, and its reply is known; with the lock free the response is one line; nobody but the solo client writes, and the reply kept for it is its own. `ProcInv` adds that a copy nobody disturbed is of the response that is still there |
| `UndisturbedReadCorrect`, `ProcSoloAnswer` | from `ProcInv` at the end of the copy |
| `SysInvariant` | `SysInv` is `RespondInv` with two parts: a file was given as many units as its offset says (`GotInv`), and until a response is stored these are the head of the one that is there (`HeadInv`) |
| `ReadToEndCorrect`, `PieceIsOneCorrect`, `SysSoloAnswer` | from `SysInv`: at the end of the file the head is the whole; the copy is made under the lock, where nothing is half stored |
| `ProcImplementsMap`, `SysImplementsMap` | as the char device: storing and reading change nothing of the table |
| `ProcOldKeyKnown` | an entry changes its private key in `ChangeAt` only, which compares the old one |
| `IoctlInvariant`, `CutIsToldCorrect` | `IoctlInv`: types, `CidInv`, unique keys, and a reply that is the reply of its caller's request. That `out_len` tells a cut listing needs the last line end below a bound to exist (`MaxOfBounded`, by the least counterexample) |
| `RefusalCorrect` | every exit of the handler before the command, and every one inside it, leaves the table (`FailedCommand`) |
| `FaultCorrect` | a copy in that fails comes before anything is touched. A command that is not refused is the action of the exact wallet for the request's own key and private keys (`ExactRequest`), writes no slot but the one it searched for (`OneSlot`) and takes one id if it creates; its copy out comes after all of it (`CommandServed`, `ListedServed`) |
| `ExactMapCorrect` | the refinement of `TableImplementsMap` with keys that are cut before they are looked up: a word and its slot agree, so that no case of the abstract wallet has to be left open |
| `NothingLeftCorrect`, `UseIsSafeCorrect`, `CommandsAgreeCorrect` | `LoadInv`: what is registered is a beginning of the ladder, except a device that could not be created (`RegisteredInv`); a file in use has its last step, and holds the module of a char device but not that of a /proc or /sys file (`FileInUseInv`); command numbers are made of the major number of this load, and a client's only while it has the file open (`MagicInv`) |

The chats:

| theorem | argument |
|---|---|
| `PipeChatProofs!PrintedInOrderCorrect`, `SocketChatProofs!PrintedInOrderCorrect` | `OrderInv` says more than the property: what was printed *and the frames still in the pipe* together are some of what was sent, in its order (`InOrder(Through(printed, stream), sent)`). A write adds a frame to both ends (`WriteInOrder`); a read takes units from the stream and prints at most the first frame of them, so that the rest is thinned (`ReadInOrder`, `Thinned`). A stream may start in the middle of a frame, which `Through` leaves out. In the socket chat the order is of two peers that have each other, which a peer with a third one queued is not: `OrderInv` says that who has data to read has a partner that has it |
| `PacedIsWholeCorrect` | `PacedInv`: a paced pipe is empty or holds exactly one whole frame, whose message is the only one not printed |
| `DrainedAtHangUpCorrect` | `EventsInv`: events a peer was told of stay true until it acts on them, since nobody else reads its pipe and a hang-up is for good; `PipeInv` is the conjunction of the three with the types, `PipeInvariant` for both kinds of pipes |
| `KeysAgreeCorrect` | `KeyInv`: at most one peer is between creating and writing the file, which is empty then; who is past it has what the file has |
| `PathIsTakenInRaceCorrect` | `RaceInv`: who is about to bind or unlink has looked for the listener before it listened, or that one has lost the path for good |
| `CleanTransferCorrect` | inductive: what has been printed and what is left of the reader's buffer make up the frame (`LoopInv`); a padded message is a multiple of eight, so that the turns of a failing cipher come out even, and a frame never has exactly the size of the buffer |

The other programs:

| theorem | argument |
|---|---|
| `StackImplementsBook` | the book takes its step when the command is read: the pairs it keeps are what the stack will keep of itself, on top of what was put aside in reverse (`StackPairs`). A turn of a loop moves the top pair from one part to the other (`PickedTop`, `ReverseAppend`); `BookInv` adds to the types that nothing is put aside between commands |
| `SpareRoomCorrect` | inductive with the types of the stacks: the capacity after a push is above the size, since a buffer is at least doubled when it would be filled; emptying and refilling only move pairs |
| `ListInvariant`, `ChainSoundCorrect`, `LastNodeExactCorrect` | `ListInv` holds at every turn. `OnceEach`, `Linked`: the history `chain` has each live node once, and the links follow it both ways, so that what the code does to links is stated of neighbours and never of a walk. `NotedOnce`: the nodes noted are the matches the walk has passed, each once; with it a noted node is still live and linked when its turn comes. `FirstStays`, `LastStays`: `first_node` is the first that is not noted, since a walk from the front notes it only when all before it are; `last_node` is the last one unless `cut`, since it goes back by one when the very last matches, and that one may be noted already. `DeletedFrom` says what `delete_node` leaves of the links |
| `ListImplementsBook` | the book takes its step when the command is read; the pairs it keeps are those of the chain that rm does not drop, and what it shows is what was printed and what matches from `node` on. A turn of the walk prints the first of these (`PickedFirst`), a deleting moves the others up (`PickedMoved`). The write through a freed `last_node` is excepted, as in the property |
| `OutputIsSortedCorrect` | `SortInv`. `FilledInv`: the buffer is what was read, then holds each byte as often (`SwapCount`, a bijection). `HeapInv`: from the loop's node on there is a heap, but for the node that heapify sinks, whose children are not above its parent (`HeapBut`, kept by `SiftDown`); behind the heap is the sorted end, which the root joins because nothing in a heap is above its root (`RootIsLargest`, by the least counterexample). The buffer is never full when a byte is stored because its capacity is not 0 |
| `LinesAreKeptCorrect` | `RotatorInv`: at each step of a run the lines in the log, but for those since the copy, are in what the run has made so far; no name in the directory is later than this run's, so that the clean-up counts the new archive among the newest |
| `PromptChildMissesCorrect` | `SignalInv`: signals come in the order of their numbers, so that no stop signal is pending when SIGCONT is sent; as long as none was early every signal sent is handled, pending or discarded, and what was discarded unhandled is SIGCONT, for a stop signal that was sent |
| `OnlyRacesLoseDataCorrect` | what `access()` saw is so until another user acts, which is what `overtaken` records |

A theorem that a run's property does not name states an inductive invariant (`PipeInvariant`,
`IoctlInvariant`, `ProcInvariant`, `SysInvariant`, `LoadInvariant`, `ListInvariant`), or what the runs leave to the
proofs: `LockReleased`, `SuccessRead`, `WholeResponse` and the types. The larger ones were checked by TLC on
the bounds of section 3 before they were proved.

Only model-checked:

* liveness (`WriteReturns`, `HangUpIsSeen`, `WriteComesBack`, `OrphanEnds`, `ChildEnds`), which needs
  fairness and ENABLED;
* the runs that expect a violation.

## 5. Not modelled

* The datagram and raw protocols of the socket chat, which no test of the repository starts.
* Of the password manager what `main()` never calls, its serialisation among it; an add without a
  value.
* Two rotators that overlap, and a clock that is set back: names of archives are local times, which
  come twice at the end of daylight saving time.
* `fopen` and `malloc` that fail in the byte sorter, whose results nobody looks at; CTRL+Z in the signal
  sender; `printf` interrupted by a handler that prints, which POSIX leaves undefined
  (`hw1_task1/src/main_module.c:36`).
* `group_task`: a kernel thread that counts, and a probe that filters directory listings to conceal that
  thread's process. Concealment is left out on purpose, and the counter has nothing beside it.
* Modules that print a line, exercise scripts, build and clean-up scripts: no state.

## 6. Plan

Order of work, the most important behaviour first:

1. Done: the table, its abstract specification, the four drivers, the table's and the char
   device's proofs; the password manager against its book; the pipe chat over named pipes and
   the socket chat over the framing they share.
2. Done: loading and unloading of the drivers; the chat over unnamed pipes; the bytes of an
   encrypted message, with its theorem; the sorter, the file tool, the log rotators, the signal sender.
3. Done: theorems for every safety property of the drivers, the chats, the smaller programs and both
   containers of the password manager, each with its inductive invariant, and the refinements of
   the abstract wallet and of the password book.
4. Later: the datagram protocol of the socket chat.
