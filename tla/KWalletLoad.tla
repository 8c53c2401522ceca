---------------------------- MODULE KWalletLoad ----------------------------
(***************************************************************************)
(* Loading and unloading of a wallet driver, with programs that open its   *)
(* file, call it and close it meanwhile.  kwallet_init registers one thing *)
(* after the other and undoes what it did when a step fails; kwallet_exit  *)
(* undoes all, the last first.  What keeps a driver in memory while it is  *)
(* used is the kernel's: a reference of every open file to the .owner of   *)
(* the char devices, and a removal of the /proc or /sys file that waits    *)
(* for the calls in progress.  The client of the ioctl driver builds its   *)
(* command numbers from the major number, as the driver does.              *)
(***************************************************************************)
EXTENDS Naturals, Sequences, SequencesExt

CONSTANTS File, Major, None

ASSUME LoadAssumption == Major \subseteq Nat /\ None \notin Nat

\* What kwallet_init of each driver registers, in this order.
Device == <<"region", "cdev", "class", "device">>
Ladder == [dev |-> Device, ioctl |-> Device, proc |-> <<"proc_entry">>,
           sys |-> <<"kobject", "bin_file">>]

VARIABLES driver,           \* which driver is loaded, or was last
          module,           \* its state as the kernel has it
          at,               \* the step its init or exit is at
          registered,       \* what it has registered
          major, magic,     \* the device's number; the commands' byte made of it
          file,             \* what a program has of the driver's file
          states,           \* files with a kwallet_file_state
          cli_magic         \* the byte the client has made its commands with

load_vars == <<driver, module, at, registered, major, magic, file, states, cli_magic>>

steps == Ladder[driver]
IsChar == driver \in {"dev", "ioctl"}

LoadInit == /\ driver = "dev"
            /\ module = "absent" /\ at = 0
            /\ registered = {}
            /\ major = None /\ magic = None
            /\ file = [f \in File |-> "closed"]
            /\ states = {}
            /\ cli_magic = [f \in File |-> None]

\* One driver at a time: those of hw3 and hw5 have one name, and those of /proc
\* and /sys share nothing with them or with each other.
Insmod == /\ module = "absent"
          /\ driver' \in DOMAIN Ladder
          /\ module' = "coming" /\ at' = 1
          /\ UNCHANGED <<registered, major, magic, file, states, cli_magic>>

\* The byte of a command number.
Magic(m) == m % 256

\* Mutant: the commands are built last, when the device can be opened already.
BuildsAt_Last == Len(Device) + 1

\* The ioctl driver builds its commands between the region and cdev_add.
BuildsAt == 2
MustBuild == driver = "ioctl" /\ at = BuildsAt /\ magic = None

build_ioctl_cmd == /\ module = "coming" /\ MustBuild
                   /\ magic' = Magic(major)
                   /\ UNCHANGED <<driver, module, at, registered, major, file, states, cli_magic>>

\* A step of kwallet_init that succeeds; device_create's failure is not seen.
Register == /\ module = "coming" /\ ~ MustBuild
            /\ at <= Len(steps)
            /\ \/ registered' = registered \cup {steps[at]}
               \/ steps[at] = "device" /\ UNCHANGED registered
            /\ major' \in IF steps[at] = "region" THEN Major ELSE {major}
            /\ at' = at + 1
            /\ UNCHANGED <<driver, module, magic, file, states, cli_magic>>

\* Mutant: a class_create that fails goes to err_reg instead of err_cdev.
ErrorExit_Skips(k) == IF steps[k] = "class" THEN 1 ELSE k - 1

\* The label a failed step goes to: what was registered before it is undone.
ErrorExit(k) == k - 1

RegisterFails == /\ module = "coming" /\ ~ MustBuild
                 /\ at <= Len(steps) /\ steps[at] # "device"
                 /\ module' = "failing" /\ at' = ErrorExit(at)
                 /\ UNCHANGED <<driver, registered, major, magic, file, states, cli_magic>>

InitReturns == /\ module = "coming" /\ ~ MustBuild
               /\ at > Len(steps)
               /\ module' = "live"
               /\ UNCHANGED <<driver, at, registered, major, magic, file, states, cli_magic>>

\* Mutant: file_operations without .owner: open files do not count.
Pinned_Never == FALSE

\* An open file of a char device holds its module.
Pinned == IsChar /\ \E f \in File : file[f] \in {"open", "calling"}

Rmmod == /\ module = "live" /\ ~ Pinned
         /\ module' = "going" /\ at' = Len(steps)
         /\ UNCHANGED <<driver, registered, major, magic, file, states, cli_magic>>

\* A file of /proc or /sys that is about to be removed, which lets no call begin.
Removing == /\ module \in {"failing", "going"} /\ at > 0
            /\ steps[at] \in {"proc_entry", "bin_file"}

\* Undo the step the exit or the error path is at.  Files of an entry that is
\* removed are dead: the kernel has released them and lets no call through.
Undo == /\ module \in {"failing", "going"} /\ at > 0
        /\ IF Removing
           THEN /\ \A f \in File : file[f] # "calling"
                /\ file' = [f \in File |-> IF file[f] = "open" THEN "dead" ELSE file[f]]
                /\ states' = {}
           ELSE UNCHANGED <<file, states>>
        /\ registered' = registered \ {steps[at]}
        /\ at' = at - 1
        /\ UNCHANGED <<driver, module, major, magic, cli_magic>>

\* The module's memory is freed.
Gone == /\ module \in {"failing", "going"} /\ at = 0
        /\ module' = "absent"
        /\ major' = None /\ magic' = None
        /\ UNCHANGED <<driver, at, registered, file, states, cli_magic>>
-----------------------------------------------------------------------------
\* The path is there, and the module may be referred to.
Reachable == /\ Last(steps) \in registered /\ ~ Removing
             /\ IsChar => module \in {"coming", "live"}

\* kwallet_open: /dev and /proc keep a state for each file, if there is memory.
kwallet_open(f) == /\ file[f] = "closed" /\ Reachable
                   /\ file' = [file EXCEPT ![f] = "open"]
                   /\ states' = IF driver \in {"dev", "proc"} THEN states \cup {f} ELSE states
                   /\ UNCHANGED <<driver, module, at, registered, major, magic, cli_magic>>

\* main() of the client: the device's number from fstat().
CliBuild(f) == /\ file[f] = "open" /\ driver = "ioctl" /\ cli_magic[f] = None
               /\ cli_magic' = [cli_magic EXCEPT ![f] = Magic(major)]
               /\ UNCHANGED <<driver, module, at, registered, major, magic, file, states>>

\* read(), write() or ioctl() of an open file.
Call(f) == /\ file[f] = "open" /\ ~ Removing
           /\ driver = "ioctl" => cli_magic[f] # None
           /\ file' = [file EXCEPT ![f] = "calling"]
           /\ UNCHANGED <<driver, module, at, registered, major, magic, states, cli_magic>>

Return(f) == /\ file[f] = "calling"
             /\ file' = [file EXCEPT ![f] = "open"]
             /\ UNCHANGED <<driver, module, at, registered, major, magic, states, cli_magic>>

\* kwallet_release, at close() or at the end of the program.
kwallet_release(f) == /\ file[f] = "open"
                      /\ file' = [file EXCEPT ![f] = "closed"]
                      /\ states' = states \ {f}
                      /\ cli_magic' = [cli_magic EXCEPT ![f] = None]
                      /\ UNCHANGED <<driver, module, at, registered, major, magic>>

CloseDead(f) == /\ file[f] = "dead"
                /\ file' = [file EXCEPT ![f] = "closed"]
                /\ UNCHANGED <<driver, module, at, registered, major, magic, states, cli_magic>>

ModuleNext == \/ Insmod \/ build_ioctl_cmd \/ Register \/ RegisterFails \/ InitReturns
              \/ Rmmod \/ Undo \/ Gone

LoadNext == \/ ModuleNext
            \/ \E f \in File : \/ kwallet_open(f) \/ CliBuild(f) \/ Call(f) \/ Return(f)
                               \/ kwallet_release(f) \/ CloseDead(f)
-----------------------------------------------------------------------------
\* A module that is not there, because it was unloaded or its init failed half
\* way, has left nothing: no registration and no state of a file.
NothingLeft == module = "absent" => registered = {} /\ states = {}

\* While a program can call the driver, everything it registered is there, and
\* the module is in memory: the path appears last, and no unload overtakes a
\* call.
UseIsSafe == \A f \in File : file[f] \in {"open", "calling"} =>
  /\ module \in {"coming", "live", "going"}
  /\ registered = ToSet(steps)

\* A request carries the command numbers that the driver of this load has, after
\* any number of reloads with other majors.
CommandsAgree == \A f \in File :
  driver = "ioctl" /\ file[f] = "calling" => cli_magic[f] = magic
=============================================================================
