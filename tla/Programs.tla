------------------------------ MODULE Programs ------------------------------
(***************************************************************************)
(* The smaller programs of the repository: the loading of a driver, the    *)
(* byte sorter, the file tool, the log rotator, the signal sender, and one *)
(* message of the socket chat in bytes.  They share nothing: a behaviour   *)
(* runs one of them.                                                       *)
(***************************************************************************)
EXTENDS KWalletLoad, ByteSorter, FileTool, LogRotator, SignalSender, CipherFrames

VARIABLE program            \* which of them runs

program_vars == <<program, load_vars, sort_vars, file_vars, rotator_vars, signal_vars,
                  cipher_vars>>

Init == /\ program \in {"load", "sort", "file", "rotate", "signal", "cipher"}
        /\ LoadInit /\ SortInit /\ FileInit /\ RotatorInit /\ SignalInit /\ CipherInit

\* A step of one program.
RunLoad == /\ program = "load" /\ LoadNext
           /\ UNCHANGED <<program, sort_vars, file_vars, rotator_vars, signal_vars, cipher_vars>>
RunSort == /\ program = "sort" /\ SortNext
           /\ UNCHANGED <<program, load_vars, file_vars, rotator_vars, signal_vars, cipher_vars>>
RunFile == /\ program = "file" /\ FileNext
           /\ UNCHANGED <<program, load_vars, sort_vars, rotator_vars, signal_vars, cipher_vars>>
RunRotator == /\ program = "rotate" /\ RotatorNext
              /\ UNCHANGED <<program, load_vars, sort_vars, file_vars, signal_vars, cipher_vars>>
RunSignal == /\ program = "signal" /\ SignalNext
             /\ UNCHANGED <<program, load_vars, sort_vars, file_vars, rotator_vars, cipher_vars>>
RunCipher == /\ program = "cipher" /\ CipherNext
             /\ UNCHANGED <<program, load_vars, sort_vars, file_vars, rotator_vars, signal_vars>>

Next == RunLoad \/ RunSort \/ RunFile \/ RunRotator \/ RunSignal \/ RunCipher

\* The parent of the signal sender goes on: it never waits for its child.
ParentGoesOn == RunSignal /\ (Send \/ KillChild)

Spec == Init /\ [][Next]_program_vars /\ WF_program_vars(ParentGoesOn)
=============================================================================
