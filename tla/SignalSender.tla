---------------------------- MODULE SignalSender ----------------------------
(***************************************************************************)
(* The signal sender (2_semester/hw1_task1): a parent sends its child      *)
(* every signal in turn, while the child installs its handlers in the same *)
(* order, and SIGKILL in the end.  The kernel drops a signal that would be *)
(* ignored when it is sent, discards a pending SIGCONT when a stop signal  *)
(* is sent and the other way round, and looks for the handler when the     *)
(* signal is delivered.                                                    *)
(***************************************************************************)
EXTENDS Naturals

CONSTANTS N_OF_SIGNALS,     \* their numbers are below it
          Default,          \* what each does without a handler
          SIGINT            \* what CTRL+C sends

Signal == 1..(N_OF_SIGNALS - 1)

\* SIGCONT is numbered before the signals that stop (the list in main_module.c).
ASSUME SignalAssumption ==
  /\ N_OF_SIGNALS \in Nat /\ SIGINT \in Signal
  /\ Default \in [Signal -> {"unnamed", "uncatchable", "end", "ignore", "stop", "continue"}]
  /\ Default[SIGINT] = "end"
  /\ \A s, t \in Signal : Default[s] = "continue" /\ Default[t] = "stop" => s < t

VARIABLES parent_at, parent_i,     \* where the parent is, and its loop's variable
          child_is, child_i,       \* the same of the child
          pending,                 \* signals sent and not delivered
          handled,                 \* what the child has printed
          interrupted,             \* history: CTRL+C was pressed
          sent, early, discarded   \* history: signals sent; before their handler
                                   \* was there; dropped for their opposite

signal_vars == <<parent_at, parent_i, child_is, child_i, pending, handled,
                 interrupted, sent, early, discarded>>

\* Both loops skip what has no name or cannot be caught.
Skipped(s) == Default[s] \in {"unnamed", "uncatchable"}

\* Mutant: the child takes the stop signals for uncatchable, too.
HasHandler_NotStop(s) == s < child_i /\ ~ Skipped(s) /\ Default[s] # "stop"

HasHandler(s) == s < child_i /\ ~ Skipped(s)

SignalInit == /\ parent_at = "fork" /\ parent_i = 1
              /\ child_is = "unborn" /\ child_i = 1
              /\ pending = {} /\ handled = {}
              /\ interrupted = FALSE
              /\ sent = {} /\ early = {} /\ discarded = {}

Fork == /\ parent_at = "fork"
        /\ \/ parent_at' = "send" /\ child_is' = "running"
           \/ parent_at' = "ended" /\ UNCHANGED child_is
        /\ UNCHANGED <<parent_i, child_i, pending, handled, interrupted, sent, early, discarded>>

\* child_process: signal() of the next number, then sleep() for ever.
Install == /\ child_is = "running" /\ child_i < N_OF_SIGNALS
           /\ child_i' = child_i + 1
           /\ UNCHANGED <<parent_at, parent_i, child_is, pending, handled,
                          interrupted, sent, early, discarded>>

\* The signals whose sending makes the kernel discard s.
Opposite(s) == {t \in Signal : {Default[s], Default[t]} = {"stop", "continue"}}

\* kill(child, s)
Generate(s) ==
  LET Dropped == Default[s] \in {"ignore", "continue"} /\ ~ HasHandler(s)
  IN /\ pending' = (pending \ Opposite(s)) \cup (IF Dropped THEN {} ELSE {s})
     /\ discarded' = discarded \cup (pending \cap Opposite(s))
     /\ child_is' = IF Default[s] = "continue" /\ child_is = "stopped"
                    THEN "running" ELSE child_is
     /\ sent' = sent \cup {s}
     /\ early' = IF child_i <= s THEN early \cup {s} ELSE early

\* parent_process: the next signal after a millisecond.  To a child that has
\* ended, and was not waited for, kill() does nothing.
Send == /\ parent_at = "send" /\ parent_i < N_OF_SIGNALS
        /\ parent_i' = parent_i + 1
        /\ IF Skipped(parent_i) \/ child_is = "ended"
           THEN UNCHANGED <<pending, discarded, child_is, sent, early>>
           ELSE Generate(parent_i)
        /\ UNCHANGED <<parent_at, child_i, handled, interrupted>>

\* A signal reaches the child: its handler, or what it does without one.
Deliver(s) ==
  /\ child_is = "running" /\ s \in pending
  /\ pending' = pending \ {s}
  /\ IF HasHandler(s)
     THEN handled' = handled \cup {s} /\ UNCHANGED child_is
     ELSE /\ child_is' = IF Default[s] = "stop" THEN "stopped" ELSE "ended"
          /\ UNCHANGED handled
  /\ UNCHANGED <<parent_at, parent_i, child_i, interrupted, sent, early, discarded>>

\* Mutant: the child is asked to end, not killed.
KillChild_Asks == /\ parent_at = "send" /\ parent_i = N_OF_SIGNALS
                  /\ parent_at' = "ended"
                  /\ IF child_is = "ended"
                     THEN UNCHANGED <<pending, discarded, child_is, sent, early>>
                     ELSE Generate(SIGINT)
                  /\ UNCHANGED <<parent_i, child_i, handled, interrupted>>

\* The parent sends SIGKILL, at once or after its sleep, and ends.  What is pending
\* stays so.
KillChild == /\ parent_at = "send" /\ parent_i = N_OF_SIGNALS
             /\ parent_at' = "ended"
             /\ child_is' = "ended"
             /\ UNCHANGED <<parent_i, child_i, pending, handled, interrupted,
                            sent, early, discarded>>

\* The user presses CTRL+C, which the terminal sends to both.
Interrupt == /\ parent_at = "send"
             /\ parent_at' = "ended"
             /\ interrupted' = TRUE
             /\ IF child_is = "ended"
                THEN UNCHANGED <<pending, discarded, child_is, sent, early>>
                ELSE Generate(SIGINT)
             /\ UNCHANGED <<parent_i, child_i, handled>>

SignalNext == \/ Fork \/ Install \/ Send \/ KillChild \/ Interrupt
              \/ \E s \in Signal : Deliver(s)
-----------------------------------------------------------------------------
\* A child that was in time with its handlers lives until SIGKILL and prints nothing
\* but what it is sent.  What it does not print is one of two things: a signal that
\* is still pending, and lost if SIGKILL comes first, which follows the last signal
\* at once when the duration is 0; or a SIGCONT that the kernel discarded for a stop
\* signal.
PromptChildMisses == early = {} =>
  /\ child_is = "ended" => parent_at = "ended" /\ ~ interrupted
  /\ child_is # "stopped"
  /\ handled \subseteq sent
  /\ \A s \in sent \ (handled \cup pending) :
       /\ s \in discarded /\ Default[s] = "continue"
       /\ \E t \in sent : Default[t] = "stop"

\* The child ends, whatever the signals found: it may have been stopped, and its
\* handlers may have caught all others.  After a CTRL+C, which ends the parent,
\* nobody is left to kill it.
ChildEnds == child_is # "unborn" ~> child_is = "ended" \/ interrupted
=============================================================================
