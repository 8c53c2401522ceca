----------------------------- MODULE LogRotator -----------------------------
(***************************************************************************)
(* The two log rotators (1_semester/hw2, script.sh and stepa_script.sh):   *)
(* copy the log to a directory named by the time, pack and compress it,    *)
(* remove what the policy does not keep, and empty the log.  A step that   *)
(* fails ends the script (set -e), and so may its user, at any step: what  *)
(* was done by then stays and the next run finds it.  Programs write to    *)
(* the log meanwhile.  Runs do not overlap, and the clock is not set back. *)
(***************************************************************************)
EXTENDS Naturals, FiniteSets

CONSTANTS MAX_LINES,        \* bound on the lines that are logged
          MAX_TIME,         \* bound on the clock, in seconds
          Keep              \* values of n_to_keep

ASSUME RotatorAssumption == MAX_LINES \in Nat /\ MAX_TIME \in Nat /\ Keep \subseteq Nat

VARIABLES script,           \* which of the two scripts is used
          cleanup_policy, n_to_keep,
          rotating,         \* the step a run is at
          now, target_dst,  \* the time, and the one that names a run's files
          entry,            \* the files in the directory of archives
          log, log_exists,  \* the lines in the log; is it there?
          written,          \* how many lines were logged
          since_copy,       \* history: lines logged since this run made its copy,
          late, dropped     \* those the log was emptied of all the same, and lines
                            \* in files that the policy removed

rotator_vars == <<script, cleanup_policy, n_to_keep, rotating, now, target_dst, entry, log,
                  log_exists, written, since_copy, late, dropped>>
config == <<script, cleanup_policy, n_to_keep>>
history == <<written, since_copy, late, dropped>>

RotatorInit == /\ script = "script" /\ cleanup_policy = "keep_newest" /\ n_to_keep = 10
               /\ rotating = "config"
               /\ now = 0 /\ target_dst = 0
               /\ entry = {}
               /\ log = {} /\ log_exists = TRUE
               /\ written = 0 /\ since_copy = {} /\ late = {} /\ dropped = {}

Configure == /\ rotating = "config"
             /\ script' \in {"script", "stepa_script"}
             /\ cleanup_policy' \in {"keep_newest", "keep_oldest"}
             /\ n_to_keep' \in Keep
             /\ rotating' = "no"
             /\ UNCHANGED <<now, target_dst, entry, log, log_exists, history>>

\* A program opens the log, which makes it if need be, and adds a line.
LogLine == /\ rotating # "config" /\ written < MAX_LINES
           /\ written' = written + 1
           /\ log' = log \cup {written + 1}
           /\ log_exists' = TRUE
           /\ since_copy' = since_copy \cup {written + 1}
           /\ UNCHANGED <<config, rotating, now, target_dst, entry, late, dropped>>

Tick == /\ rotating # "config" /\ now < MAX_TIME
        /\ now' = now + 1
        /\ UNCHANGED <<config, rotating, target_dst, entry, log, log_exists, history>>

\* A file of the directory: the copy, the tar of it, or the archive.
Entry(kind, lines) == [at |-> target_dst, kind |-> kind, lines |-> lines]
Of(kind) == {e \in entry : e.at = target_dst /\ e.kind = kind}
LinesOf(files) == UNION {e.lines : e \in files}

StepTo(next) == rotating' = next /\ UNCHANGED <<config, now, target_dst>>

\* mkdir -p
Start == /\ rotating = "no"
         /\ target_dst' = now
         /\ rotating' = "cp"
         /\ entry' = IF \E e \in entry : e.at = now /\ e.kind = "copy" THEN entry
                     ELSE entry \cup {[at |-> now, kind |-> "copy", lines |-> {}]}
         /\ UNCHANGED <<config, now, log, log_exists, history>>

\* A log that is not there ends script.sh; stepa_script.sh goes on without it.
Copy == /\ rotating = "cp"
        /\ log_exists \/ script = "stepa_script"
        /\ entry' = IF log_exists THEN (entry \ Of("copy")) \cup {Entry("copy", log)} ELSE entry
        /\ since_copy' = {}
        /\ StepTo("tar")
        /\ UNCHANGED <<log, log_exists, written, late, dropped>>

Tar == /\ rotating = "tar"
       /\ entry' = (entry \ Of("tar")) \cup {Entry("tar", LinesOf(Of("copy")))}
       /\ StepTo("compress")
       /\ UNCHANGED <<log, log_exists, history>>

\* Mutant: an archive of the same second does not end the script.
MayCompress_Always == TRUE

\* The compressor does not replace an archive that is there.
MayCompress == Of("archive") = {}

\* The tar becomes the archive.
Compress == /\ rotating = "compress" /\ MayCompress
            /\ entry' = IF Of("archive") # {} THEN entry
                        ELSE (entry \ Of("tar")) \cup {Entry("archive", LinesOf(Of("tar")))}
            /\ StepTo("rm_copy")
            /\ UNCHANGED <<log, log_exists, history>>

RemoveCopy == /\ rotating = "rm_copy"
              /\ entry' = entry \ (IF script = "script" THEN Of("copy") \cup Of("tar")
                                                        ELSE Of("copy"))
              /\ StepTo("clean")
              /\ UNCHANGED <<log, log_exists, history>>

\* What the clean-up counts: script.sh takes all there is for archives.
Counted == IF script = "script" THEN entry ELSE {e \in entry : e.kind = "archive"}

\* The order of the names: a name sorts before the same name with a suffix.
Rank(e) == 3 * e.at + CASE e.kind = "copy" -> 0 [] e.kind = "tar" -> 1 [] OTHER -> 2
Before(e, f) == IF cleanup_policy = "keep_oldest" THEN Rank(e) > Rank(f) ELSE Rank(e) < Rank(f)

\* head -n -$n_to_keep, and rm of one name after the other.
Clean == /\ rotating = "clean"
         /\ IF Cardinality(Counted) > n_to_keep
            THEN \E e \in Counted :
                   /\ \A f \in Counted \ {e} : Before(e, f)
                   /\ entry' = entry \ {e}
                   /\ dropped' = dropped \cup e.lines
                   /\ UNCHANGED <<config, rotating, now, target_dst>>
            ELSE StepTo("rm") /\ UNCHANGED <<entry, dropped>>
         /\ UNCHANGED <<log, log_exists, written, since_copy, late>>

\* stepa_script.sh leaves a log alone that is not there.
RemoveLog == /\ rotating = "rm"
             /\ late' = late \cup since_copy
             /\ log' = {} /\ log_exists' = FALSE
             /\ StepTo(IF log_exists \/ script = "script" THEN "touch" ELSE "no")
             /\ UNCHANGED <<entry, written, since_copy, dropped>>

Touch == /\ rotating = "touch"
         /\ log_exists' = TRUE
         /\ StepTo("no")
         /\ UNCHANGED <<entry, log, history>>

\* A step fails, or the script is ended; a tar may be left unfinished.
Stop == /\ rotating \notin {"config", "no"}
        /\ \/ UNCHANGED entry
           \/ rotating = "tar" /\ entry' = (entry \ Of("tar")) \cup {Entry("tar", {})}
        /\ StepTo("no")
        /\ UNCHANGED <<log, log_exists, history>>

RotatorNext == \/ Configure \/ LogLine \/ Tick \/ Stop
               \/ Start \/ Copy \/ Tar \/ Compress \/ RemoveCopy \/ Clean \/ RemoveLog \/ Touch
-----------------------------------------------------------------------------
\* No line is lost but by the policy, or because it came between the copy and the
\* emptying of the log: a run that stops, at any step, has not emptied the log of
\* what it did not archive.  A run that comes to the emptying has left no more files
\* than it should, and its own archive among them if the newest are kept.
LinesAreKept ==
  /\ 1..written \subseteq log \cup late \cup dropped
                         \cup LinesOf({e \in entry : e.kind = "archive"})
  /\ rotating = "rm" => /\ Cardinality(Counted) <= n_to_keep
                        /\ cleanup_policy = "keep_newest" /\ n_to_keep > 0 => Of("archive") # {}
=============================================================================
