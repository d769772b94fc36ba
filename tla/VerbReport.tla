----------------------------- MODULE VerbReport -----------------------------
(***************************************************************************)
(* What watch_commands.py promises: "Watch the capture for device/command  *)
(* POSTs and report each distinct verb once" (watch_commands.py:1).  The   *)
(* verbs on file when it starts are reported together, every other one as  *)
(* news; a verb that was never on file is never reported.  The file may    *)
(* lose a command.                                                         *)
(***************************************************************************)
EXTENDS Sequences

CONSTANT Verbs

VARIABLES
  onFile,   \* the verbs in the capture
  captured, \* those that are, or were, in it
  greeted,  \* the watch has started
  known,    \* the verbs reported
  news      \* those reported one by one, in order

vars == <<onFile, captured, greeted, known, news>>

Init ==
  /\ onFile = {}
  /\ captured = {}
  /\ ~ greeted
  /\ known = {}
  /\ news = <<>>

\* A verb is captured.
Capture(v) ==
  /\ onFile' = onFile \cup {v}
  /\ captured' = captured \cup {v}
  /\ UNCHANGED <<greeted, known, news>>

\* The last command with a verb is lost.
Lose(v) ==
  /\ onFile' = onFile \ {v}
  /\ UNCHANGED <<captured, greeted, known, news>>

\* The watch starts.
Greet ==
  /\ ~ greeted
  /\ greeted' = TRUE
  /\ known' = onFile
  /\ UNCHANGED <<onFile, captured, news>>

\* A verb is reported for the first time.
Tell(v) ==
  /\ greeted
  /\ v \in captured \ known
  /\ known' = known \cup {v}
  /\ news' = Append(news, v)
  /\ UNCHANGED <<onFile, captured, greeted>>

Next == Greet \/ \E v \in Verbs : Capture(v) \/ Lose(v) \/ Tell(v)

Spec == Init /\ [][Next]_vars
=============================================================================
