--------------------------- MODULE WatchCommands ----------------------------
(***************************************************************************)
(* watch_commands.py.  In tail mode it reads flows.jsonl from its start    *)
(* again and again, and reports each command verb it did not know, until a *)
(* deadline has passed.  With --once it lists all commands on file; it may *)
(* be run so at any time.  Another process appends to the file meanwhile.  *)
(***************************************************************************)
EXTENDS Naturals, Sequences

CONSTANTS
  Verbs,      \* the "command" of a request body
  NoVerb,     \* the record is no command, or its body was cut off by the addon
  NotObject,  \* its body is JSON, but not an object
  BadVerb,    \* its command is a list or an object
  Garbage     \* the line is not JSON

VARIABLES
  file,     \* flows.jsonl
  at,       \* where main() is
  known,    \* known
  batch,    \* the rest of what commands_in() has read
  news,     \* the verbs reported as new, in order
  expired,  \* time.time() >= deadline
  listed    \* the hits the last --once printed for each verb, by their lines

Lines == Verbs \cup {NoVerb, NotObject, BadVerb, Garbage}

WatchTypeOK ==
  /\ file \in Seq(Lines)
  /\ at \in {"start", "loop", "scan", "report", "sleep", "elapsed", "crashed", "failed"}
  /\ known \in SUBSET Verbs
  /\ batch \in Seq(Lines)
  /\ news \in Seq(Verbs)
  /\ expired \in BOOLEAN
  /\ listed \in [Verbs -> SUBSET Nat]

WatchInit ==
  /\ at = "start"
  /\ known = {}
  /\ batch = <<>>
  /\ news = <<>>
  /\ expired = FALSE
  /\ listed = [v \in Verbs |-> {}]

\* commands_in(LOG) raises: body.get is called on something that is not a dict.
CommandsInFails == \E i \in DOMAIN file : file[i] = NotObject

\* The commands cannot be the keys of a dict, or the members of a set.
Unhashable == \E i \in DOMAIN file : file[i] = BadVerb

\* main() has no except clause: either one ends the program.
Unreadable == CommandsInFails \/ Unhashable

\* The verbs commands_in(LOG) returns: lines and bodies that are not JSON are skipped, and no
\* file is like an empty one.
VerbsOnFile == {file[i] : i \in DOMAIN file} \cap Verbs

-----------------------------------------------------------------------------
\* With --once: for each verb, the commands on file.
Once ==
  /\ ~ Unreadable
  /\ listed' = [v \in Verbs |-> {i \in DOMAIN file : file[i] = v}]
  /\ UNCHANGED <<file, at, known, batch, news, expired>>

\* --once ends with a traceback and prints no command.
OnceFails ==
  /\ Unreadable
  /\ listed' = [v \in Verbs |-> {}]
  /\ UNCHANGED <<file, at, known, batch, news, expired>>

\* known = {c for _, c, _ in commands_in(LOG)}, which is printed; the deadline is set.
WatchStart ==
  /\ at = "start"
  /\ ~ Unreadable
  /\ known' = VerbsOnFile
  /\ at' = "loop"
  /\ UNCHANGED <<file, batch, news, expired, listed>>

\* while time.time() < deadline
Loop ==
  /\ at = "loop"
  /\ at' = IF expired THEN "elapsed" ELSE "scan"
  /\ UNCHANGED <<file, known, batch, news, expired, listed>>

\* for ts, cmd, params in commands_in(LOG), which reads the whole file at once.
Scan ==
  /\ at = "scan"
  /\ ~ CommandsInFails
  /\ batch' = file
  /\ at' = "report"
  /\ UNCHANGED <<file, known, news, expired, listed>>

\* AttributeError in commands_in(), or TypeError: a traceback before the watch starts.
StartFails ==
  /\ at = "start"
  /\ Unreadable
  /\ at' = "failed"
  /\ UNCHANGED <<file, known, batch, news, expired, listed>>

\* AttributeError in commands_in(): a traceback during the watch.
ScanFails ==
  /\ at = "scan"
  /\ CommandsInFails
  /\ at' = "crashed"
  /\ UNCHANGED <<file, known, batch, news, expired, listed>>

\* A faulty TellNext: what is known is not updated.
TellAgain ==
  /\ at = "report"
  /\ batch # <<>> /\ Head(batch) # BadVerb
  /\ batch' = Tail(batch)
  /\ IF Head(batch) \in Verbs \ known THEN /\ news' = Append(news, Head(batch))
                                           /\ UNCHANGED known
     ELSE UNCHANGED <<known, news>>
  /\ UNCHANGED <<file, at, expired, listed>>

\* A faulty TellNext: records without a command are not left out.
TellAnything ==
  /\ at = "report"
  /\ batch # <<>> /\ Head(batch) # BadVerb
  /\ batch' = Tail(batch)
  /\ IF Head(batch) \notin known THEN /\ known' = known \cup {Head(batch)}
                                      /\ news' = Append(news, Head(batch))
     ELSE UNCHANGED <<known, news>>
  /\ UNCHANGED <<file, at, expired, listed>>

\* If the next line is a command: if cmd not in known: known.add(cmd), and it is printed.
TellNext ==
  /\ at = "report"
  /\ batch # <<>> /\ Head(batch) # BadVerb
  /\ batch' = Tail(batch)
  /\ IF Head(batch) \in Verbs \ known THEN /\ known' = known \cup {Head(batch)}
                                           /\ news' = Append(news, Head(batch))
     ELSE UNCHANGED <<known, news>>
  /\ UNCHANGED <<file, at, expired, listed>>

\* "cmd not in known" raises a TypeError: a traceback behind what is reported already.
TellFails ==
  /\ at = "report"
  /\ batch # <<>> /\ Head(batch) = BadVerb
  /\ at' = "crashed"
  /\ UNCHANGED <<file, known, batch, news, expired, listed>>

\* time.sleep(10), once the batch is done.
Sleep ==
  /\ at = "report"
  /\ batch = <<>>
  /\ at' = "sleep"
  /\ UNCHANGED <<file, known, batch, news, expired, listed>>

\* A faulty WakeUp: the loop is not entered again.
WakeUpAtDeadline ==
  /\ at = "sleep"
  /\ expired
  /\ at' = "loop"
  /\ UNCHANGED <<file, known, batch, news, expired, listed>>

\* The sleep ends.
WakeUp ==
  /\ at = "sleep"
  /\ at' = "loop"
  /\ UNCHANGED <<file, known, batch, news, expired, listed>>

\* The deadline passes.
Expire ==
  /\ at \in {"loop", "scan", "report", "sleep"}
  /\ ~ expired
  /\ expired' = TRUE
  /\ UNCHANGED <<file, at, known, batch, news, listed>>

Watching ==
  \/ WatchStart \/ StartFails
  \/ Loop
  \/ Scan \/ ScanFails
  \/ TellNext \/ TellFails
  \/ Sleep \/ WakeUp

WatchNext == Watching \/ Expire \/ Once \/ OnceFails
=============================================================================
