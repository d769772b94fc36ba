# Verification of the IoT protocol tools

This directory holds a TLA+ development for the tools of this repository: specifications
translated from the Python source, TLC configurations that check them on small
instances, and proofs checked by TLAPS that hold for every value of the constants.

The tools are small scripts, but they run in surroundings that are hard to test: threads
that share state without locks, files that are rewritten while the process may be killed,
a cloud that queues commands and answers late, and runs that find what earlier runs have
left behind. Those are what the models are about.

Contents: [inventory](#1-inventory) · [modules](#2-modules-and-how-they-correspond-to-the-code) ·
[runs](#3-runs-and-what-they-show) · [fairness](#4-fairness) ·
[proofs](#5-what-is-proved-and-how) · [departures](#6-where-the-code-departs-from-what-it-says) ·
[limits](#7-what-is-not-modelled) · [plan](#8-plan)

## 1. Inventory

| Component | Source | State | Operations | What makes it correct |
|---|---|---|---|---|
| TLS probe | `tlsprobe.py` | `RESULTS`, the shared `SSLContext` with its `sni_callback`, one `seen_sni` for each handler | `serve` accepts, `handle` measures one handshake, `main` prints the verdict | each handshake is recorded once; a name is recorded with the client that asked for it; the verdict agrees with the results |
| certificate files | `tlsprobe.py` | `<host>.crt`, `<host>.key`, kept between runs | `ensure_cert`, `_cert_via_openssl`, `make_context` | what is served covers the host names and loads |
| DNS forwarder | `dnsproxy.py` | `Proxy.seen`, the pool and its queue, sockets | `serve`, `handle`, `forward`, `build_a_response`, `report` | counters and log agree; hijacked names never reach the upstream; nothing hangs |
| capacity writer | `set_capacity.py` | its `capacity-before-*.json` files; the device and the cloud | `main`: login, choose, read, save, check, post, read back | evidence before the first write; no unintended write; a truthful verdict |
| mitmproxy addon | `mitm/culligan_addon.py` | `endpoints`, `local_hits`, `count`; `flows.jsonl` and two reports | `response`, `done`, `_flush_reports` | a kill or a failed write costs one record at most; the reports are current |
| command watcher | `watch_commands.py` | `known`; reads `flows.jsonl` | `commands_in`, the tail loop of `main`, `--once` | each verb is reported, once, and only if it was captured |
| clock setter | `set_device_time.py` | the time it will set, the device it has chosen | `main`: compute the time, log in, choose, show, post | dry run by default; no guess at the device; a clock set to "now" is never ahead |
| command sender | `send_command.py` | the table of commands; the parameters | `main`: check the arguments, log in, choose, post | dry run by default; parameters as asked for; risks are shown |
| capacity probe | `capacity_probe.py` | none | `datapoints`, `verdict` | a confirmed model says what the controller works with |
| capture comparison | `diff_capture.py` | two sets of datapoints | `load`, `fetch_live`, `report` | the deciding number means what it says, and so does "nothing moved" |
| capture parser | `parse_capture.py` | counters of names and peers; reads a growing file | `read_pcap`, `strip_link`, `parse_ipv4`, `dns_names`, `tls_sni` | the names in the report are those in the packets |
| reconnaissance | `recon.py` | none | pings and probes hosts | (I/O) |
| client test | `test_api_client.py` | none | exercises a client that is not in the repository | (I/O) |

How they interact:

* the addon and the watcher are two processes that share `flows.jsonl`, with no lock;
* the DNS forwarder sends a device's queries to the host that runs the TLS probe or
  mitmproxy: the two share nothing but the network;
* `set_capacity.py`, `set_device_time.py`, `send_command.py`, `capacity_probe.py` and
  `diff_capture.py` talk to the same cloud; the files `set_capacity.py` saves are what
  `diff_capture.py` compares with, and they outlive the writes they precede;
* `parse_capture.py` reads what `tcpdump` is still writing; the queries in it are those the
  DNS forwarder answers;
* inside the TLS probe, handler threads share one `SSLContext` and `RESULTS`; inside the
  DNS forwarder, 32 workers share `seen` and one UDP socket.

What is hard about them, at its lines, is the list `hazards` of `PROJECT.json`.

## 2. Modules and how they correspond to the code

Variables and actions carry the names of the code where there is one, and the comment
above each of them says what it stands for. `PROJECT.json` maps each definition to its
lines. Operators whose comment begins with "A faulty ..." are no part of a specification:
each is a bug the named definition could have had, kept to see that a property notices.

**`TlsProbe`** has one `pc` for each connection (`handle`), one `listener` for each port
(`serve`) and `main`. `InstallCallback` is `ctx.sni_callback = sni_cb` and the entry into
`wrap_socket`; `ClientHello` is the moment the TLS library calls the callback that the
context has *then*, which need not be the one of this handler. `Reject`, `Drop` and
`Complete` are the three ways out of `wrap_socket`, each with its `RESULTS.append`.
`Interrupt`, `ListResults`, `CountAccepted` and `Conclude` are the verdict: two loops over a
list that still grows. `self_test` is a client that trusts every certificate. `overlapped`
is a history variable, and a result carries its connection, so that properties can tell
clients apart.

**`ProbeCert`** is `ensure_cert` over several runs with different `--host` lists. A file is
absent, partial or whole, and remembers the run that made it; `Kill` may come between any
two file operations, and during those of the `openssl` program. `cut` has the host names whose
files a run was cut off at, and nothing else: a kill before the first file is opened, or after
the last one is written, does not count.

**`DnsProxy`** follows `Proxy.serve` (`main`) and `Proxy.handle` (one `pc` per datagram).
`self.seen[qname] = self.seen.get(qname, 0) + 1` is two actions, `ReadCount` and
`WriteCount`, as CPython may switch threads between the call and the store, and the test
for the first hit (`Announce`) reads the counter a second time. `wire` holds upstream
exchanges, which are never removed, so that an answer may come late, twice or never;
`Forward` picks an ephemeral port no open socket has. `Close` is `sock.close()` in
`finally`, after which the exit handler of the pool still works off the queue. `RecvError` may
come at any time.

**`SetCapacity`** is `main` of `set_capacity.py`, run again and again. The cloud and the
devices are external: `telemetry` is what the cloud last heard, `device` what the
controller works with, `inbox` the queued commands. `Send` has every kind of answer `call`
can produce, including a gateway error for a command that was queued. A run may be
interrupted at any point (`Abort`). `sent`, `applied`, `foreign` and `original` are history.
The plausible band is the exact one of the code, in integers. A file is named by the local time
(`stamp`) alone, so `SaveBefore` replaces what another run has saved under the same one, and
`SaveFails` leaves no readable file; `replaced` remembers what was lost so.

**`CaptureAddon`** is the addon as mitmproxy drives it: one flow at a time. `Response` is
`response()` up to `write()`, whose record is in `buffer` then; `flush()` and `close()` bring the
buffer to `flows.jsonl` in pieces: `BeginLine` (a fragment), `EndText` (the whole JSON), `EndLine`
(its newline). `tail` says how far the last line has got. `Kill` and a failing write (`WriteFails`,
`CloseFails`) may come between any two; what they leave has no newline, so the next record goes on
on that line: behind a fragment it is lost (`tail = "spoiled"`), behind a complete JSON object it
takes that with it, although readers have seen it (`SpoilLine`). After a failed write Python may
keep records in its buffer or give them up (`WriteFails(n)`). The reports are written in pieces
too (`OpenSummary`, `WriteSummary`, `OpenHits`, `WriteHits`), with `FlushFails` for the exception
`_flush_reports` catches.

**`WatchCommands`** is the tail loop of `watch_commands.py`, and `Once`, the listing that may be
printed at any time. It works on the lines it has read (`batch`), of which those without a
command count for nothing. A body that is no object, or a command that is a list or an object,
ends it with a traceback, each at its own place: `StartFails`, `ScanFails`, `TellFails` and
`OnceFails`. **`CaptureAndWatch`** runs it together with `CaptureAddon` over one file, and
**`VerbReport`** is the abstract specification of the two together: verbs are captured, may be lost
again, and each is reported once. Under the mapping `onFile <- W!VerbsOnFile` (what the file says
now) and `greeted <- at \notin {"start", "failed"}`, the composed system implements it.

**`CommandTool`** is the abstract specification of a tool that can write to a device: an order
is given, at most one command is posted for it, with `--apply` only, and to the device that
was named or the only one there is. Three programs implement it.

**`SetDeviceTime`** and **`SendCommand`** are the `main` functions of the two scripts, one `pc` for
each run. `SetBegin` reads the clock before the password is asked for, `SetPost` sends what was
read then. `CmdRefuse` and `CmdBegin` are the two ways through the checks of the arguments: the
parameters are abstracted to where they come from (`"typed"`, `"default"`, `"now"`), the table
`COMMANDS` to which verbs have a default and a risk. **`DeviceCloud`** is what both talk to: a
registry, a queue from which devices execute or ignore commands at any later time, and answers
that may be lost although the command was queued. **`CommandTools`** runs both over one account;
under `order <- ` the arguments of the runs under way and `posted <- ` what was sent, it
implements `CommandTool`.

**`Softener`** is the device behind the datapoints: what the controller counts from is set at a
regeneration, the counter of today at midnight, and a write reaches the controller, the
datapoint, or another field, also one of those that move on their own. `source` says whether the
remaining capacity is what the controller counts or what a write has put there. An answer of the
cloud may lack any datapoints (`Bodies`). **`CapacityProbe`** is `verdict` over what `datapoints`
returns, **`DiffCapture`** is `load`, `fetch_live` and `report`, with captures taken at any time and
compared with the device or with each other, and **`Diagnosis`** runs the two over the devices of an
account, one after the other.

**`DnsMessage`** has the two parsers of DNS messages, `parse_question` (the forwarder) and
`dns_names` (the capture parser), and the spoofed answer of `build_a_response`; **`TlsHello`** has
`tls_sni`. All work on cells: one for a fixed header, one for each byte after it. The loops are
recursive functions over the offset (`Labels`, `Extensions`) or the number of questions left
(`NamesFrom`). Each module has a reference encoder, written from the
RFC and not from the parser. **`ParseCapture`** is `main` of `parse_capture.py`, with
`strip_link` and `parse_ipv4`, over a file that `tcpdump` goes on writing: `Open`, `Take` and
`EndOfFile` are the generator `read_pcap`.

**`TlsProbeProofs`**, **`ProbeCertProofs`**, **`DnsProxyProofs`**, **`SetCapacityProofs`**,
**`CommandToolsProofs`**, **`DiagnosisProofs`** and **`ParseCaptureProofs`** have the theorems about
the modules they are named after, **`CaptureProofs`** those about `CaptureAddon` and
`CaptureAndWatch`. The `MC...` modules give the constants their values.

## 3. Runs and what they show

| Run | Instance | Shows |
|---|---|---|
| `TlsProbe_safety` | 2 connections, 1 port, two names or none, fair handlers | results are complete and unique, names move between overlapping handshakes only, verdict and list agree, every accepted connection is recorded |
| `TlsProbe_sni` | 2 connections | *violated:* a name is recorded with the wrong client |
| `ProbeCert_safety` | 2 host names, 4 runs | the first host is covered; the files of a name do not load only if a run was cut off at that name |
| `DnsProxy_safety` | 3 queries, 3 workers, 2 upstream ports, 2 clients, 2 spellings of a name with an IPv4 target, a name with an IPv6 target | the counters are bounded by the truth, stray answers are late ones, a hijacked name never reaches the upstream and is never answered with anything but its target, the report has every logged name |
| `DnsProxy_live` | 3 queries, 1 worker, a name hijacked to an IPv6 address, fair | every query is worked off; the process ends |
| `SetCapacity_safety` | 2 devices, 2 values, 2 runs, 2 stamps, 1 device that someone else sets | the first reading is on file before any command, unless its stamp was used again; APPLIED rests on an execution; commands are deliberate, and plausible to the edge of the band |
| `CaptureAddon_safety` | 6 flows, 2 endpoints, 1 kill, 1 write that fails and 1 close that does, period 5 | at most one record is lost for each kill and each failed write; the summary lags fewer than five flows; local hits are on disk |
| `CaptureAndWatch_refine` | 2 verbs, 2 flows, 1 kill, 1 write that fails and 1 close that does, fair watcher | `VerbReport` is implemented; a later `--once` lists all that an earlier one did, and all that was reported, but for one command for each kill and each failed write; a verb that stays on file is reported unless the watch ends |
| `ParseCapture_safety` | up to 3 packets, with messages cut off at every place, and a reader that begins at any time | complete records count; DNS and TLS names are exactly those captured whole; forwarder and parser read alike; truncation only loses |
| `CommandTools_safety` | 1 run of each tool, 2 devices, 3 verbs, 3 times | `CommandTool` is implemented; parameters and risk notes as asked for; no clock ahead |
| `Diagnosis_safety` | 1 device, 4 events of any kinds, 2 captures, answers with all, some or no datapoints | the deciding number and the confirmed model say what the controller counts from |
| `Diagnosis_other` | 2 devices, 1 capture | *violated:* "nothing moved" is about another device |

Bounds, and why they are enough:

* *Connections.* Two handlers race for the callback, and a third adds no new race: the safety
  properties are proved for any number (section 5), so the run has the two that liveness needs.
* *Queries and workers.* Two lose an update; with three, a counter can be set back after two
  other hits. Two ports for three queries make a port be used again while an answer to
  its first use is still under way. `DnsProxy_live` has more queries than workers, so that they
  queue; the code has 32 workers, and 35 queries would do the same.
* *Runs.* The second run is the first that meets something left behind; in `ProbeCert` four
  allow a kill in the first, a repair attempt, and two runs after it.
* *Values.* For 1 cubic foot at 10 grains the band goes from 1333 1/3 to 4500 gallons: 4500 is its
  upper end, and 1333 just misses the lower one; a resin reading of 0 makes the band vanish.
* *Stamps.* With two, two runs may save in the same second or not.
* *Flows.* Six pass the period of five once and leave one flow behind it. A kill and a failed
  write are enough for each to meet what the other has left.
* *Verbs.* Two show that reports of different verbs do not disturb each other, and that a verb
  is not forgotten behind another. All flows are those of a host of the cloud: a flow to a local
  device reaches `flows.jsonl` by the same steps, and the watcher reads nothing else.
* *Packets.* One packet is enough for the parsers, so all shapes come alone: three encoded
  queries and three hellos cut off at each place, malformed bytes after a header with 1, 2 or 33
  questions, and up to two VLAN tags. Counters and the growing file need more: all pairs and
  triples of six packets, of which several count for the same name.
* *Commands.* The verbs are one of each kind in the table: default without risk, default with
  risk, risk without default. Three times let the clock move before and after a command is sent.
* *Device.* The reserve is that of the unit under test, 500 gallons, of a capacity of 2000. A draw
  of 1500 gallons leaves nothing of what is usable, the edge of `NumberDecides`; one of 1994 leaves
  the model check 6 gallons off, one more than it allows. Four events reach a confirmed or
  contradicted model after a write, a regeneration, a draw and a midnight.

Symmetry is used where the constants play the same part in every definition, in runs
without liveness. `CHECK_DEADLOCK FALSE` stands in every configuration because each
program ends.

## 4. Fairness

* `TlsProbe`: each handler thread runs; `conn.settimeout(20)` ends its handshake and its
  `recv`, whatever the client does (weak fairness of `InstallCallback`, `Drop`, `Finish`); the
  verdict is printed once begun. No fairness of clients, of binding a port, of Ctrl+C.
* `DnsProxy`: each worker runs, and the 4 second timeout of `forward` ends its wait (weak
  fairness of `Working`, which does not include `Deliver`: no answer need ever come); `main`
  finishes once it has left its loop.
* `CaptureAndWatch`: the watcher's loop goes on and its sleep ends. No fairness of the proxy,
  of its traffic, or of the deadline.

## 5. What is proved, and how

`TlsProbeProofs`, for any sets of connections, ports and names; assumptions: the sentinels
`NoName`, `Silent` and `NoCallback` are not names or connections (they are Python's `None` and
the absence of a value), and self-test connections are connections.

* `TypeCorrect`: the type invariant is inductive.
* `OneResult`: inductive together with the types. An append happens exactly when a handler
  leaves `wrapping`.
* `ExclusivelyAttributed` and `NamesExplained`: these speak of recorded results only, so they
  are not inductive. `Attributed` adds what is true before a result is recorded: handlers
  that have not begun are untouched (`FreshHandlers`); the installed callback belongs to every
  handler in `wrap_socket`, or both have overlapped (`CallbackOwner`); a handler that met no
  other has seen its own client's name (`OwnNameSeen`); every name seen is explained
  (`NamesSeenExplained`). The key is `HelloReachesOverlap`: a ClientHello reaches the handler
  it belongs to, or one that overlaps with it.
* `VerdictAgrees`: `VerdictSoFar` says what `main` holds between its two loops; it survives
  appends by other threads as the list only grows.

`SetCapacityProofs`, for any devices, values and readings, and any number of runs;
assumptions: what `ValuesAssumption` says of the values (`Values` are naturals, and so are
the readings), and that the sentinels `NoSerial` and `NoReading` are no device and no value.

* `TypeCorrect`: the type invariant is inductive.
* `Deliberate` is about the step `Send`. It needs to know where the device of the run comes
  from: `Chosen`, which holds from the step that chooses it to the end of the run; and that the
  comparisons of `OutsideBand`, with quotients multiplied out, are those of `Plausible`.
* `EvidenceKept`: `EvidenceSurvives` speaks of commands that were sent. Before the first one,
  the device reads as it did at the beginning (`UntouchedAsBefore`), so what the run is
  about to save is that reading (`ReadingKept`), and it is on file when the run decides
  whether to send (`SavedFirst`).
* `AppliedExecuted`: what a device has is its first value or the last one it executed
  (`DeviceExplained`), what the cloud reports is one of these (`TelemetryExplained`), and if
  the run has read another value than the first, the read-back cannot be the first
  (`ReadingExplained`). So a read-back that equals the value asked for was executed.

`DnsProxyProofs`, for any numbers of queries, workers and ports; the only assumption used is
that the sentinels are not queries, names or ports.

* `TypeCorrect`, together with `QueueHolds`: what is in the pool's queue is "queued".
  `Start` takes its query from the head of the queue, and every other proof needs to know
  that this query was not yet worked on.
* `StrayAnswers`: a handler has a port only while it waits (`PortWhileWaiting`), no two have
  the same one (`PortsDistinct`), and an exchange on the wire belongs to a query that waits at
  its port or is past waiting (`ExchangesOwned`).
* `CountersBounded`: `HitCountBounds` is not inductive, as a handler may write a count it
  read long ago. It is with `ReadNoMore`: what a handler between its read and its write has
  read is no more than the hits of its name, which only grow.
* `ReportComplete` uses that a query with a line in the log has written its counter
  (`LinesCounted`), and that a counter never returns to 0.
* `HijacksStay`: a query for a hijacked name is one that `handle` finds in its table
  (`HijackedQuery`) and is never forwarded (`NotForwarded`), and its answer is sent while the socket
  is open, which it is until `main` leaves its loop. That it has no port either follows from
  `PortWhileWaiting`, so no late answer to another query reaches it.

`CommandToolsProofs`, for any numbers of runs and devices, any table of commands and any bound on
the time; assumptions: `CloudAssumption`, `SetAssumption`, `CommandsAssumption` and `JobsAssumption`,
which say that sentinels are no values, that the table says of each verb whether it has a default
and a risk, and that the runs of the two tools are different runs.

* `TypeCorrect`: with the device a run has chosen (a run about to send has one) the type
  invariant is inductive.
* `CommandsAsAsked` adds `Asked`: what a run holds before it sends follows from its arguments, and
  the arguments no longer change once the run is under way.
* `ClockNeverAhead` adds `Past`: no run under way holds a "now" later than the time it is, no
  command in the cloud does, and time does not go back.
* `ToolsImplementCommandTool`: a run that is under way has sent nothing (`SentDone`), and the device
  of a run that is about to send is the one it was told or the only one (`Chosen`). Each step of a
  tool is then a step of `CommandTool` or leaves its variables alone; a step of the cloud always does.
* `SetCapacityProofs!ImplementsCommandTool` is the same for `set_capacity.py`, whose runs come one
  after the other.

`ProbeCertProofs`, for any host names and number of runs.

* `FirstHostIsCovered`: a certificate that is on file has the name it is filed under first.
* `UnloadableIfCut`: certificate and key of a name are of the same run, or both absent, or being
  written by the run at hand, unless a run was cut off at that name (`Consistent`).

`DiagnosisProofs`, for any devices, capacity, reserve and draws, and answers with any datapoints
missing; assumption: `SoftenerAssumption`, which says that these are natural numbers, that accounts
are sequences of serial numbers and that an answer has no datapoints but those of the model.

* `DecidedByNumber` and `ConfirmedMeasured` rest on the meter of the device: unless a write has
  landed on it, what remains is what the controller counts from, less the reserve and what was
  drawn since (`Metered`). Captures have some of what a device reported at one moment
  (`CapturesTrue`), and reports and verdicts follow from what was read at one moment, from the
  device or from a capture (`ReportsTrue`, `VerdictsTrue`).

`ParseCaptureProofs`, for any packets, snapshot lengths and any `--host`; assumption:
`TrafficAssumption`, which says that what `tcpdump` sees is a sequence of packets: their bodies are
any bytes, and one that is marked as a query or a hello is the encoding of it (`IsQuery`: up to 32
names of labels of 1 to 63 bytes; `IsHello`: any extensions, where a server_name is a whole
host_name).

* `NoCompleteRecordMissed`: `VisibleExamined` is about `strip_link`, which walks the tags: a packet
  whose IP header was captured reaches the counters. With it, `VisibleCounted` is inductive: the
  total is no less than the number of visible packets read. The reading ends only where no
  complete record is left (`ReadToEnd`), which is behind those found at first.
* `TypeCorrect`: `Counters` is inductive with that invariant. It needs that a frame adds one to the
  sum of `peers` or nothing, hence that `SumFunction` adds in any order (`SumFunctionIs`).
* `ParsersAgree` and `NothingMadeUp` are about the parsers alone, and hold of any bytes.
  `LabelsCutOff` compares a question read in the first cells of a message with the same question
  read in all of it, `DnsNamesCutOff` and `TlsSniCutOff` follow. `LabelsLocal` says that a question
  that ends at the root is read alike wherever it stands at the same place, which gives both that
  the two parsers agree on the first question and that the spoofed answer repeats it.
* `ReportExact` is the longest argument. The places of the questions in an encoded query, and of the
  extensions in a hello, come from where `FlattenSeq` puts each sequence it joins (`FlattenCells`,
  `QueryCells`, `ExtensionCells`). At such a place the parser reads what was written, if it was
  captured, and reports a cut otherwise; by induction from the last question back to the first,
  `dns_names` finds each name as often as it stands there whole, and likewise `tls_sni` the name of
  the first server_name. Over the packets, `QuestionsCounted` and `HellosCounted` say of each name
  that its copies in the counter are the occurrences in the packets read so far; they are inductive
  with `IInv` and `Counters`, and a step adds a disjoint set of occurrences.

The parsers are recursive functions, and the theorems of the library for induction take an
operator as a parameter, which the provers cannot instantiate. The proofs do without:
`NatLessThanWellFounded` and `WFMin` are about sets, and give `LeastElement`, and that gives
`Induction` and `BackwardInduction` over a *set* of numbers; the formula to be proved becomes
the set of the numbers it holds of. A recursive function is a `CHOOSE`, so each proof begins with
the fact that its equation has a solution (`LabelsEquation`, `NamesEquation`,
`ExtensionsEquation`, `SumExists`, `FlattenIs`), built from the end of the message. That is how
one fault of the model came to light: `Labels` and `Extensions` used to range over `Nat`, and at the
offset 0, which no parser ever uses, the equation mentioned itself and had no solution; strictly
they then had no specified value anywhere, which TLC, evaluating lazily, never notices. They range over
`Nat \ {0}` now. The names that `dns_names` collects were a recursion inside its definition; it is
`NamesFrom` now, so that there is a name to prove about.

`CaptureProofs`, for any endpoints and bodies, any period of the reports, and any numbers of flows,
kills and failed writes; assumptions: `GarbageAssumption` (a line that is not JSON is no body),
`BoundAssumption` (the period is positive), and `BodiesAssumption` and `LineAssumption` for the
composed system.

* `RecordsFaultsOnly`: the records written, and what the last line costs yet, are together no more
  than the kills, the failed writes and the readable lines (`RecordsCounted`). A fragment costs
  the record that follows it; a record without its newline costs that and itself (`Debt`).
* `SummaryKeepsUp`: a summary that is not of this process covers nothing (`Covered`), and between two
  flows no more than `count % FlushEvery` are not covered (`SummaryLag`). `Remainder` is the
  arithmetic of it.
* `LocalHitsReachDisk`: an endpoint is flagged only if it has had a local hit, and a flow with one
  does not get past the reports (`HitsListed`).
* `SystemReportsOnce`: an addon step leaves the verbs on file alone, adds one, or takes one away
  with the last line (`FileSteps`), and what the watcher has read or reported is, or was, on file
  (`WatchOnFile`). So each step of the system is one of `VerbReport`, or leaves its variables alone.
* `SystemTypeCorrect` has the bounds of the runs, whatever they are: the count of a process, the
  hits of an endpoint, the flows of a summary and the records written never run ahead of the flows
  that were kept (`CountersBounded`, where a flow at hand is counted before its record and its
  endpoint are). What the watcher holds comes from lines of the file (`WatchOnFile`, `WatchKinds`).
* `ListingsLoseLittle` counts what is gone (`LossesCounted`): the lines the last listing had and
  the verbs that were on file, each together with the line that stands without its newline
  (`AtRisk`), are no more than the kills and the failed writes. Only a fault puts a line at risk,
  and spoiling it takes the risk away (`RiskPaid`). `SystemRunsAddon` says that the watcher does not
  disturb the addon, so the theorems about the addon hold of the system.

Only model-checked: the four liveness properties (`EveryConnectionMeasured`, `EveryQueryHandled`,
`ShutdownDrains`, `VerbsAppear`), as liveness under fairness is out of the prover's reach. Every
other property of a passing run, invariant or action property, is stated by a theorem.

## 6. Where the code departs from what it says

Two departures are shown by a run that TLC finds violated, and are listed under `findings`:
names recorded with the wrong client, and a comparison of one device with another.

Others came up while the models were written. The models have the behaviour, and no
property claims the opposite:

* `tlsprobe.py:343`: any failed connections, a port scan for example, lead to "device
  validates certificates", although the docstring (lines 12-18) sets apart "an unrelated
  protocol-negotiation failure".
* `tlsprobe.py:340`: the handshake of `--self-test` ("connect to ourselves to verify the rig works")
  alone makes the verdict "impersonation VIABLE".
* `tlsprobe.py:90`: files are looked up by the first host name, so a later run with more
  `--host` names serves a certificate that does not have them, against lines 81-82.
* `dnsproxy.py:117`: a query that cannot be parsed is forwarded without a line in the log
  ("Log every query", line 7).
* `dnsproxy.py:136`: an IPv6 `--hijack` target is accepted by `main` and makes `socket.inet_aton`
  raise in the worker: the client gets no answer, although lines 11-12 say that the configured
  hostnames are answered. `HijackKeepsFromCloud` demands the answer for IPv4 targets, and demands
  neither an answer nor silence for the others.
* `dnsproxy.py:128`: `seen` is read and written without a lock, so a hit may be lost, although line
  112 calls it "hostname -> hit count"; `HitCountBounds` says what remains true. Line 129 reads it
  a third time, so that two lines of a name, or none, may be marked as new.
* `dnsproxy.py:217`: an `OSError` of `recvfrom` is reported as "bind failed".
* `set_capacity.py:184`: the name of a capture is the local time to the second, without the serial
  number, and the file is opened with "w": of two runs in one second, or of two whose local time
  is the same because the clock was set back, the second replaces the evidence that "survives
  regardless of outcome" (line 37). `EvidenceSurvives` excepts a capture that was replaced so.
* `set_capacity.py:171`: without positive readings of resin and hardness there is no band and
  no word about it.
* `set_capacity.py:266`, `set_device_time.py:166`: any status but 200 is "Rejected ... nothing was
  changed", although a gateway error does not tell whether the command was queued.
* `set_capacity.py:282`: when the device had the value already, APPLIED is printed for a
  command that was ignored; `AppliedIsExecuted` excepts it.
* `culligan_addon.py:294`: a kill between `open(path, "w")` and the write leaves an empty
  summary; `mitm/README.md:33` says that Ctrl+C never loses reports.
* `culligan_addon.py:195`: a kill between a record and its newline lets the next record spoil it, so
  that a later `--once` lacks a command an earlier one has printed ("print everything seen so far",
  `watch_commands.py:7`); `ListingLossBounded` says how many can be lost.
* `culligan_addon.py:175`: a flow whose record could not be written is counted, and is in no report.
* `culligan_addon.py:158`: a second capture replaces the inventory of the first.
* `culligan_addon.py:215`: an endpoint first seen at a public address is never flagged [LOCAL].
* `watch_commands.py:72`: a verb captured during the last sleep is not reported.
* `watch_commands.py:38`: a body that is JSON but no object ends the watch, and every `--once` from
  then on; so does a command that is a list or an object (lines 55, 69 and 74).
* `set_device_time.py:99`: "default: now" is the start of the run; what is set is behind by the time
  the prompts, the calls and the queue take.
* `send_command.py:102`: `--set` overrides `--params` without a word, and a malformed `--params` is not
  looked at then.
* `send_command.py:169`: "200 only means the cloud accepted the request" is printed for any status.
* `diff_capture.py:84`: the status of the registry is not looked at, so that a failed call is
  "no devices on this account".
* `diff_capture.py:96`: a body without datapoints gives "nothing outside the expected-drift set
  moved", with every field vanished.
* `diff_capture.py:40`: a write that lands on a field of `EXPECTED_DRIFT` is listed as drift, and one
  that lands on the remaining capacity makes the report say "POSITIVE -- the controller now has
  usable capacity" (line 147) whatever the controller has; `NumberDecides` excepts it until the next
  regeneration.
* `diff_capture.py:150`: "permanently exhausted" is also printed when all of a real capacity was
  used; `NumberDecides` excepts it.
* `capacity_probe.py:191`: "the blank-capacity fault is NOT present" rests on a datapoint alone, which
  a write may reach without the controller (`diff_capture.py:13`).
* `capacity_probe.py:217`: between midnight and the regeneration the water of the day before is
  counted against capacity and not in `used today`, the opposite of what the message explains.
* `parse_capture.py:207`: `read_pcap` is a generator, so a missing or foreign file is a traceback
  from line 213; "error: ..." is never printed.
* `parse_capture.py:228`: queries and responses both count under "DNS queries".
* `parse_capture.py:80`: the tags of VLANs are walked in Ethernet frames only; cooked captures
  (`-i any`) lose tagged frames.
* `parse_capture.py:239`: each segment is parsed alone, so a hello split over two is missed when its
  server name is in the second.

## 7. What is not modelled

* Text: log lines, reports and dumps are abstracted to which entries they have.
* Bytes inside `DnsProxy`: whether `parse_question` succeeds is a choice of the environment there.
* In the capture parser: fragments of IP packets (`parse_ipv4` does not look at the offset), byte
  order and time stamps of the file, the two bytes of lengths above 255. An IP header that is
  longer than the packet, and a TCP data offset below 20 or behind the segment, are one case each
  with a packet that is too short: all of them are passed over.
* In `capacity_probe.py`: the plausible range, `regen_mode` and `show_related`, which print readings
  and decide nothing; in `set_device_time.py` the readings shown before sending.
* `--params null` and other JSON that is no object: it is sent as it is.
* `sendto` failing on an open socket, and `accept` errors that go away.
* In `watch_commands.py`: the time stamps and parameters of commands, of which `--once` prints the
  first six distinct ones (lines 59-66), and commands that are numbers or true, which `sorted`
  (lines 56 and 70) compares with each other but not with names.
* In `set_capacity.py`: the other datapoints of a capture.
* In `capacity_probe.py`: a working capacity below zero, which is printed as 0 gallons.
* Cipher and protocol settings of the probe's context.
* `redact`, `scrub_text`, `shape` and `normalize_path` of the addon: endpoints and bodies are
  model values.
* `recon.py` and `test_api_client.py`: input and output with nothing kept in between.

## 8. Plan

What would add most from here:

1. One model of several tools and the comparison: `SetCapacity` together with `Diagnosis`, so that
   the captures are those of its runs.
2. Helpers of the addon: `normalize_path` (which paths are one endpoint) and `shape`.
3. In the capture parser, lengths of two bytes and the byte order of the file.
