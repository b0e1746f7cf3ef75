# linux-info-mcp: a verification project

linux-info-mcp is an MCP server that runs read-only diagnostics on Linux hosts over ssh. A client
calls one of 78 tools; the server validates the arguments, turns them into one remote command, runs
`ssh <host> -- <command>` with a timeout and a cap on the output, and answers with JSON. This directory
holds TLA+ modules of the parts of it where things can go wrong in an order nobody wrote a test for,
the TLC configurations that check them, and TLAPS proofs that hold for every value of the constants.

Paths such as `ssh.py:200` are relative to `src/linux_info_mcp/`; those that start with `README.md`,
`SPEC.md` or `SECURITY.md` are relative to `src/`.

## 1. Inventory

| Component | Code | State it keeps | Operations |
|---|---|---|---|
| ssh runner | `ssh.py:142-249` | per call: child process, two pipes, two daemon threads, two boxes, `timed_out` | `run_ssh`, `_read_bounded` |
| command builders | `ssh.py:38-139`, `tools/*` | none | `_ssh_argv`, `build_remote_cmd_*`, `sudo_tokens` |
| call dispatch | `server.py:267-359` | per call: outcome, error, result; the event loop's default executor | `_call_tool` |
| multi-host fan-out | `server.py:224-264` | per call: a thread pool, futures, `results` | `_run_multi_host`, `_run_handler_for_host`, `_multi_host_failed` |
| target resolution | `validate.py:50-135` | none (reads the environment on every call) | `resolve_target_hosts`, `validate_host_list`, `validate_host`, `effective_max_hosts`, `parallelism` |
| error taxonomy, output modes | `server.py:37-130`, `validate.py:250-269` | the result, changed in place | `classify_error`, `_annotate_privilege`, `apply_output_mode`, `resolve_output_mode` |
| call context | `log.py:13-41` | a context variable: tool and request id | `set_call_ctx`, `reset_call_ctx`, the log filter |
| logging set-up | `log.py:108-154` | `_CONFIGURED`, the root logger's handlers | `setup_logging` |
| argument validators | `validate.py:138-334`, `tools/_common.py` | none | `validate_*` |
| file and archive tools | `tools/files.py`, `tools/archive.py` | none | `read_file`, `find_files`, `read_binary`, `archive_list`, `archive_read` |
| reports in sections | `tools/facts.py`, `tools/triage.py` | none | one remote script, its output split into sections, facts and warnings made of them |
| parsers | `tools/_parsers.py` | a current sample across lines | `parse_df`, `parse_free` |
| single-command tools | the 14 other modules of `tools/` | none | validate, build one command, return the result of `run_ssh` |
| tool discovery, schemas | `server.py:133-221` | tables built once at import | `_discover_tools`, `_augment_schema` |
| MCP stdio server | `server.py:362-384`, `server.py` | streams of the `mcp` library | `_run`, `main` |

How they interact:

- The `mcp` library runs each `tools/call` request as a task of its own on one event loop, with a copy of
  the context. `_call_tool` has one `await`: it hands a function to `asyncio.to_thread`, which copies the
  context into a thread of the loop's default executor.
- For one host that function is the tool's handler. For several it is `_run_multi_host`, which makes a
  thread pool of its own, copies the context once per host and waits for all hosts.
- Each handler calls `run_ssh`, which spawns a client and two threads that drain its pipes.
- Shared by calls that run at the same time: the default executor, the context variable, the log file,
  the environment. Nothing is persisted; there is no crash recovery to speak of.

What is hard, and what correctness means there:

| Component | Hard behaviour | It is correct if |
|---|---|---|
| ssh runner | exit, timeout, kill, full pipes, two readers, and a descendant of the client that keeps a pipe | the answer is honest about what it holds, is bounded, leaves no process or descriptor, and comes |
| fan-out | hosts end in any order and in any way; a worker thread cannot be started | each slot holds its own host's entry; nothing runs afterwards; failures are counted |
| dispatch | other calls run during the `await`; cancellation; a full executor; nested pools | log lines carry their own call's id and say the truth once; a host that fails does not fail the call; calls end |
| targets | limits at their boundaries; dedupe; one bad host in a list | all hosts are acceptable and within the limits, or none is asked |
| taxonomy, modes, parsers | one stderr matches several patterns; a parser raises; the lock and the argument disagree; a table with lines that cannot be read | the first cause is named; no output is lost; no partial output is parsed; no swap is put to the wrong memory line |
| tools | arguments that exclude, need or override each other; a pipeline's status is its last program's; base64 cut at the cap | what is asked for is in the command or the call is refused; a failure leaves a trace; binary data is whole or said not to be |
| reports | restricted and absent sources; values at a threshold; a script's output cut anywhere | a whole report tells exactly what is wrong; a cut one is wrong only where it was cut |

`PROJECT.json` lists each hazard at its line with the properties that catch it, or why none does yet.

## 2. Modules

| Module | What it is | Code |
|---|---|---|
| `RunSsh` | one call of `run_ssh`: calling thread, drains, client, descendant, pipes | `ssh.py:142-249` |
| `SshCall` | what a caller of `run_ssh` sees: the abstract specification that `RunSsh` implements | `ssh.py:68-75, 209-249` |
| `RunSshProofs` | theorems about `RunSsh`, the refinement included | |
| `FanOut` | one `_run_multi_host` and its pool | `server.py:224-264` |
| `HostCalls` | what a call promises about the hosts it asks: the abstract specification that `FanOut` and each call of `Dispatch` implement | `server.py:224-251, 300-314` |
| `FanOutProofs` | theorems about `FanOut`, the refinement included | |
| `Dispatch` | several `_call_tool` at once, default executor, contexts, cancellation, log lines | `server.py:224-359`, `log.py:13-25` |
| `DispatchProofs` | theorems about `Dispatch`, the refinement included | |
| `Targets` | arguments and environment to hosts and workers | `validate.py:50-135` |
| `TargetsProofs` | theorems about it | |
| `Tables` | `parse_free` and `parse_df` over lines | `tools/_parsers.py` |
| `TablesProofs` | what `parse_free` makes of a text, by induction over its lines | |
| `Results` | a handler's result to the client's answer, with `Tables` for its parsers | `server.py:37-130`, `validate.py:250-269` |
| `ResultsProofs` | theorems about it, with `TablesProofs` | |
| `Tools` | the arguments, rules and pipes of 76 tools | `validate.py:138-334`, `tools/*.py` |
| `ToolCall` | one call of one of them: arguments, command, source, pipeline, result; with `Results` for what is made of it | `ssh.py:38-139`, `validate.py`, `tools/*.py` |
| `ToolCallProofs` | theorems about it | |
| `Sections` | the text of a report, whole or cut, and its sections | `tools/triage.py:69-109`, `tools/facts.py` |
| `Triage` | probes, readings and warnings of `triage` | `tools/triage.py` |
| `Facts` | probes and readings of `host_facts` | `tools/facts.py` |
| `Reports` | one call of either: script, what arrives of it, answer | `tools/triage.py`, `tools/facts.py` |
| `MCReports` | the hosts TLC checks `Reports` on | |
| `ReportsProofs` | theorems about `Reports`, for every host | |

Operators named in a comment as *Mutant* are wrong versions of the definition that follows them: each is a
bug a change to the code could bring in, and the property named with it in `PROJECT.json` fails when
it takes the place of the definition. They are no part of any specification.

### RunSsh and SshCall

Bytes are counted, not represented: `written[s]` were put into the pipe of stream `s`, `pipe[s]` are still in
it, `got[s]` were taken by its drain. What the client has been relieved of is more than that: `pipe.read` goes through a buffered
reader, whose last read may fill its buffer of `BufSize` with bytes nobody asks for (`Take`). `pc` is the line the calling thread is at: `call` (the environment is
read and the client spawned), `arm` (the timeout is read), `wait`, `kill`, `reap`, `join_out`, `join_err`,
`collect`, `close_out`, `close_err`, `finish`. A drain goes through `loop` and `reading` (inside
`pipe.read`), until it has enough or finds the end of the file. `setup` is what the environment does to
the call (nothing, a malformed variable, no ssh program), `inherits` the streams whose write end a descendant of
the client inherited, such as a wrapper's background child or a ControlMaster.

Choices that matter:

- A read in progress holds the buffered reader's lock, so closing the pipe waits for it
  (`Close` is disabled while the drain is `reading`).
- A timed wait may expire at any time the last poll saw the client running; the client may exit
  between that poll and the kill.
- `join(timeout=2.0)` gives up only on a drain that is stuck in a read with nothing to read: two seconds are taken to be
  enough for a thread that can run. Two drains that are merely slow are not modelled.
- SIGKILL takes effect at once. A thread that cannot be started and a negative cap are left out.

`SshCall` forgets all that: bytes are said while a call runs, and it returns once, with an answer that is
`Honest`: whole up to the cap and flagged exactly when cut for streams nobody shares, no more than was said and no
flag without cause for the others, and a timeout marked. `RunSsh` implements it under the mapping at the end
of the module.

### FanOut

`fut` and `ending` are the futures of the hosts, `threads` the worker threads started, `results` the slots,
`yielded` what `as_completed` has handed out; `pc` the caller's line. The pool is the standard library's:
a submission starts a thread unless one counts as idle, workers take the oldest task, `shutdown(wait=True)`
at the end of the `with` waits for the threads, which empty the queue first. `SubmitFails` is a thread that cannot be
started: `submit` raises with its task already queued, and the exception leaves through the `with`.

`HostCalls` forgets futures, threads, slots and the queue: the handlers of a call's hosts begin in the order of the hosts, a bounded number at a
time, and the work is done when all have ended, raises when none is running, or is dropped before any has begun. `FanOut` implements it under
the mapping at its end, and so does the work of each call of `Dispatch` (`HostCallsKept`). `Dispatch` has a fan-out in fewer steps than `FanOut`;
that both keep one promise is what lets the one stand for the other. What follows for `FanOut` is that nothing runs after it
(`NothingRunsAfter`), for `Dispatch` that a dropped call never runs (`DroppedNeverRuns`); both are theorems of their own.

### Dispatch

A call is a coroutine (`call`), a work item in the default executor (`job`, `queue`, `threads`), its hosts'
handlers (`host`, `reached`) and its contexts (`ctx`: of the task, of the executor's thread, of each host's
run). `tags` collects every line logged on behalf of a call with the request id that line carries; `logged` its
`tool_call` lines. A call stands for its own request id (they are random and taken to be unique).

A context that another thread is in cannot be entered: `ctx.run` raises before the handler is reached (`unentered`), outside
the code that would make one host's entry of it, so the call as a whole fails (`raised`). The model has this
way out, and no state takes it (`NoHostFailsTheCall`), since each host has a copy of the context of its own: a fan-out fails as a whole
only where a thread could not be started (`SubmitFails`, or `starved` within it).

`Refuse` is an unknown tool or arguments that do not validate, `Await` the way to `to_thread`, `Resume` the way from it to
the answer, with `finally` included. `Cancel` is `CancelledError` at the one `await`: the `except Exception`
clauses do not see it, a queued item is dropped, a running thread goes on and keeps its slot. `SubmitFails` is caught for one host
and logged as `handler_error`; for several it escapes. Handlers of a fan-out run on workers of their own
(`WorkerFree`), in `FanOut`'s order; a fan-out that could not start a worker raises (`JobRaises`). The default executor and
cancellation belong to the Python library and to `mcp`, which are not in the repository: they are modelled from how
`server.py` uses them.

### Targets

`args` is the two arguments, `env` the three variables. `Resolve` is `resolve_target_hosts` with the checks of `validate_host_list` that come
before its loop, `Check` one round of the loop, `Return` its end. Names are abstract: `Wellformed` are those that pass the
character checks, `env.allowed` those on the allowlist (all, if there is none).

### Results and Tables

`stderr` is the set of known phrases in it and a regular expression the set of phrases it matches; one phrase, `permission denied (`,
is in two of them. `lines` is the output of `free` or `df` as the parsers tell its lines apart: a `Mem` line with its three
numbers or without, a header, a row. The three steps change `result` in place, as the code does; `Rows` reads `lines` with
`ParseFree` or `ParseDf`, and the text stays if that raises (`Raises`), if the status is not 0 or if the output was cut.
`Faithful` says of samples and text, without a current sample, what `parse_free` must have made of it: each readable `Mem` line
begins one, in the order of the lines, a swap is that of the last `Mem` line before it if that could be read, and no swap is
left out but for a later one of its sample (`ReadFrom` has the line each sample is from).

### Tools and ToolCall

`Tools` has a record for every tool but the two composite ones: its arguments with the values they take (`Kind`), which of
them must be given (`needs`), which exclude or need each other (`rules`), and what becomes of them in the command - words said only with or
without others (`only`), words said always (`always`), `sudo` (`root`), and the program the output goes through (`pipes`). The
order of the code's checks does not matter, as each ends the call with an error; what is refused does. Of a range `Values` has the ends and
one past them, of names those that a rule tells apart, and junk.

`ToolCall` takes such a record through a call. `Give` is the client, `Validate` the handler's checks and its builder, `RunSource` the first
program, which may end in any way its kind allows (`Ends`), `RunPipe` what it is piped into, `TimeOut` the 124 of `run_ssh`,
`Answer` the handler's result. A pipeline has the status of its last program, hence: `| tail` and `| base64` succeed whatever the source did,
`| grep ... || [ $? -eq 1 ]` makes 0 of "no match" and 1 of a bad pattern, `2>&1 | grep` takes complaints for lines, a script of probes
never fails. Base64 text is counted in characters: `Encoded` is its length, and a stream cut at the cap decodes only in
whole groups of four (`Decodes`), in which case `Decoded` bytes are left of it.

### Sections, Triage, Facts, Reports

A host is a function from what a probe reads to its value, `None` where the source is restricted or absent. `TriageScript` and
`FactsScript` are the lines each probe prints for a host; a line is its kind and number. `RunProbe` prints a section, and the
text ends after the last one (`Receive`) or anywhere (`CutOff`): between two lines or within one, of which a
shorter line is left (`CutLines`): fewer digits, a piece nobody can read, a marker that no longer is one. A cut text is what a
timeout, the cap or a lost connection leaves; the handlers read it like any other. `Answer` splits it into sections, reads the facts and
builds the warnings. Most readings are the first line of their kind; some facts of `host_facts` are all of the text of a section
(`SectionText`), which a piece of the next marker, if that is cut, makes `Garbled` (`FactsStand` says which, and when). `Troubles(host)` is the reference: what is wrong with the host, stated from
the thresholds at SPEC.md:1040 with shares in thousandths, where `Warnings` compares products and counts lines, and with the faults of the
kernel listed at `tools/triage.py:30-39`, as a number being a sum of them (`FaultIn`), where `Warnings` masks bits. `FactsOf(host)` is the same
for `host_facts`. Load, pressure and clock offset are in hundredths; the offset is a magnitude, as `abs` makes it.

`TriageHosts` and `FactsHosts` are the hosts of an instance; `HostsAssumption` says that they are hosts at all (`TriageHost`,
`FactsHost`): a reading is a natural number or `None`, a host has a processor and memory, tables have any length. `Tens` is
the set of powers of ten that a number loses digits by; nothing proved depends on which they are.

## 3. Runs

| Run | Bounds | What it shows |
|---|---|---|
| `one_call` | cap 2, reads of 2, a reader's buffer of 2, pipe of 2, marker of 1, streams up to 7 bytes, exit 0 or 124 | `FaithfulAnswer`, `NothingInvented`, `MarkedOrFlagged`, `NothingLeftBehind`, `DrainDiesOnlyIfHeld`, `BoundedIntake` (no more is accepted of a host than the cap, a reader's buffer and a pipe hold), `UnreadOnlyPastCap`, that `RunSsh` implements `SshCall`; `CallEnds`: no order of exits, kills, full pipes and joins makes the threads wait for each other |
| `fan_out` | 4 hosts, 2 workers | `OwnSlot`, `FailuresCounted`, `FanOutEnds`, that `FanOut` implements `HostCalls` |
| `calls` | 3 calls, 2 executor threads, 1 host each | `OwnRequestId`, `BoundedHandlers` |
| `fan_outs` | 2 calls, 2 executor threads, up to 2 hosts each on 2 workers | `NoHostFailsTheCall`, `LoggedTruth`, `CallsEnd`, `HostCallsKept`: that the work of each call is that of `HostCalls` |
| `targets` | lists of up to 4 of 4 names, every allowlist, limits 0 to 4 around a hard limit of 3 | `DedupedInOrder`, `AllOrNothing`, `WithinHardMax` |
| `answers` | exit codes 0, 1, 124, 127, 255, every set of phrases, texts of up to 5 lines | `ShapeAsLocked`: text or structure as asked for or locked, structure exactly of output that is whole, successful and readable; `FirstCause`, `SamplesFaithful`, `TextOrStructure` |
| `tool_calls` | 76 tools, up to 3 optional arguments, 6 bytes of source, caps 3, 6, 11, 16 | `GivenIsUsed`: nothing asked for is dropped but two arguments that others override; `FailureNoticed`; `BinaryWhole` |
| `reports` | 1815 hosts for `triage`, healthy but for any two readings at, below and past their thresholds, zero or absent; 1728 for `host_facts`; a text whole, cut before each line, and within each | `WholeReportIsTrue`, `OnlyTheCutLies`, `CapabilityTold`, `FactsStand` |

Why the bounds are enough to see the interesting cases: a stream of 7 bytes overruns the cap, the one byte
read past it or a buffer of the reader, and a full pipe, and still has a byte that blocks its writer; a read of 2 under a cap of 2 takes two reads,
the second cut short by the cap. A marker longer than the cap is left to the theorem about `MarkedOrFlagged`. Four hosts
on two workers queue, overlap and end in every order; three calls on two threads leave one in the queue to be
cancelled; two fan-outs fill the executor, so that workers taken from it would deadlock. Four names make lists with
repetitions apart from each other, and a limit above the hard one. A text of five lines has a sample before and after a line that
cannot be read. Three optional arguments are more than any rule relates; six bytes are two groups of base64, and the caps have
room for none, one, less than two and all of them. Two readings are more than any warning is made of,
but for the memory and swap lines, whose other halves `Healthy` has. What TLC cannot show - every size - the theorems do.

The runs do not check for deadlock (`CHECK_DEADLOCK FALSE`): a call, a fan-out and a server without further calls come to
an end. Where something could be stuck before its end, a liveness property says it is not.

Runs that find the code at odds with its documents:

| Run | Document | What happens |
|---|---|---|
| `unflagged_loss` | SPEC.md:71 | the client exits 0 while a descendant holds stdout: the join gives up, the box is empty, and the answer is empty, not flagged, with exit status 0 |
| `timeout_hangs` | SECURITY.md:39 | after timeout and kill, closing the pipe waits for a drain whose read ends only when the descendant lets go |
| `privilege_twice` | SPEC.md:1294 | `Permission denied (publickey)` gives `error_kind` `auth` and `privilege_error` |
| `hidden_privilege` | README.md:155 | `dmesg \| tail` that may not read the kernel log ends with status 0, so the complaint in `stderr` sets no `privilege_error`; `read_file` with `grep_pattern` likewise |

Also met while modelling, and visible in the definitions: an integer limit below 1 means the default of 10 hosts
(`validate.py:84`, SPEC.md:1273), where README.md:64 says it is clamped to 1; the `tool_call` line of a `nonzero` outcome has no `error` (`server.py:319`),
where SPEC.md:1424 has one on every outcome but `ok`; calls beyond the default executor's threads queue (`server.py:314`), where
README.md:123 has parallel calls take the time of the longest; the timeout marker is cut when stderr nearly fills the cap
(`ssh.py:213`, README.md:62), which `MarkedOrFlagged` states as the code has it. Of the tools: README.md:157 has sudo for the tools it
lists "and only those", where the samplers `sar`, `atop` and `pmrep` take it too (`tools/sampling.py:87`, SPEC.md:1155); a
sudo that is refused says "a password is required", which `_PRIV_ERR_RE` does not match (`server.py:37`); `grep_flags` without a
pattern and `decompress` with a codec are accepted and dropped (`ssh.py:100`, `validate.py:275`); the length cap of
`read_binary` is called the maximum (`validate.py:231`) but leaves up to a group of four unused, and allows one byte where the
cap has no room for four characters. Of the reports: SPEC.md:1040 warns of any taint but 0, the code on purpose of five
kinds only (`tools/triage.py:30-39`, where `WholeReportIsTrue` follows the code); "Empty warnings = healthy" (SPEC.md:1068) is true of a report that is whole and of sources that can be
read, which nothing in the answer says when a probe was restricted; SPEC.md:969 takes a `False` capability for a tool that is not there,
where it may be a line cut within; a `hypervisor`, `container` or
`whoami` of a report that was cut may have a piece of the next marker in it (`tools/facts.py:130`).

## 4. Fairness

- `RunSsh`: weak fairness of the calling thread and of each drain - Python threads that can run do run, and
  both timed waits expire. Nothing of the remote command: it may run, write or block for ever. `CallEnds` is
  checked under `ReleasingSpec`, which adds that a descendant lets go of the pipes some time (a ControlMaster with
  `ControlPersist=60s` does); `timeout_hangs` is what happens without that.
- `FanOut`: weak fairness of the pool's threads and the caller, and that a handler that runs ends - `CallEnds` says
  when `run_ssh` does.
- `Dispatch`: weak fairness of the event loop, of the executor's threads and of handlers. None of clients: nobody has
  to call or to cancel, and threads may always be startable.
- `Targets`, `Results`, `ToolCall`, `Reports`: none; their properties are safety properties of sequential code.

## 5. Theorems

TLAPS checks each theorem for every value of the constants allowed by the assumptions named in the modules (sizes are natural
numbers, pipes and reads hold at least a byte, the default limits are within the hard one, ...).
Each module has an inductive invariant `IInv`; its proof has one lemma per action or group of actions, and
the properties follow from it.

| Module | Proved | Why the invariant is needed |
|---|---|---|
| `RunSshProofs` | `TypeOK`, all safety properties of `one_call`, `ImplementsSshCall` | the answer is made of what was collected (`Taken`), which is what the drains had when they were done (`Joined`), which is all there was or enough (`Accounts`), since the client was gone by then (`Stages`, `OpenByStage`) |
| `FanOutProofs` | `TypeOK`, `OwnSlot`, `BoundedWorkers`, `NothingRunsAfter`, `FailuresCounted`, `ImplementsHostCalls` | what was yielded is in its own slot (`Slots`), everything was yielded before the pool was left (`Phases`), tasks end once (`Tasks`), running tasks have threads (`OnThreads`) |
| `DispatchProofs` | `TypeOK`, `OwnRequestId`, `LoggedTruth`, `NoHostFailsTheCall`, `DroppedNeverRuns`, `BoundedHandlers`, `HostCallsKept` | lines are right because contexts are (`Context`), and a context is only set by its own call; handlers go through their stages with their work item (`Stage`), which waits once in the queue (`Waiting`), and the line is the outcome of what ended (`Report`) |
| `TargetsProofs` | `TypeOK`, `DedupedInOrder`, `AllOrNothing`, `WithinHardMax` | the hosts gathered are those looked at (`Gathered`), each with the index at which the list first has it, and these indices increase (`InOrder`) |
| `TablesProofs` | `ParseFreeFaithful` | after each line of the text, the samples so far are faithful to the lines so far, and the last of them is the current one exactly if the last `Mem` line could be read (`FaithfulTo`) |
| `ResultsProofs` | `TypeOK`, `ShapeAsLocked`, `FirstCause`, `TextOrStructure`, `SamplesFaithful` | what is in the result at each stage: text until a structure takes its place, a cause and a mark only once they were looked for; rows are what the parser made of the lines |
| `ToolCallProofs` | `TypeOK`, `BinaryWhole`, `FailureNoticed`, `GivenIsUsed` | a length that was accepted is within the cap (`LengthAccepted`), a source yields no more than it is asked for and does not fail in silence into a pipe (`Sourced`), and what came back has a trace of that, or all of its base64 that fits (`Sent`). The lemma `CapLeavesRoom` is the arithmetic: the base64 of `binary_length_cap` bytes fits in `LINUX_INFO_MAX_BYTES` |
| `ReportsProofs` | `TypeOK`, `WholeReportIsTrue`, `OnlyTheCutLies`, `CapabilityTold`, `FactsStand` | the text received is laid out section by section (`Laid`), with its last section cut or not (`AllLeft`), and the answer is read from that text (`Told`) |

The refinements map states, and each step of the detailed specification is shown to be a step of the abstract one or to change nothing of it.
For `FanOut` this needs one more invariant, `Unbegun`: a pool that could not start a thread lacks one, and without threads nothing has run, so
that a fan-out over one host never raises after its handler ended. For `Dispatch`, `Sized`: a call has hosts exactly when it has a work item.

The argument of `ReportsProofs` has three parts. First, the text: a section that is appended keeps the lines of the others under their
marks, since the marks differ (`TriageNamed`, `FactsNamed`), so whatever the cut, each section has its lines whole (`Entire`), cut (`Cut`), followed
by a piece of the next mark, or none at all (`Left`). Second, one lemma per kind of section shows that its warnings agree with its part of
`Troubles` in each of these four cases (`Agrees`): a count of lines, a table of percentages, a pair of numbers, the interfaces.
Third, each warning is placed in one section by its kind (`PlacedAll`), so the agreement of the sections is that of the reports.

Induction here is over sets of numbers (`Induction` in `TablesProofs`, `Least` in `ReportsProofs`): every set of numbers that is not empty has a
least element, which the library's `NatLessThanWellFounded` and `WFMin` give without an operator for a parameter.

Only model-checked: the liveness properties (`CallEnds`, `FanOutEnds`, `CallsEnd`), since fairness is beyond the prover's backends. Every
other property of the passing runs is a theorem as well.

## 6. Not modelled, and why

The character checks, the quoting and the wording of commands: pure functions of one string each, which a unit test reaches; the
models have words that pass and words that do not. `top_cpu`, distribution names and dates in the reports: lines nothing else depends on.
A probe whose output does not end in a newline, which would swallow the next marker. What a program run on the host prints.
Tool discovery and schemas: built once at import from static tables. `setup_logging`: runs once, before the server starts.
The JSON formatting of log lines and answers. The `mcp` library's protocol and the ssh client's own behaviour, beyond what they do to a call.
Random request ids that collide.

## 7. Plan

Done, in this order: `RunSsh`, `SshCall` and their proofs; `FanOut` and its proofs; `Dispatch` and its proofs; `Targets` and
its proofs; `Results`; `Tools` and `ToolCall`; `Sections`, `Triage`, `Facts`, `Reports`; `Tables` within `Results`; the proofs of
`Results` and `ToolCall`; those of `Tables` and `Reports`.

Also done: `HostCalls`, with the proofs that `FanOut` and the calls of `Dispatch` implement it.

Left: `Dispatch` over `SshCall`'s answers; `setup_logging` and the levels.
