# TLA+ models of the Modbus server-side agent (SSA)

The program in `src/` connects field devices to a cloud platform. A DTU (a
gateway with a serial line behind it) opens a TCP connection to the server and
registers; the server then polls the Modbus slaves ("child devices") behind the
DTU over that one connection, turns their answers into messages for the
platform, and carries out the operations the platform sends. This directory
holds TLA+ modules of that program, the TLC configurations that check them, and
the proofs that TLAPS checks.

All line numbers below are of the files in `src/src` (`*.cpp`) and
`src/include` (`*.h`) that the Makefile compiles.

## 1. The system

### Threads

* the main thread: `main`, `readConfig`, the registration of the agent itself,
  the first accept, and then the loop that calls `AgentMsgHandler`, for the
  operations of the platform ("the agent thread" below);
* a pool of `io_service` threads (`io_service_thread.cpp`) that run the
  completions of sockets and timers: `ProcessAccept`, `onReadReg`, `onRead`,
  `onWrite`, `checkDeadline`, `checkSalveDeadline`, and `Close` through the
  strand of the session. Any two completions of one session may run at once;
* one poll thread for each session: `func`, `Timer::loop`, `operator()`.

### Components

| component | state | operations | model |
|---|---|---|---|
| Polling of one session (`client_session.cpp`) | `_mutex`, `_io_mutex`, `_timeout_mutex`, `_flag`, `_current_sid`, `_current_num`, `_is_close`, `_deadline_timer`, the socket, `_receHeartBeat` | `operator()`, `write`, `onRead`, `process`, `onWrite`, `checkSalveDeadline`, `checkDeadline`, `Close` | `PollSession`, `DeviceReport` |
| Sessions and their registry (`client_session.cpp`, `io_service_thread.cpp`, `map.h`) | `did_to_cs`, `sid_to_cs`, the life of each session, its timers and reads | `ProcessAccept`, `onReadReg`, `regDev`, `checkDeadline`, `toClose`, `Close`, the destructor | `SessionRegistry` |
| Device types and ranges (`modbus_model.cpp`) | `MBTYPES::_m`, `TYPENUM` | `addDevice`, `setmbtype`, `addCoil`, `addRegister` | `RegisterPlan`; mappings in `Upload` |
| Parsing of answers (`modbus_p.cpp`, `util.cpp`) | - | `parseMsg`, `getSid`, `parseCO`/`DI`/`HR`/`IR`, `bat`, `HexToFloat`, `crc16` | where a point is read and how it is decoded: `RegisterPlan` with `Values` and `Crc`; what it is filed under: `PollSession`; which messages it enters: `Upload` |
| Request encoding (`libmodbus.cpp`) | - | `readBat`, `writeCo`, `writeHr`; calls of libmodbus | address and value: `Values`; the refusal of a slave number: `PollSession` |
| Framing (`client_session.cpp`, `modbus_p.cpp`) | `_data`, `_data_pos` | `readReg`, `read`, `checkReg`, `checkMsg`, `checkMP`, `checkHB` | `AnswerReader`, `FrameQueue` |
| Platform operations (`agent_msg_handler.cpp`) | the operation, `_http`, and the sessions it finds | 833/834 set value, 832/847 add device, 817 polling rate | `Operations` |
| Upload (`c8y.cpp`, `modbus_model.cpp`) | `template_msg`, `forward_msg`, the counts, `_msg`, `_forward_msg` | `parseCO`/`DI`/`HR`/`IR` as they enter values, `sendMsg`, `MBDEVICES::clear` | `Upload` |
| Onboarding (`c8y.cpp`, `integrate.cpp`, `main.cpp`) | the objects of agent and DTUs, `_sid` | `main`, `integrate`, `getDevInfo` | `Onboarding` |
| | polling rate, child devices | `getProperties`, `setModbusParms`, `getChildDevices`, `addDevices`, `getModel` | `Operations` |
| Reading of files (`readConfig`, `readSrTemplate`), logging, vendored headers, `*.cc` | - | - | not modelled |

### How they interact

* The lock `_mutex` belongs to nobody: the poll thread or the agent thread
  locks it before a request, and the handler of the answer (`process`), the
  slave timer or `Close` unlocks it. Everything about polling depends on this
  hand-over (`PollSession`).
* `_current_sid` and `_current_num` tell the parser which point an answer
  belongs to. The poll thread writes them, pool threads read them, and the
  Modbus answer itself has no address to compare them with.
* The agent thread finds sessions in `did_to_cs` and `sid_to_cs`, plain
  pointers that `regDev` enters and `Close` erases. A session is kept alive by
  the `shared_ptr`s in its completions, not by the maps.
* `_http` is taken by a handler from its pool thread and forgotten at its end,
  and set by the agent thread: a pointer of the session that two threads use.
* The platform knows agent and DTUs by name. Which object a name stands for is
  asked, and made if need be, in several requests, each of which may fail
  (`Onboarding`).
* The platform's template of a device type decides the ranges to poll, the
  number of values the upload waits for, and the messages they are entered in.

### What makes it hard

Hand-over of a lock among five kinds of threads; a timer that frees it while an
answer is on its way; completions that are queued when the object they act on
is closed; two sessions of one DTU; streams cut anywhere; a completeness test
that only counts; messages that are suppressed when they equal the last one;
objects that are made in steps which fail one by one; numbers that pass through
three encodings, each with its own order of bytes.
`PROJECT.json` lists these hazards one by one, at their lines, with the
properties that cover them.

## 2. The modules

| module | lines of the code | composed with |
|---|---|---|
| `PollSession` | polling of one registered session, all threads that touch its lock | implements `DeviceReport` |
| `SessionRegistry` | all sessions, from accept to destruction | abstracts `PollSession` to what the poll thread waits for, and when it writes |
| `RegisterPlan` | from the platform's template to ranges, and from an answer back to the values of points | gives `PollSession` its constant `Plan`; uses `Values` and `Crc` |
| `Values` | the numbers in requests and answers, as operators | used by `RegisterPlan` |
| `Crc` | `crc16`, as an operator beside a reference definition | used by `RegisterPlan`; what `AnswerReader` means by an answer that is accepted |
| `AnswerReader` | from bytes to packages | implements `FrameQueue`; `PollSession` starts from whole answers |
| `Onboarding` | from the start of the process, and from a registration package, to an object on the platform | refines `GetDevInfo` of `SessionRegistry`; `Operations` goes on from there |
| `Operations` | the agent thread and all sessions it finds | abstracts `SessionRegistry` to register and close, `PollSession` to who holds `_mutex` |
| `Upload` | from answers to what the platform has | takes the answers in order, which `PollSession` shows or refutes |
| `DeviceReport`, `FrameQueue` | abstract specifications | |
| `PollSession_proofs`, `SessionRegistry_proofs`, `Operations_proofs`, `Onboarding_proofs`, `AnswerReader_proofs`, `RegisterPlan_proofs`, `Upload_proofs` | | theorems about the module in the name |
| `LeastNumber` | | induction over a set of naturals, for `AnswerReader_proofs`, `Upload_proofs` and `RegisterPlan_proofs` |
| `MC...` | | constants for TLC |

A definition named `X_Y` whose comment says "Mutant:" is a variant of `X` with a
plausible mistake in it. No behaviour uses it; it serves to confirm that the
properties notice the mistake.

### PollSession

State: the lock (`mutex`), the slave timer (`armed`, `due`: expirations whose
handler has not started, `salve`: where `checkSalveDeadline` is, which holds
`_timeout_mutex` throughout), the poll thread (`pc`, with the loop variables
`dev`, `fc`, `ix`), `_current_sid`/`_current_num` (`curDev`, `curAddr`), the
requests on the line (`wire`), the read completion (`rd`, `io`, `reply`;
`io # "idle"` is `_io_mutex` held), the values kept (`vals`), the write
completion (`wq`, `wr`), the agent thread (`agent`, `opDev`), and the socket
(`isClose`, `open`, `active`, `heard`, and `strand`: where `Close` is).

| actions | code |
|---|---|
| `Wake` | `Timer::loop`, `timer.cpp` |
| `Gate`, `GateOpen`, `CheckClose`, `Reset`, `Select` | `operator()` 430-460: lock and unlock at once, test `_is_close`, `_flag = 0`, `setTimer_1`, `clear`, `_current_sid`, `Modbus::init` |
| `Lock`, `Skip`, `Prepare`, `CheckClosePoint`, `Send`, `NextDevice` | the loops of 500-530 for each of the four function codes |
| `Expire`, `SalveTest`, `SalveFlag`, `SalveRelease` | the timer, and `checkSalveDeadline` |
| `OnReadParse`, `OnReadUpload`, `OnReadRelease`, `OnReadError`, `OnReadClose` | `onRead`, `process`, `parseMsg`, `sendMsg` |
| `OnWriteBegin`, `OnWriteEnd` | `onWrite`, which takes no lock and clears `_is_close` before it may set it |
| `CheckDeadline` | the heartbeat deadline |
| `CloseSocket`, `CloseTimer`, `CloseUnlock` | `toClose` with `Close` as far as 167 (part of the step that closes); its lines 169 and 170, before each of which the poll thread, which takes no lock against `Close`, may set its timer or wait for the lock |
| `AgentBegin`, `AgentLock`, `AgentBusy`, `AgentWrite` | 833/834 with the `try_lock` spin |
| `Lose` | the slave does not answer |

Steps are cut where another thread can see the difference: between the test of
a variable and its use, and where a lock is taken or freed.

`released` is a history variable. It becomes true when the slave timer's
handler or `Close` frees the lock while somebody is using the line, and false
again when a device is begun on an idle line. The safety properties are stated
for `~released`; what happens after a release is the subject of the run
`poll_late_answer`.

### SessionRegistry

Each session has the state of its object (`life`), what it has registered
(`reg`), its socket, its poll thread (`thr`) with the lock it waits for
(`mutex`) and the slave's timeout (`flag`), the outstanding read, wait and
write completions (`rd`, `dl`, `st`, `wr`), where its handler is (`io`), and
where its `Close` is (`cl`). `accepting` says whether the acceptor waits for a
connection. `Handles(s)` are the completions that own the
session; `Destroy` and `Joined` are the destructor, which joins the poll
thread in a pool thread. `Busy` counts the pool threads that are not free.
`Lookup` is `operator[]` of `did_to_cs`, which enters a null pointer.

| actions | code |
|---|---|
| `Accept`, `AcceptFails` | `ProcessAccept`, `init`, the constructor; an error, or a connection whose address cannot be asked, after which nobody accepts again |
| `ThreadStart`, `Wake` | `func`, `Timer` |
| `Gate`, `Arm`, `PollLock`, `PollWrite` | `operator()`: the wait in line 439, `setTimer_1`, the wait in line 508 with what follows it, `write`; what it does then, in `Onward`, is the next range, the next slave or the end of the sweep |
| `SlaveTimer` | `checkSalveDeadline`, which frees the lock |
| `Receive`, `OnRead`, `GetDevInfo`, `SetDid`, `SetSid`, `OnReadDecide` | `onReadReg`, `regDev` with the two map entries as separate steps, `onRead` |
| `Expire`, `CheckDeadline` | `setTimer`, `checkDeadline` |
| `OnWriteBegin`, `OnWriteEnd` | `onWrite` |
| `CloseDid`, `CloseSock`, `CloseTimer`, `CloseUnlock` | `Close`, through the strand: the maps and the socket, and its lines 169 and 170, between which the poll thread may move |

### RegisterPlan, Values, Crc

`AddDevice`, `AddCoil`, `AddRegister` are the calls that `getModel` makes for a
type, in its order; `CoilRanges` and `RegisterRanges` are the `std::map`
arithmetic of `addCoil` and `addRegister`. `CoilsCounted`, `RegsCounted`,
`Pointer` are what `parseCO` and `parseHR` count and where they read. The 125
of `addRegister` is the constant `Limit`.

`Holding` and `Input` are what `parseHR` and `parseIR` make of the bytes at the
pointer, `BitAt` what `parseCO` and `parseDI` make of a coil. In `Values` a byte
is the set of its one-bits and a number a sign and a set of powers of two, so
that 32-bit numbers and floats are compared exactly: `Places` is the switch over
width and byte order, with the case that has no break; `Bat` the extraction of a
bit field with sign; `HexToFloat` the float. The reference they are checked
against (`Meaning`) is not taken from that code: it starts from a memory of the
slave by address, and uses two's complement, IEEE 754 and the byte order that
the comments of `parseHR` give.

`NextCrc` is one turn of the loop of `crc16`, with both tables; `Reference`
divides by the Modbus polynomial bit by bit.

### AnswerReader

A frame is its kind and its length; the socket hands over any number of the
bytes asked for. `want` is the size of the outstanding read, `n` the bytes in
the buffer. `OnReadReg` is `readReg`/`checkReg`; `OnRead` is `read`, `checkMsg`,
`checkMP`, `checkHB`. Altered bytes may look like any frame in `Altered`; only a
read answer or exception has a checksum that is compared. `Buffer` is the size
of `_data`: no Modbus frame is longer, but an altered header may look like that
of a TCP package with up to 65535 bytes, which `checkMP` asks for without a
comparison. When more than `Buffer` bytes have come (`Overrun`) the program is
undefined, and `Undefined` lets anything be parsed.

### Onboarding

`step` is the request that a registration, or `main` for the agent, comes to
next; `sid` the object it has so far. `Lookup`, `Create`, `Bind`, `Adopt` are the
requests 300, 133 or 301, 302 and 132 of `getDevInfo` and of `integrate`; a
request is carried out, fails with or without an effect, or is answered with an
error, which the code takes for "no object" after 300 and for a success after
302. `Leave` is what both do about a failure: the session is closed, `main`
returns. `Crash` ends the process at any step; `Start` begins it again, as the
watchdog of `run.sh` does. `made`, `bound` and `children` are the platform's.
`accepting` says that a connection is waited for, until `AcceptFails`; `lost`
counts the pool threads that do not come back from a destructor
(`SessionRegistry` shows how). `raced` has the names for which a second
registration found no object while the first was making one, `misled` the
registrations that took an error for something else.

### Operations

`Begin...` are the cases of `AgentMsgHandler`; `Scan`, `TryLock`, `Busy`,
`SetValue`, `Write` the loop over `did_to_cs` and the write through
`sid_to_cs`; `AddDevice`, `GetModel` 832/847; `SetInterval`, `TellRate` 817.
Session actions are those that change what the agent sees: `GetRate` is
`getProperties`, or `setModbusParms` when that fails; `LoadKids`
`getChildDevices`. `Tell` is the request 321 of `setModbusParms` and of 817, which
is not looked at and may be lost; `untold` has the DTUs of which the platform then
has another rate than it was sent. `log` holds the states posted for an operation, `wrote` the
sessions its request went to, `deaf` the sessions whose `getChildDevices`
failed.

### Upload

`Points` are the points of each device in the order in which they are read, with
the messages they are mapped to, and `Ends` says where its ranges end in them.
`Begin` is `clear`, after which a device without ranges is passed over;
`ParseCO`, `ParseDI`, `ParseHR` and `ParseIR` enter the values of a range in the
messages their points are mapped to (`Entries`: the
messages after each value of the range);
`SendNothing`/`SendMsg` are the two ways `sendMsg` ends, `Miss` a request
without answer, `Reconnect` a new session. `have` and `forwarded` are what the
platform has, the last message of each id: a post replaces its own (`Received`)
and takes no other away, since the templates post alarms as ACTIVE and nothing
posts the one that clears them (conf/srtemplate.txt, 312, 334, 344, 345 and
313). The history variables are `seen`, what was read since `clear`;
`done` and `forwardDone`, what the last complete sweep read; `lost` and
`lostForward`, whose last post was lost; `fresh` and `pure`, whether
`forward_msg` was empty when that sweep began.

## 3. The runs

| run | question | result |
|---|---|---|
| `poll_line` | Has the line one user, is every answer filed under its own point, and is what is uploaded one value for each range, also when slaves answer with exceptions or late? | yes, until a timeout or a close frees the lock under a request; the session implements `DeviceReport` |
| `poll_progress` | Do slaves that never answer keep the others from being polled? Does the poll thread of a closed session end? | no, while the platform sets no values; yes, unless `Close` has cancelled the timer of the slave that is being polled |
| `poll_late_answer` | The comment at client_session.cpp:435 says `_current_sid` does not change while a request is outstanding. Is that so? | no: the slave timer lets the poll thread go on, and the late answer is filed under the next point |
| `poll_stall` | The comment at client_session.cpp:449 says a broken slave does not cut off the others. Is that so with set-value operations? | no: an unanswered write with no timer pending locks the line for ever |
| `registry_maps` | Is every open connection watched by its deadline, and are the maps right? | yes, except for sessions that registered after they were closed |
| `registry_reclaim` | Is a silent connection closed and its session destroyed? | yes, unless its poll thread waits for ever in line 439 or 508 (`Stuck`), or starts its Timer after the close has stopped it (`Restarted`), or so many poll threads of other sessions do that their destructors hold all threads of the pool |
| `registry_dangling` | client_session.h:107 says `Close` clears the global structures. Are sessions that are gone out of the maps? | no: a package queued before the close registers the session after it |
| `plan_all` | Are the ranges exactly the points of the type, and does a sweep count what the upload waits for? Has every point the value it has in the slave, or that the platform wrote? Is every answer's checksum accepted? | yes for the first device of a type, registers that ascend and do not overlap, no float before the register in its range, byte orders that fit the width, numbers from 1 to 65536, and ranges of up to 32 coils |
| `reader_frames` | Does the session stay in step with the frames, however they are split? | yes; it implements `FrameQueue`, and with altered bytes it never parses an answer that was not sent, until an altered header makes a read overrun the buffer |
| `operations` | Is every operation answered, is what is reported true, do session and platform agree on rate and devices? | yes, for DTUs that stay connected during the operation, unless the line was busy, the last 321 was lost, or `getChildDevices` failed |
| `onboarding` | Do agent and DTUs keep their objects over failures and restarts? Can a DTU be kept out? | yes, unless two registrations of a new DTU overlap or an error answer to 300 or 302 is taken for something else; not by requests, only by an acceptor that has failed or when all pool threads are lost |
| `upload` | Has the platform the values of the last complete sweep, although unchanged messages are left out? Is a device complete again after a sweep was cut short? | yes, each value and each alarm that was called for, but for lost posts; an alarm that has gone stays on the platform; yes |

For every property of a passing run `PROJECT.json` names a mutant that violates
it in that run.

### Bounds

* `poll_*`: two devices (`NDev`), because the hazards are about an answer for
  one slave met by another; two first addresses; coils (which may index an
  empty vector) and holding registers (which may insert a nameless device).
  `poll_line` and `poll_late_answer` poll a slave with two ranges of holding
  registers, so that a range read twice could complete the count, and one with
  coils; `poll_progress` and `poll_stall` a range of holding registers each.
  `Faults` are lost requests, and exceptions in `poll_line` and
  `poll_progress`; silent DTUs, whose sessions are closed and come to an end,
  only in `poll_progress`; failures of the socket itself (`ioError`) in none,
  for the size of the state space. The theorems of section 4 are proved for all
  of them, so that of the safety properties none rests on the faults of a
  run. `MaxLate` bounds expirations in flight plus requests
  unanswered when a timer expires. 1 in `poll_line` lets a timer expire before
  a request is sent and its handler run while the answer is outstanding, so
  that answers are late; 2 in the other runs lets a late answer meet a second
  timeout. `MaxWrites` = 1: a second write waits until the completion of the
  first has begun, which leaves every order of `onWrite` and the steps of the
  other threads. `MaxOps` is one set-value operation in `poll_line` and
  `poll_stall`, none in the others.
* `registry_*`: two sessions of one DTU for the maps, the smallest case in
  which one is erased for the other; one session for its life. `Workers` = 2,
  as in `IOServiceThread`. `MaxBytes` and `MaxSweeps` bound the packages and
  sweeps, so that the state space is finite; they are large enough for a
  session to register, receive data, be swept, and be closed: three packages in
  `registry_reclaim`, two in `registry_maps`, with which both sessions register,
  or one does and reads on. `registry_reclaim`
  has sweeps with any number of ranges and slaves (`Onward`), late poll threads
  and a failing acceptor; `registry_maps` sweeps of one range, for the size of
  the state space. One write of a session is outstanding at a time.
* `plan_all`: every list of up to four coils from five addresses, lists of 8, 9,
  17, 32 and 33, which end at, after and beyond each byte of the sum; every
  ascending list of up to four registers of one or two words, or floats, from
  six; every pair of neighbours of the 48 kinds of registers (width, float,
  sign, byte order). `Limit` = 3 stands for 125, so that lists of four reach,
  meet and pass it. The memories of the slave have a few bits of one byte set,
  or all bits of all: the decoding moves and copies bits, and looks at the sign
  and the exponent only, of which `Memories` sets some and all. The checksum is
  compared for all 256 slave numbers, by which every entry of the tables is
  used.
* `reader_frames`: three frames after the registration, each of five kinds and
  sizes, in any split; an altered header may look like any of them, like a long
  answer that swallows what follows, like a TCP package, or like one that is
  longer than the buffer. `Buffer` = 20, which the registration package nearly
  fills and three frames pass, stands for 1024.
* `operations`: two connections, of one DTU or of two, and two operations; the
  requests of a registration may fail each time. The second DTU has one child
  device, which the platform gets by an operation, so that the loop over
  `did_to_cs` goes on to a second session; slave numbers that are refused are
  left to the theorems.
* `onboarding`: two DTUs, one with two connections at a time, which is what it
  takes for registrations to overlap and for another to need the same pool
  threads; two troubles, so that a failure and a restart, or two failures, meet
  one name; the two pool threads of the code, each of which may be lost.
* `upload`: a device of a coil with an alarm and an event, and a register with a
  status that is forwarded and uses the alarm of the coil, in two ranges, so that
  a sweep can be cut short between them; a device of such a register only, which
  makes the same messages as the first when its coil is 0, so that only the name
  tells them apart; a device with an alarm only, of which many sweeps have nothing
  to say; one without points; and one whose registers share a measurement, so
  that places in it matter. Values 0 and 1, of
  which each mapping can tell the difference; one thing goes wrong at a time, the
  theorems are for any number.

Deadlock is not checked: with their bounds exhausted the models stop, and a
closed session does stop.

### Fairness

* `PollSession`: weak fairness of each thread and completion, of the timer, and
  of the DTU, which answers or loses each request; a `Close` that has begun
  ends, since its strand has a pool thread. Lock hand-over needs no
  strong fairness: no other thread takes the lock again and again.
* `SessionRegistry`: weak fairness of threads and timers, strong fairness of
  completions, which compete for `_io_mutex` and for pool threads with others
  that come and go.
* `AnswerReader`: bytes that have arrived are handed over.
* `Operations`: the handlers that hold `_io_mutex` end; strong fairness of the
  agent, which waits for `_io_mutex` of a session whose handlers come and go.
* `Onboarding`: `main` and each registration go on, since a request is answered
  or fails; the watchdog starts the process when it has ended; strong fairness
  for a DTU without a connection to connect, which is only possible while the
  server runs, accepts connections and has a pool thread free. When it has
  stopped accepting, or all pool threads are lost, `Registers` asks for nothing
  until the process is killed. Failures and crashes are bounded and never forced.
* `Upload`: the poll thread goes on. `Miss` and `Reconnect` are never forced
  and are bounded.

## 4. What is proved

`PollSession_proofs` proves, for any number of devices, any plan and any number
of operations, expirations and writes, and with all of the faults:

* `TypeCorrect`: `Spec => []TypeOK`;
* `OneUser`: `Spec => []LineDiscipline`;
* `AnswersInSync`: `Spec => []ReplyInSync`;
* `ValuesAreTrue`: `Spec => []ValuesTrue`;
* `UploadsEachRangeOnce`: `Spec => UploadFaithful`;
* `ReportsAsPromised`: `Spec => ReportSpec`, the refinement of `DeviceReport`.

The only assumption is `PollAssumption` on the constants, which TLC evaluates
in the `poll_*` runs.

The inductive invariant is `LineInv`, the conjunction of four parts:

* `TypeInv`: the types, and `Position`: the loop variables of the poll thread
  point at a range that exists, without which `Prepare` and `Send` would have
  no type;
* `Cursor`: from the choice of a device on, `_current_sid` is that of the poll
  loop, and from `Prepare` on `_current_num` too. This links what the poll
  thread sends to what the parser compares with;
* `LineDiscipline` itself: the holders of the line exclude each other two by
  two. It is needed for every hand-over, since `_mutex` is freed without a test
  of its owner: an answer may free it only because no one else holds the line;
* `Sync`: in addition to the properties to be proved, while the poll thread is
  between `Gate` and `Select` (`AtGate`) only set-value requests can be on the
  line. The gate is unlocked at once, so an agent may send while the poll
  thread changes `_current_sid`; this is harmless only because the answer to
  such a request is not filed.

Each part has one lemma, with one case for each action.

`sendMsg` compares no more than the number of values with the number of ranges.
That this is enough is `Filed`: each value kept has a place in the plan that it
was read for (`Placed`; a function from values to places, whose existence is the
invariant, since the code keeps none), no two values have one place, the loops
have these places behind them (`Past`), and so has the answer that is awaited,
at a place that no value has yet (`Fresh`). As many values as places then means
all of them, by counting an injection. `FiledInv`, which adds this to `LineInv`,
is inductive; while it holds a step that uploads is one of `DeviceReport`, and so
is every step that files, clears or loses values.

`SessionRegistry_proofs` proves, for any number of connections, DTUs and pool
threads, from no assumption but `RegistryAssumption`:

* `AlwaysWatched`: `Spec => []Watched`. With the types of the three variables
  it speaks of, and with `Shut`, the property is inductive (`WatchInv`): an action
  that takes the deadline away begins to close, and a close ends only when the
  socket has been closed (`Shut`: so it is when `CloseSock` has been passed);
* `MapsPointToLiveSessions`: `Spec => []MapsOwned`. The inductive invariant
  `MapInv` adds to `WatchInv` that nothing else can close a session while it
  registers (`Undisturbed`: no sweep, write or close of it is under way), and that what a map
  holds is open, is known under its own name, and has not passed the erase of
  that map (`Entered`). The session in a map is open, so by `Watched` one of its
  completions is outstanding, and that completion owns it;
* `RegistryTypes`: `Spec => []TypeOK`;
* `RegisteredAreReachable`: `Spec => []Reachable`. The invariant is `OwnInv`: a
  session without completions never gets one again (`Fresh`), so that while a DTU
  has not had two sessions with completions at a time only one of them acts
  (`Alone`), and what its registration has entered so far stays until it closes
  (`Found`).

`Operations_proofs` proves, for any number of connections, DTUs, child devices
and operations, from `OperationsAssumption`:

* `HandlersKeepHttp`: `Spec => []HandlerHasHttp`, inductive with the types: the
  agent may put its connection in place of the handler's, but forgets none;
* `SameRate`: `Spec => []RatesAgree`. The inductive invariant `RateInv` follows
  the rate through both of its ways: a session that registers has read it, or has
  sent its own to the platform, before it enters the maps (`Asked`), and the agent
  sets it in the session before it tells the platform (`Telling`). A lost 321 puts
  the DTU into `untold`, until the platform has got or given a rate again. The two ways agree since a session
  in `sid_to_cs` is the DTU's own and has finished asking (`Named`), and since a
  DTU with two open sessions is in `moved` (`Single`): otherwise the agent could
  set the rate of one while the other has read the old one;
* `OperationTypes`: `Spec => []TypeOK`;
* `SuccessMeansWritten`: `Spec => []SuccessTrue`, and
* `NoChildForgotten`: `Spec => []ChildrenKnown`, from one invariant, `SetInv`. It
  says where an operation is (`Engaged`), that a session has only devices of its
  own DTU (`OwnKids`) and lacks none of them but the one being added to it
  (`Loaded`, `Adding`). So a set-value operation finds its device in one session
  only, which is the DTU's in both maps (`Aiming`): the loop over `did_to_cs` has
  yet to come to it, or works on it, or has answered FAILED (`Progress`).

`Onboarding_proofs` proves, for any number of DTUs, connections, pool threads,
failures and restarts, from `OnboardingAssumption`:

* `NamesAgree`: `Spec => []SameObject`. The invariant that is inductive, `Inv`,
  says that a registration between its look-up and its binding is the only such
  one of its name, and the name has no object yet, unless the name is in `raced`
  or the registration in `misled` (`Alone`); therefore its binding is accepted,
  and what it goes on with is what the platform has (`Agreed`). A session is
  misled into making an object only when there is one (`Astray`), so that it takes
  no name from another. The agent has one `main` and is never in `raced`;
  sessions exist only while it serves (`ServedOnly`), with the agent's object
  bound unless `main` was misled, so that all children have one agent object, although `main` begins anew
  after each restart (`Family`). The lemmas take the actions one by one, for
  `main` and for sessions;
* `OnboardingTypes`: `Spec => []TypeOK`;
* `LeftBehind`: `Spec => []OrphansFew`. The orphans of a name are bounded together
  with the registrations that are about to bind it (`Few`): each of those will
  leave an orphan once the name is bound, a registration that is misled joins
  them and counts as trouble (`GainsOne`), a failure of one leaves an orphan and
  counts as trouble, and the end of the process leaves as many as there were, by
  `Alone` one unless the name has raced, then up to its connections (`Share`).

`AnswerReader_proofs` proves, for any frames, however many, split and altered in
any way, from `ReaderAssumption`, which gives the lengths that the Modbus
frames have and says that they fit into the buffer:

* `ReaderTypes`: `Spec => []TypeOK`;
* `FramesStayWhole`: `Spec => []OneFrame`;
* `ReadsInOrder`: `Spec => QueueSpec`, the refinement of `FrameQueue`, which
  promises nothing of a reader that is `broken`; only an altered line breaks it.

The inductive invariant is `Inv` (`InvAlways`): before the registration the
buffer and what is asked for are together one registration package
(`Registering`), afterwards a header or what the header announces (`Running`), and
on a good line the header in the buffer is that of the first frame of the
stream, of which nothing has been taken before (`Clean`). What a step takes
from the stream is worked out from the ends of the frames, which are sums
(`Ends`), a recursive function: that it is defined and that it grows is proved by
the least-number principle (`LeastNumber`). A package on a good line ends where
the first frame ends, so that exactly one frame leaves the queue.

`Upload_proofs` proves, for any devices, points, ranges and values, and any number of
troubles, from `UploadAssumption`, which says that a range has points of one
kind, that registers only have measurements, and that no id is both that of an
alarm and that of an event, a measurement or a state, or two of those (`RolesOf`:
the platform's templates for them are different ones):

* `UploadTypes`: `Spec => []TypeOK`;
* `PlatformIsTrue`: `Spec => []PlatformTrue`;
* `ForwardIsTrue`: `Spec => []ForwardTrue`.

`sendMsg` knows counts only, and posts only what differs from the last message.
The two parts of the inductive invariant `Inv` say why that is enough:

* `SweepInv`, with `CountInv`: in a sweep the counts of a device are at most the
  points of each kind that its ranges have passed, and as many only if none of
  its ranges was missed; in that case `seen` has a value of each point passed, and
  the messages hold exactly these (`HoldsUpto`: each message has as many values
  as points were mapped to it, each at the place that its point has among them).
  So counts that equal those of the type mean that everything was read
  (`CompleteIsAll`), and nothing of an earlier sweep is left in the messages;
* `PostInv`: what the session posted last the platform has of that device,
  unless that post was lost (`Covers`: it may have more, alarms of before), so
  that leaving out a message equal to it changes nothing, and what holds the
  values of a message holds them with more beside it (`HoldsCovered`). It needs
  the device in what is compared (`Text`), and for what is forwarded, where no
  device is in it, that the platform has one such message for the whole DTU.

What a range makes of the messages is a recursive function (`Entries`), about
which `EntriesDef`, `EntriesFit` and `ParseFacts` are proved by the least-number
principle, value by value: `HoldsPush` for the message that gets the value,
`HoldsSame` for all others, which are others because of `RolesOf`.

`RegisterPlan_proofs` proves, for any templates, any limit and any number of
devices, from `PlanAssumption`:

* `PlanTypes`: `Spec => []TypeOK`;
* `CoilsCovered`: `Spec => []CoilsExact`;
* `RegsCovered`: `Spec => []RegsExact`;
* `NearLimit`: `Spec => []LimitNearly`;
* `CountsAgree`: `Spec => []CountsComplete`;
* `ValuesRead`: `Spec => []ValuesTrue`, and `PointsRead`: `Spec => []PointsTrue`,
  which is the same for the memories of the run;
* `CoilsRead`: `Spec => []CoilsTrue`;
* `WritesReadBack`: `Spec => []WrittenIsRead`;
* `CrcIsModbus`: of every message `crc16` is the remainder that Modbus demands, and
  `AnswersAccepted`: `Spec => []CrcTrue`.

`Types` adds to the types that a nonempty map has a greatest key (`HasLast`), which
is what `rbegin` reads, and that what has been added is a beginning of the
template. `CoilInv` and `RegInv` say that the points of the ranges are those
added so far and that no two ranges meet; `RegInv` also that the last range
ends where the last register does, so that a register either begins a range
beyond all others or lengthens the last one at its end, and why a range may have
one register more than the limit. Lemmas on `Insert` and `Extend` say what they
do to the points. The counts follow by a bijection between what `parseCO` and
`parseHR` count and the list of the template: each point is in one range.

`ValuesTrue`, in the module of the proofs, is about every memory that the slave
may have. It needs one more part of the invariant: a range begins where a
register does (`Starts`). With `RegInv` a range is then made of whole registers
(`RangeOfRegisters`), so that the pointer, which moves by the bytes of each
register before, is at twice the distance from the first point (`PointerIs`, by
a bijection between these bytes and those of the answer), and the answer has the
words of the register there (`AnswerCarries`). What `parseHR` puts together of
them is the word in the order of its comments (`AssembledIsWord`); `bat` takes
the whole of it, and the sign is that of two's complement, since to negate twice
changes nothing (`FieldIs`, `NumberIs`, `NegateTwice`); the bits that `getbitu`
counts from the left are sign, exponent and fraction of IEEE 754 (`ExpIs`,
`ExponentIs`, `FloatBits`). A coil is a bit of the answer (`CoilRead`), and a
register that is written, with any 16 bits, is read back with the words that
`writeHr` sends (`RegisterWritten`).

The tables of `crc16` are compared with the division bit by bit: each of the 256
entries is a sum, modulo two, of bits of its index and of their parity
(`TableBits`), and so is what eight steps of the division leave
(`DividedBits`), so that one turn of the loop is one division
(`NextIsReference`). The functions by which the two folds are defined then
satisfy the same equation (`FoldsAgree`), which takes no induction.

Only model-checked:

* liveness (`PollingProgress`, `PollThreadEnds`, `Reclaimed`, `Drained`,
  `Answered`, `Registers`, `Recovers`), since fairness is about `ENABLED`, which
  this prover does not have.

## 5. What is not modelled

* Time. A timer may fire whenever it is pending.
* What follows the decoding of a value: factor, weight, bias and the rounding to
  decimals, which are floating-point arithmetic. `unbat`, `HexToDouble` and
  `calcFactor` are called from nowhere.
* Modbus TCP (`addr` not empty), except as what altered bytes may look like; of
  its length, which does not count the header but is compared as if it did
  (modbus_p.cpp:162), only that the size is wrong and may be more than the buffer
  has room for.
* DTUs with two slaves of one number. For those of a serial line `getSid` takes
  the one that is polled, `_current_sid`.
* Alarms that the program raises about itself (`checkSalveDeadline`): they have
  no effect on its state.
* `_mbdevices._m[_current_sid]` while no slave has been polled yet
  (client_session.cpp:119, 375): an answer that comes then inserts a device
  without a name and without points, of which nothing is polled.
* Data races on plain variables: every access is taken as atomic. This
  includes the containers that two threads use without a lock
  (`did_to_cs`, `_mbdevices._m`).
* The files that are read at start (`readConfig`, `readSrTemplate`), logging,
  the frames that libmodbus builds, the `*.cc` files, which are not compiled.

## 6. Where the code does not do what it seems to

Besides the three findings in `PROJECT.json` (late answers, the stalled line,
dangling sessions), the models keep the following, and the properties that
would fail say so in their preconditions:

* an expiration that is queued when the timer is set for the next slave marks
  that slave as timed out (`SalveTest`, client_session.cpp:450);
* a session that is closed while a slave is polled leaves its poll thread in line
  508 or 439 for ever, and the destructor with it, when line 169 has cancelled
  the timer of that slave; a poll thread that sets the timer after line 169 is
  freed by it, since `setTimer_1` does not ask whether the socket is open
  (`CloseTimer`, `PollThreadEnds`);
* the poll thread returns at client_session.cpp:522 with `_mutex` locked, and
  `setValue` does for a slave number that is refused (`AgentWrite`);
* an answer of another slave inserts a nameless device, or for coils indexes an
  empty vector (`OnReadParse`, modbus_p.cpp:262);
* `onWrite` clears `_is_close` while `onRead` relies on it (`OnWriteBegin`);
* a session closed before its poll thread has started is never destroyed
  (`ThreadStart`, `Restarted`);
* when the acceptor fails, or the peer is gone before its address is asked for
  (io_service_thread.cpp:88), nobody accepts again, and the session that was
  made for the connection joins a thread that it never had (`AcceptFails`);
* while the destructor of a session waits for such a poll thread, or for one in
  line 439 or 508, its pool thread is lost (`Stuck`, `Busy`);
* `setTimer_1` throws when the session's last completion has run (`Arm`);
* a session that closes late erases its successor from the maps (`EraseDid`);
* a request may ask for 126 registers (`LimitNearly`);
* a register listed after one with a higher number is never polled, and a
  second device of a type doubles the coils that are counted, so that nothing
  is uploaded (`RegisterRanges`, `AddDevice`, modbus_model.cpp:449);
* of several entries of one register number only the first is parsed (`At`), so
  that the device is never uploaded;
* the pointer into an answer does not move for a float (`Step`), so that every
  register after it in the range is read from the wrong bytes;
* a 16-bit register with a byte order for 32 bits runs into the next case of the
  switch (`Places`), and a 32-bit one without such an order is always 0;
* in input registers a 32-bit value is cut to 16 bits (`Input`), and an unsigned
  one from 2^31 on is negative (`Number`);
* coils after the 32nd of a range are wrong (`BitAt`, `CoilsTrue`);
* a point whose number is 0 or beyond 65536 is read from another address, since a
  request has two bytes for it (`ReadBat`, `Addressed`);
* a write to a register takes no notice of its byte order or width
  (`WrittenIsRead`);
* the answer to 302 is not looked at: of two registrations of a new DTU at a time
  one goes on with an object that nobody finds (`Bind`, `raced`), and so does any
  registration whose 302 is answered with an error; any error that 300 is
  answered with makes a second object (`Lookup`, `misled`);
* the request 321 is not looked at: when it is lost, the session polls at the new
  rate, the platform keeps the old one, and the operation is SUCCESSFUL all the
  same (`TellRate`, `untold`);
* a failed `getProperties` replaces the operator's polling rate by the default
  (`GetRate`), and a failed `getChildDevices` leaves a session without devices
  until its DTU connects again (`LoadKids`, `deaf`);
* the length of a Modbus TCP package is compared without its header (`Size`), and
  not compared with `BUFSIZE`: a header that says more, which an RTU frame altered
  by the line may look like, makes a read write past `_data` (`Overrun`);
* an operation may be answered FAILED and then SUCCESSFUL, or SUCCESSFUL for a
  device that no session has (`Busy`, `ScanEnd`);
* `getModel` may find `_http` null, and two threads may share a connection
  (`GetModel`, `HandlerHasHttp`);
* the agent goes over `did_to_cs` without a test: an entry that `operator[]` has
  inserted is a null pointer (`Lookup` in `SessionRegistry`), and one of a
  session that is gone is dangling. `Operations` has neither: its sessions do
  not register or read after `Close` has begun;
* a lost post is not repeated, and `clear` leaves `forward_msg` (`PostMsg`,
  `Begin` of `Upload`);
* the platform is never told that an alarm has gone: alarms are posted as ACTIVE,
  and nothing posts template 313, which clears one (`Received`,
  conf/srtemplate.txt). One that somebody clears on the platform is not raised
  again while the messages of the device are the same; and of a device with
  alarms and events only nothing is posted or remembered when there are none, so
  that one that returns is not raised again either, unless another device has
  spoken in between (`Speaks`, c8y.cpp:270).

## 7. Plan

Done: `PollSession` with `DeviceReport`, `SessionRegistry`, `Operations`,
`Onboarding`, `AnswerReader` with `FrameQueue`, `RegisterPlan` with `Values` and
`Crc`, and `Upload`, each with proofs.

To be modelled: `Session`, `PollSession` and `SessionRegistry` composed for one
session: `SessionRegistry` has the poll thread's waits and who ends them, but no
requests and answers.

To be proved: nothing but the liveness properties, once the prover has `ENABLED`.
