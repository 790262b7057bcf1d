# brewctl: a TLA+ verification of the fermentation controller

brewctl (`src/brewctl/`) is a daemon that runs on a Raspberry Pi. It reads the temperature of
fermentation vessels through an ADC, decides for each vessel whether it has to be heated or
cooled, drives heaters and coolers through a pair of shift registers, shows what it does on an
LCD, and answers a few HTTP requests. This directory holds TLA+ models of it, what TLC checks
of them on small instances, and what TLAPS proves of them for every instance.

## 1. Inventory

| Part | Source | State | Operations | What makes it correct |
|---|---|---|---|---|
| Application | `application/main.cc`, `framework/application.cc` | `stop_`, pidfile, threads | `run()`, `stop()`, SIGQUIT handler, `sendSignal()` | all threads have stopped before the program ends; a request to quit ends it |
| Threads | `framework/thread.cc` | `stop_`, `running_` | `stop()`, `isRunning()` | a stop is never lost |
| Registry | `framework/registry.cc` | the singletons | `init()` | what a thread uses exists when it starts |
| Session manager | `application/sessionmanager.cc` | sessions, display, ambient sensor | `init()`, `updateSessionList()`, `run()` | every session gets its turn; all are stopped at the end |
| Session | `application/session.cc` | profile, times, what the display shows | `iterate()`, `updateEffectors()`, `stop()`, `markComplete()` | section 3 |
| Display, LCD | `application/display.cc`, `peripherals/lcd.cc` | screen, cursor, chosen session | `update()`, `printAt()`, button callbacks | shows the state of a session that exists |
| Effectors | `peripherals/effector.cc`, `defaulteffector.cc` | `state_`, activation times | `activate()` | `state_` is what the output does |
| Shift register | `peripherals/shiftreg.cc` | `ready_`, `currentVal_`, locks | `init()`, `set()`, `clear()`, `toggle()`, `isSet()`, `\|=`, `&=`, `^=` | each call is atomic on the pins, or has no effect |
| SPI port, ADC | `peripherals/spiport.cc`, `adc.cc` | the bus | `transmitAndReceive()`, `read()` | the two users of the bus do not disturb each other |
| Temperature sensors | `peripherals/tempsensor.cc`, `thermistor.cc`, `application/temperature.cc` | moving average | `sense()`, `inRange()` | the average is between the samples, and follows them |
| Buttons | `peripherals/button.cc`, `buttonmanager.cc` | edges, callbacks | `update()`, `registerCallback()`, `run()` | one call per edge, with the argument that was registered |
| GPIO | `peripherals/gpioport.cc`, `gpiopin.cc` | pin modes | wrappers of wiringPi | - |
| HTTP service | `service/httpservice.cc`, `httprequesthandler.cc`, `util/url.cc` | the daemon, connections | `run()`, handlers | the port is taken once it is free; the answer is the one for the request |
| JSON | `service/json/` | wrappers of json-c's reference-counted values | `add()`, `append()`, moves, `fromPtr()` | each value is freed once, and the wrappers show the tree that json-c has |
| Avahi service | `service/avahiservice.cc` | client, entry group, name | `run()`, callbacks | a name collision ends in a registered name, and in one only |
| Database | `sqlite/` | connection, statements | `prepare()`, `bind()`, `step()`, `column()` | a statement is finalised once; a column is the one that was named |
| Configuration, utilities | `framework/config.cc`, `error.cc`, `log.cc`, `util/` | - | parsing, pidfile, daemonise | one process per pidfile |
| Android app | `app/` | - | an empty skeleton | - |

How they interact. `main` starts the session manager, the HTTP service, Avahi and the button
manager as detached threads and then waits for `stop_`, which a signal handler sets. The
session manager's thread alone senses temperatures, calls the effectors and draws the display;
the button thread calls back into the display. Effectors and the display's backlight share the
shift register; the register and the ADC share the SPI bus. The database says which sessions,
effectors and sensors exist.

What is hard here: a write to the bus may fail at any byte and the callers mostly ignore it; the
wall clock drives the control loop and may be set back; sensors die; threads are stopped with
unsynchronised flags; the outputs, the LCD and the network's view of the service outlive the
program; collisions of names are told late; a statement may fail at any of its calls.
`PROJECT.json` lists these hazards line by line, with the properties that cover them.

## 2. Modules

| Module | Models | |
|---|---|---|
| `OutputPort` | what the callers of the shift register rely on | abstract: each call takes effect at one instant or fails and changes nothing; starting switches all off; a dead program leaves the outputs as they are |
| `ShiftReg` | `shiftreg.cc`, and the bus transfers of `spiport.cc` and `adc.cc` | implements `OutputPort` |
| `Effectors` | `Effector::activate()`, `DefaultEffector::activate()` | uses the outputs the way `OutputPort` allows: all of a call, or nothing |
| `Session` | `session.cc` and the loop of `sessionmanager.cc` around one session | extends `Effectors` |
| `Lifecycle` | `Application::run()`, `Registry::init()`, SIGQUIT, the loops of the four threads | one program after the other; the outputs outlive them |
| `PidFile` | `writePidFile()`, `readPidFile()`, the removal of the file, `brewctl stop` | several processes and commands at once |
| `Buttons` | `button.cc`, `buttonmanager.cc`, `Display::init()` | the button thread and the session manager's thread |
| `Url` | `url.cc`: taking a URL apart, percent-decoding | operators, used by `HttpService` |
| `HttpService` | `httpservice.cc`, `httprequesthandler.cc` | the daemon and one connection at a time |
| `AvahiService` | `avahiservice.cc` | against an Avahi daemon and a network |
| `JsonRefs` | `service/json/` | who refers to what, and what is freed |
| `TempSensor` | `tempsensor.cc`, `ambientTemp()` | one sensor |
| `Lcd` | `lcd.cc`, byte by byte | operators: what the HD44780 makes of what class `LCD` sends |
| `Screen` | `display.cc` | extends `Lcd`; kills and restarts |
| `Database` | `sqlite/`, `updateSessionList()`, the logs' writers | each call of SQLite may fail |
| `Services` | what is in `service/` | composes `AvahiService`, `HttpService` and `JsonRefs` |
| `Manager` | what the session manager's loop works with beside the sessions | composes `TempSensor`, `Screen` and `Database` |
| `MCShiftReg`, `MCSession`, `MCPidFile`, `MCButtons`, `MCServices`, `MCManager` | the constants of the runs | |
| `ShiftReg_proofs`, `Session_proofs`, `Lifecycle_proofs`, `PidFile_proofs`, `Buttons_proofs`, `JsonRefs_proofs`, `Services_proofs`, `Manager_proofs` | theorems | |

**ShiftReg.** A word is the set of its 1 bits, so `|`, `&`, `^` and `~` are set operations and a
byte is a subset of `0 .. ByteBits-1`. `near` and `far` are the shift stages of the two chips,
`latch` the pins; a byte that is sent moves `near` into `far`, and RCLK copies both to the pins.
Each byte, the strobe, the lock and the return of a call are steps of their own, so that
threads interleave anywhere and a failed transfer leaves the stages in between. The failed
`ioctl` may have sent its byte or not. `Restart` kills the program at any point; the chips keep
their bits, `currentVal_` is arbitrary until `init()` sets it. `innerLock_` is not modelled: it
is only taken inside `lock_`. An ADC read puts arbitrary bytes into the stages; it is only made
when one thread does all the work on the bus (assumption `OneThreadDrivesBus`), which is what
brewctl does: the two locks alone would not keep the transfers apart.

**Effectors.** `latch` has the outputs that are on, `state` is `state_`, `channel` what the database
gives each effector and `others` the outputs of other sessions' effectors: both come from
`Wirings`, since nothing in the code or the schema keeps two effectors from having one channel.
`Ours(e)` is an output that no other session has, `Alone(e)` one that no other effector has.
`stuck[e]` belongs to no variable of the code: the last call for `e` was to switch it off, and failed.
Many promises of the code can only be kept if switching off works; `stuck` lets the properties
say so exactly. `fitted` is the factory's choice between `Effector` and `DefaultEffector`;
`enabled` is `application.disable_effectors`.

**Session.** `pc` follows the thread through the constructor, `iterate()`, the three readings
of the clock and the sensor inside `updateEffectors()` and the calls of `activate()`, which are
made one by one from the list `calls` that a decision leaves behind. A call in the list whose
`guard` is set ends the list when it fails: that is the `&&` of `deactivateEffectors()`. Temperatures are
natural numbers of kelvin, with 0 for `Temperature()`; one unit stands for the tolerance of
`Temperature`'s comparisons. A profile is a sequence of rows of `profilestage`; the constructor
drops what follows the first row without a duration, which is what `NStages` says. An iteration
that is not due only senses, and is not a step of the model. The moving average is any of
`Readings`, in or out of the sensor's range. A reading may also fail, and always does once the sensor has
died; then `sense()` returns absolute zero, but the average, and with it `inRange()`, is what it
was. The thread's turns with other sessions come between two turns of this one
(`OtherSession`): they may switch any output of theirs.

**Lifecycle.** `main` is the next step of `run()`; `After` lists these steps in their order.
`thr[c]` is where a thread is, `stopReq` and `running` are the two flags of `Thread`, which are
read and written one at a time without a lock. A thread is created by one step and begins at
any later one, so that the main thread may test `isRunning()` before the thread has set it; `late` has
the threads of which that is true. The session manager's sets up the display before it looks at `stop_`
(`SetUp`). `daemon` is the web server: in `daemon_`, or serving although the pointer to it
has been lost. `hot` says that some output heats or cools: the session manager's loop may switch it either
way, its end and `ShiftReg::init()` switch it off. Writes succeed here, since `Session` has those
that fail. A step that may fail ends the program and leaves the pidfile. `Quit` is a SIGQUIT: it
kills a program that has not installed its handler.

**PidFile.** The name refers to an inode, and a process that has opened the file keeps its inode
when the name is removed or given to a new file. Each system call is a step. A start is refused
when `kill(pid, 0)` finds a process. Pids are used again once a process has ended, so that the
pid in a left-over file may be that of another process, or of the one that reads it. `Overlap`
says which commands may be given while another is under way; in the run `pid_file` both may, any number of starts
and one `brewctl stop` at a time. Two histories, of which no step depends, say what has gone
wrong: `killed` has the pids of processes that ended without removing the file, and `raced` says that a process
has passed the check while another one had read the file and not yet written it, or with a file that had lost its
name; it stays true until all processes have ended. All pids have the same number of
digits, and a pid is written completely or not at all. Processes of other programs, which a
start would also take for a running brewctl, are left out.

**Buttons.** A sweep of the button thread reads all buttons and then triggers all handlers, one
by one, under the manager's lock. `registerButton()` takes the lock, `registerCallback()` does
not: what it writes arrives at the button thread in any order, which is what a data race on
these fields can produce. `told` is the state that a handler was last called with.

**HttpService, Url.** The thread starts a daemon once a second until it is told to stop, and
keeps the pointer to the last one only, which is NULL while the first holds the port; at the
end it stops the one that it points to, and ends its open connections wherever they are. If the pointer
was lost the port stays taken, and requests are answered, until the process ends. A request goes through
the callbacks of libmicrohttpd one by one: the query is copied
when the URI is logged, the answer is queued, and the copy is freed. libmicrohttpd and the client are external:
a client encodes its arguments, and may go away at any time. Strings are sequences of character
codes, since what `ParseURL` does with the characters at which it cuts is the question; paths
and keys are one letter long.

**AvahiService.** Names are numbers, `n + 1` is the alternative to `n`. The Avahi daemon's
callbacks wait in `inbox` until the poll loop runs them, so that they come late. `gstate` and
`entries` are the daemon's: what is announced. `Local` are the names that other clients of the same
daemon have; `avahi_entry_group_add_service()` itself fails for these. A fault is a call of the library that fails, or
the daemon giving up the group (`GroupFails`); the negative result of a failed
`avahi_entry_group_is_empty()` counts as true, so that an entry is added to a group that has one.

**JsonRefs.** A value of json-c has a number of references, a wrapper (`Json`, `JsonObject`,
`JsonArray`) a pointer and a map of children. Destructors are calls on `stack`, one step each.
`owned` are wrappers in another one's map, `orphans` values whose pointer was overwritten,
`parsed` what came from `fromPtr()`. That is given a tree of any form: `IsTree` numbers its nodes from the root,
and `Parse` has the wrappers that the recursion makes of them all.

**TempSensor.** Temperatures are numbers of steps above absolute zero. A division of doubles is
rounded to either of the two steps next to the quotient. `least` and `greatest` belong to no
variable of the code. `Warm` changes the temperature at the probe; `SenseFails` is a failed
transfer to the ADC, which returns absolute zero and leaves the average, and so `inRange()`, as they
were.

**Lcd, Screen.** `Lcd` has, for each operation of class `LCD`, the bytes it sends, and an
HD44780 that takes them in halves: the two display memories, the symbols, the address, the width of
the interface. `Screen` draws what `Display::update()` draws of the session whose turn it is, call
by call; which session that is depends on the clock, and is any. `Restart` kills the program after
any number of bytes and maybe with E raised, and starts it again; the controller stays as it is.
`ClockSetBack` makes a session that has begun one that has not.

**Database.** A client's statement is prepared, stepped, reset and read in any order; `names` is
the cache of the columns' names, `handles` counts what SQLite has not been told to finalise. Each
call fails or succeeds. `updateSessionList()` reads the sessions row by row; the writers of the logs
are `prepare()`, two `bind()` and `execute()` with their short circuits.

**Services, Manager.** The parts of `Services`, and those of `Manager`, share no state in the code;
the variable `part` chooses one of them for a behaviour, so that a run asks several questions of one
instance. `EachPart` of the proofs says that a behaviour of the composition is one of every part.

## 3. What is checked

| Run | Question | Instance |
|---|---|---|
| `shift_reg_threads` | is the register atomic, for threads that race, writes that fail and restarts? | 2 threads, 1-bit bytes, all requests; 26 360 states |
| `shift_reg_adc` | do ADC transfers through the stages ever reach the pins? | 1 thread, 2-bit bytes, all requests, ADC; 60 168 states |
| `session` | heater and cooler together; memory, display and outputs agree; nothing left on; a dead sensor, a request to stop | four wirings: own outputs, one that another session has, one for both, one that is none; two profiles, 2 failing writes, clock set back once; 983 248 states |
| `lifecycle` | who controls the outputs, what goes on after the wait, does it end? | the four threads, any number of starts; 27 838 states |
| `pid_file` | does one process run, and does the pidfile name it? | 3 pids, 4 inodes, up to symmetry, starts and stops that overlap; 1 161 476 states |
| `buttons` | is a change of a button forgotten, told twice, or never? | a push button and the two contacts of the encoder; 188 856 states |
| `services` | is the service announced under one name, and in the end; does it get its port; is the answer the one for the request; is everything freed once? | 4 names, 1 of them local, 2 changes of the host's name, 2 faults; 726 requests; 5 JSON values; 102 600 states |
| `manager` | is the average among the samples and follows them; is the screen what was drawn; are statements finalised and columns the ones named? | 3 samples, averages of 3; 2 sessions on the screen; 2 queries, 2 sessions, 2 errors; 228 582 states |
| four violation runs | section 6 | |

Properties of the register: `OutputKnown` (whenever no call is at work, `currentVal_` is the
word on the pins, in spite of half-sent words, ADC transfers and restarts) and `ImplementsPort`
(refinement of `OutputPort`: no lost update, and a call that reports failure changed nothing).

Properties of a session: `NeverBoth` (at no instant, not even between two calls of one
decision, are heater and cooler on together, unless one would not be switched off),
`StateKnown` (`state_` and the output agree), `DisplayHonest` (HOLD and UNKNOWN mean that
nothing is on, COOL that nothing heats, HEAT that nothing cools, but for what is stuck),
`StoppedOff` (a stopped session leaves nothing on unless a switch-off failed),
`DeadSensorSwitchesOff` (a vessel whose sensor has died is soon neither heated nor cooled, and
stays so, although its average stays in range) and `StopTakesEffect`. They hold however effectors are wired;
what they say of an effector depends on who shares its output. If nobody does (`Alone`), they speak
of the output. If heater and cooler do, they speak of `state_` of either, and of the output only
that it is on for one of them. If another session does, they speak of `state_` alone: that session
may switch the output at any of its turns.

Properties of the program's life: `HotIsControlled` (nothing heats or cools without the session
manager's thread, whenever the program is told to stop, fails or is killed; after a kill, until
the next program has initialised the shift register), `DoneOrLate` (once `run()` has stopped waiting, each of
the three threads is done, or had not begun when it was last asked) and `QuitEnds`. What
`DoneOrLate` leaves to a thread of the second kind is its way past the loop: the session manager's runs
`display_->init()`, the sessions' `stop()`, `notifyShutdown()` and the display's `stop()`, while the main thread
deletes what they use; none runs an iteration, so that no temperature is controlled, no server started
and no event handled. A web server whose pointer was lost (`httpservice.cc:43`) answers requests until the process
ends; one that `daemon_` points to does not.

Properties of the pidfile, with starts and stops that overlap: `OneRunning` and `RunnerIsNamed` (the file has
the pid of the process that runs, so that `brewctl stop` reaches it), both but for the two races
that `raced` names, which do lead to two processes; and, races or not, `RefusedForRunner` (a start is refused only because
a process runs, because of one that has a killed one's pid, or because the file it has read has
lost its name).

Properties of the buttons: `ChangeIsKept` (a state that a handler wants to know and has not been
told is pending, also if it came before there was a handler), `NoEcho` (a handler of all changes
is never called twice with one state) and `HeldIsTold`.

Properties of the services: `OneName` (the service is never announced under two names, also when
a collision is told of after the host's name has changed; but for an entry that was added because
`avahi_entry_group_is_empty()` failed, while the loop is about to quit for that), `ServiceRegisters` (it is
announced in the end if the host's name is settled, unless its name is one of `Local`, its group has failed or it was
told to quit),
`FreedOnce` (the poll object, the client and the name on every path), `AnswersTheRequest` (the
status is the one for the method, path and arguments that the client meant, through its encoding
and `ParseURL`), `TakesOver` (the port is taken when another program leaves it), `RefsExact` (a
value has the references that its wrapper and its
parents hold, and no other but for overwritten pointers; nothing but `fromPtr()`'s trees is
freed twice) and `TreesAgree` (the wrappers' tree is json-c's).

Properties of what the manager works with: `AverageWithinSamples` and `Follows` (the average comes
as near to a temperature that stays as `AvgLen` steps, if not all readings fail), `InitRecovers`
(after `init()` the controller takes bytes and has two lines, whatever a killed program left),
`LooksAsDrawnAfresh` (between two updates the screen is what the last would draw on an empty one,
but for three cells, and the six of a remaining time when the clock was set back before the session's
start: "Starts in" does not reach them), `ColumnIsTheOneNamed` (never by the names of the query before),
`NothingLeaks` and `ListedOrError` (a list without an error is complete).

Bounds. Two threads show every lost update, since each call reads and writes `currentVal_`
once. One-bit bytes keep the two registers distinct; two-bit bytes distinguish a shift of a
byte from a shift of a bit. In a session, two failing writes allow one per effector in one
decision, and one in each of two decisions. The two profiles have all stages timed, and a stage that is held for
ever with a row after it that is never read. The clock is bounded by `MaxTime`, which is later than every
profile's end; from then on it stands still and the times it is compared with run back
instead, so that updates stay due every `Interval` for ever. It is set back by one second,
`Interval`, at any time. Of the pidfile's three processes two can race while one runs or ends, or one
has been given an old pid; there is one inode more than processes that can keep one open. Pids
and inodes are symmetric: no definition tells them apart. `Lifecycle` has no bounds. Of the
buttons there is one for each kind of handler, and buttons do not depend on each other but for
the lock. `Start` = 2, `Interval` = 2 and `MaxTime` = 5 let a stage end at an update or between two of
them, and updates come before the start and after the profile's end. In `services`, one free name
is left after the collisions and the local one; two changes of the host's name let one come while
a collision waits; with two faults a group may fail as well as a call of
the library. The arguments of the requests hold each character at which `ParseURL` cuts, in
a name and in a value, and the key that is asked for as a part of another one. Five values and
three wrappers make a tree of three levels, in `fromPtr()` too, and replace a key. In `manager`, `Samples` has absolute
zero, one in and one beyond the range; `KillAt` has each of the first ten bytes of a call, which
are the commands of `init()`, and some of the later ones, a symbol or a text that is half written;
the sessions have names of 21 and of 3 characters, so that one is cut and one leaves room; `Days` is 2, and 100
in the run that overflows; the two queries have the same names in another order.

Fairness. `Session`: `WF_vars(Thread)`, the session manager's thread is an endless loop that takes
no lock for long, and the operating system runs it; `WF_vars(Tick)`, time passes. Nothing is
assumed of failing writes but that there are at most `MaxFaults` of them, and nothing of the
clock's corrections but that there are at most `MaxBack`; both bounds are arbitrary.
`Lifecycle`: `WF_vars(Main)` and `WF_vars(Thread(c))` for each thread; no thread waits for a lock
that another one keeps. `Buttons`: weak fairness of the sweeps and of what is written to arrive;
strong fairness of `Display::init()`, which waits for a mutex that the button thread gives back
for a sleep of 10 ms after each sweep. `HttpService`: `WF(Service)`, the thread's
loop with its sleep. `AvahiService`: weak fairness of the constructor, which the main thread calls, of
the poll loop's thread and of the Avahi daemon. `TempSensor`: weak fairness of `Sense`: not every
reading fails for ever. Nothing is assumed of signals, kills, commands, buttons, clients and the network.
Deadlock is not checked for a session, the services and the manager's parts, which really stop.

## 4. What is proved

TLAPS proves what follows for every value of the constants that satisfies the assumptions:
`SessionAssumption`, `HorizonAssumption`, `EffectorAssumption`; `BusAssumption`,
`OneThreadDrivesBus`; `PidFileAssumption`, `NoneAssumption`; `ButtonsAssumption`;
`JsonRefsAssumption`, `AvahiAssumption`, `RequestsAssumption` and with them `ServicesAssumption`;
`TempSensorAssumption`, `DatabaseAssumption`, `ScreenAssumption` and with them `ManagerAssumption`.
`ScreenAssumption` says that a name consists of bytes, and that what is printed has at most three
digits: the number of a gyle, a temperature in degrees, the days of a remaining time. The model
prints no more digits than that; what a seventh character does is asked in section 6. One theorem,
`ManagerDrawnAfresh`, has the hypothesis `ShortTexts`: ambient temperatures have two digits, and fewer than
100 days are left. It is needed: with a third digit the buffer's end is written beyond the line
(`screen_overflow`), into a cell that a later update, with shorter texts, does not write. The run `manager`
satisfies it, which TLC evaluates (`DaysFit`).

* `Session_proofs`: type correctness, `NeverBoth`, `StateKnown`, `DisplayHonest`, `StoppedOff`.
  None of the last four is inductive: whether switching on is safe depends on the calls made
  before. `IInv` adds, for each place the thread may be at, which lists of calls may be left
  and what the calls already made have achieved (`BothOff`, `OneOn`, `DeactivateCalls`,
  `StopCalls`), and that effectors that are not fitted are off. `ActivateEffect` says what one
  call does, `CallStep` that a call at any point of any list keeps the invariant, `DecideInv`
  that each decision starts a list of one of these shapes. The theorems are about any `Wirings`: what is on for
  `state_` is not what is on for the output, so `IInv` has both, with `Alone` and `Ours` where they matter.
* `ShiftReg_proofs`: type correctness, `OutputKnown` and the refinement of `OutputPort`, for any
  number of threads and any width. `IInv` says that a thread in a write owns the lock, has
  made its word from the one on the pins, and has its bytes in the stages; `WordOfBytes` that
  the strobe puts a word's two bytes together again.
* `Lifecycle_proofs`: type correctness, `HotIsControlled`, `DoneOrLate`. `IInv` says which
  threads cannot have been created yet, which have been told to stop once `run()` has come so
  far, and what is true of a thread whose `isRunning()` has been seen to be false: it is
  either over, or had not begun when it was last asked and will find `stop_` set.
* `PidFile_proofs`: type correctness, `OneRunning`, `RunnerIsNamed` and `RefusedForRunner`, for any number of
  pids and inodes and any overlap. `IInv` has what no race disturbs (`AInv`: a pid in the file, or one that was read from
  a file that still has its name, is of a process that runs or was killed) and what holds until there is one
  (`Orderly`: nobody runs while another process has passed the check, and the pid that was read while a process runs is that
  one's, unless the file has lost its name).
* `Buttons_proofs`: type correctness, `ChangeIsKept`, `NoEcho`, for any panel and any handlers.
  `PendingOnce` relates `stateChanged_` of a button that has been told of to the place of the
  sweep: it is set from the reading of the button to its turn to tell, and no longer.
* `JsonRefs_proofs`: type correctness, `RefsExact` and `TreesAgree`, for any number of values and
  wrappers. `IInv` has the account of every reference of a value: one for its wrapper, one for the
  value that it is in, one for an overwritten pointer, and one for each `put` that waits on the stack
  (`Counted`); what has not been made yet is nowhere (`Fresh`); a value has one wrapper and is in
  one other at most, and so is a wrapper (`OneEach`); what is in something is owned (`Owned`); the
  account leaves out what `fromPtr()` was given, and nothing else is freed twice
  (`SharedOnes`); and the wrappers that a wrapper has are those of the values that its own has, unless it
  is about to be deleted (`Agree`). The run's properties speak of
  moments at which no destructor is at work; `IInv` has the calls that are left on the stack, and
  so is kept by each of their steps. A tree that `fromPtr()` is given may have any form and size (`FromPtrInv`).
* `Services_proofs`: type correctness of each part and of the composition; `OneName` and `FreedOnce`
  for any names and any number of changes and faults: `Announced` says that what is announced is
  nothing or one of the names so far, `Allocated` that what is allocated is what the pointers show,
  until the destructor; and `AnswersTheRequest`. `EachPart` takes the theorems about the
  parts to `ServicesSpec`: the steps of the others leave a part's variables alone.
* `AnswersTheRequest`, for any arguments: the number of them, and the bytes of their names and values, are
  arbitrary. `EncodeDecodes` says that `decode()` gives back what a client encodes, code by code
  (`DecoderCode`: between two codes nothing is left of a sequence); `PieceIs` that an encoded argument has no
  character at which it is cut but the one "="; `QueryIs` that the names between the ampersands
  are those of the arguments, by induction over the arguments (`NamesOfMore`); `UrlIs` that `ParseURL` and
  the URI's log both find the query where the path ends. `RequestsAssumption` says that the path, which
  libmicrohttpd has decoded, begins with a slash and has no "?", "#" or "://".
* `Manager_proofs`: type correctness of each part and of the composition;
  `AverageWithinSamples` for any samples, ranges and lengths (`QuotientBetween`: a rounded
  quotient lies between 0 and the dividend; the first sample replaces the 0 °C of the
  constructor because the count is then 1); `NothingLeaks`, `ColumnIsTheOneNamed` and `ListedOrError` for
  any queries, columns, sessions and number of errors (`IInv`: the cached names are those of the query
  that is prepared, and a session which is not listed yet is to come); and `InitRecovers`.
* `InitRecovers`, for any state of the controller's memory, its address, its mode and the half of a
  byte that a killed program has left. `Reached` says what holds after each of the 67 bytes of
  `init()`; the hard ones are the first three: the first may be taken for the half of any byte,
  the second for the first half of one, and after the third the width is eight bits and no half is left. `Ready` is what `init()`
  ends with, and what no other call undoes. A call is an arbitrary prefix of its bytes when
  the program is killed, so that the invariant is one of every prefix (`After`).
* `LooksAsDrawnAfresh`, for any sessions, names of any length and any readings that fit. It compares the
  screen with what the last update would leave on an empty one, so the proof follows two controllers that
  are sent the same bytes: after a text they agree in its cells, and the others are what they were
  (`Overwritten`, first of a byte, then of a text and of a list of texts: `TextsOverwrite`). Which
  cells these are follows from where a text begins and how long it is (`PrintCells`, `LineInRow`,
  and lengths such as `RemainingLength`). `HeadWrites`, `TailWrites` and
  `ClearWrites` give the cells of the three parts of an update. `DrawAgree` says that an
  update leaves what it would leave on an empty screen wherever it writes, clears or finds a blank;
  the invariant `Drawn` that what is left elsewhere is blank: the calls that are pending would complete the picture
  of what was seen last (`Shows`), another session comes with a clearing, and the same session
  is drawn in no fewer cells, but for the remaining time of one that has begun and then has not (`TailGrows`,
  `TimeCells`). After a kill `init()` has cleared the screen
  (`Reached`), and no session is drawn before.

The library's induction theorems are out of the provers' reach. Where a sequence of any length is
gone through, as the bytes of a call or the codes of a name are, the proofs use an induction of their own: `Least`, that a
set of numbers that is not empty has a least one, `Induction` from it, and `Chain` for the values of a
fold.

Only model-checked: the liveness properties `DeadSensorSwitchesOff`, `StopTakesEffect`, `QuitEnds`,
`HeldIsTold`, `TakesOver`, `ServiceRegisters` and `Follows` (TLAPS does not handle
fairness here). Every other property of the passing runs is a theorem. The bounds
on failing writes and the clock stay parameters of the proofs, and so may be arbitrarily large.

## 5. Not modelled, and what is left

* Several sessions side by side, with a state each. One thread runs them in turn; what is left of the others
  in `Session` is what they do to the outputs between two turns. Nothing keeps two of them from having a channel in
  common: the unique index of `schema.sql:99` is on session, type and channel together. The properties then speak of
  `state_` only.
* Configuration: read once, at the start, by one thread. Its values are constants here, and what the
  validators promise of them are assumptions.
* Errors and logging: formatting and output. An error is modelled as the failure of a call.
* GPIO: wrappers of wiringPi's calls. The Android application: an empty skeleton.
* The thermistor's equation is any function into `Samples`; conversions of units, the
  controller's busy time, the backlight's transfers (bits of `ShiftReg`) and the bodies of
  HTTP answers are left out.
* `markComplete()`, the times of an effector's activation and `prepareAndStep()` of `sqlite.cc:111` are
  called, or read, by nothing.
* In `Application`: parsing of arguments, `daemonise()`, `setUid()`, `getSystemId()`: I/O before the
  threads exist.

## 6. Where the code and its comments disagree

`KeepIsEnough`, `ChildrenHaveStopped`, `WriterIsAlone` and `StaysInItsLine` are runs of their own that
TLC finds violated. The others were met while modelling.

* `KeepIsEnough`: `session.cc:270` says there is no need to change the effectors. After a failed
  attempt to switch the heater off, the heater and the cooler are both on, and an update that finds the
  temperature in the dead zone makes no call at all.
* `ChildrenHaveStopped`: `application.cc:297` says that `run()` waits for the child threads. It does
  not wait for the button manager's, which may use the display while it is deleted, nor
  for a thread that has not come as far as setting `running_`.
* `WriterIsAlone`, in the run `pid_file_overlap`: `sys.cc:303` says that a process that has passed the
  checks is the only one. When it starts while the running one stops, it may write its pid to a
  file that has just lost its name; the next start runs beside it. So do two starts that have both read the file
  before either wrote it.
* Two effectors may have one channel (`schema.sql:99`), of two sessions or of one: each switches off what
  the other has switched on, and `state_` is not what the output does.
* A start is refused, although no process runs, when a killed process has left the pid that the
  new one was given. `RefusedForRunner` allows for it.
* A button's handler may be called with a null argument (`button.cc:59` says that it gets the one
  that was registered): `callback_` is written before `callbackArg_`, and the button thread runs.
  The handler does not use its object, and `Buttons` leaves the argument out.
* `StaysInItsLine`, in the run `screen_overflow`: `lcd.h` and `lcd.cc:333` have `printAt()` write at a place
  of one line. A session with 100 days to go has a remaining time of seven characters, at
  column 14 of 20: the end of the buffer is written into the first cell of another line.
* The comment at `session.cc:303` says that a session is active between its start and its end;
  `isActive()` never looks at the end. A session whose profile is over has absolute zero as its
  target, and cools without end.
* `session.cc:373` says that both effectors are switched off; `&&` keeps the cooler from being called
  when the heater's call fails. `StoppedOff` and `stuck` allow for it.
* `Screen`: `NotOverwritten` lists the three cells that keep an old character: of "Starts in" after the
  session has begun, of a vessel's temperature after "-273.1", which a dead sensor shows, and
  of an ambient temperature below -9 degrees followed by "--". When the clock is set back before the start of the
  session that is drawn, even between the readings at `display.cc:133` and `session.cc:308`, "Starts in"
  is drawn over the temperature and the remaining time stays beside it. "Complete" is never drawn, since
  nothing sets `complete_`.
* `TempSensor`: after a failed `sense()`, `inRange()` still speaks of the reading before.
* `JsonRefs`: a tree given to `fromPtr()` is freed twice when it is deleted, the value that
  `new JsonObject()` makes there is lost, and so is what a move overwrites. The HTTP answers, which are
  all that brewctl makes of these classes (`httprequesthandler.cc:72`, `99`, `111`), use neither.
* `Database`: an `open()` that fails leaves `isOpen()` true. An error in the middle of the list of
  sessions makes `updateSessionList()` return true (`application.cc:245` tests only that); a `Session` whose
  constructor fails there is not deleted. `markComplete()` (`session.cc:353`), which nothing calls, tests
  `step()`, which is false for an `UPDATE`; `prepareAndStep()` compares a truth value with `SQLITE_OK`.
* `HttpService`: `httpservice.cc:57` stops the service, but the daemon that holds the port is the first,
  and the pointer is to the last. If there was no other start, `MHD_stop_daemon()` ends open connections
  without an answer.
* `AvahiService`: a collision that is told of after the group was reset renames a service that is
  free; a name that another client of the same Avahi daemon has is only logged
  (`avahiservice.cc:232`), and so is the failure of the entry group (`avahiservice.cc:190`): the service is not
  announced any more. An error of `avahi_entry_group_is_empty()` is taken for true (`avahiservice.cc:221`). A daemon
  that goes away is never looked for again.
* `Url`: an address without a port is itself read as one, and "://"
  is also looked for in the arguments; `AnswersTheRequest` holds all the same, for paths. A "?" or "#"
  that was encoded in the path itself is one again when `ParseURL` sees it, and ends the path there;
  brewctl's own paths have none.
