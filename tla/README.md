# mpic in TLA+

mpic is a C++ framework for daemons with a pool of worker processes: a master
loads a module from a shared library, forks workers that run it, replaces
workers that die, and reloads the module on SIGHUP. This directory holds TLA+
models of it, TLC configurations that check them on small instances, and
theorems checked by TLAPS. Paths below are relative to the repository.

## 1. Inventory

| Part | State | Operations | Talks to |
|---|---|---|---|
| Master process, `mpic/master_linux.cc` 26-202 | `running_processes_`, `exiting_processes_`, the local `exiting`, the blocked signals | `SpawnChildWorker(s)`, `KillChildren`, `RunMaster`, `HandleSIGHUB`, `HandleSIGCHLD` | workers by fork, SIGTERM and SIGCHLD/waitpid; operators by signals |
| Daemon commands, `mpic/master_linux.cc` 204-348 | the pid file, the answer pipe, exit codes | `RunAsDaemon` (parent and daemon), `KillDaemon` (-k), `ReloadDaemon` (-r), `CheckStatus` (-s), `Run` | each other through the pid file only; the daemon by signals |
| Module loading, `mpic/master.cc`, `module.h`, `internal/dynlib.cc` | `module_`, `resource_`, `dlmodule_`, one copy per process after a fork | `LoadModule`, `InitResource`, `InitModule`, `UnloadModule`, the reload in `HandleSIGHUB`, the end of a worker | the module's `InitInMaster`, `InitInWorker`, `Run`, `Uninit` |
| Options and files, `mpic/option.cc`, `internal/file_util.cc` | parsed options, the derived name and paths | `Init`, `GetFileNameWithoutExt`, ... | everything, read only |
| Process title, `mpic/title.cc` | the memory of argv and environ | `Title::Init`, `Title::Set` | the kernel |
| Echo module, `apps/modules/echo` | event loop, servers, its stop flag | `Init*`, `Run`, `Uninit`, `StopServers`, SIGTERM handler | master (SIGTERM), evpp |
| Older master, `examples/master-workers` | as the master process | `KillAllChildren`, `RunMaster` | as the master process |
| Monitor, `examples/monitor-worker` | one child, blocked signals | `monitor.cc` main loop | its child |
| Daemonizer, `examples/daemon` | answer pipe | constructor, `Init`, destructor | its parent |
| Framework example, `examples/mpic-framework` | - | a SIGTERM handler that calls `exit()` | the framework |
| nfmpic application, `apps/nfmpic` | the ports of `nfmpic::Option` | `main`, `Option::Init` | the framework and the echo module |
| `mpic/master_win32.cc`, tests, build files | none of their own | - | - |

What is hard, and what makes each part correct:

- **Master.** SIGCHLD does not queue, so one signal stands for many deaths;
  workers die between any two steps of a handler; a reload holds the old
  workers in a local map while it forks and sleeps; freed process ids return.
  Correct means: every child is in exactly the right map, SIGTERM reaches
  children only, no death is overlooked, the pool has its size, a reload
  never lowers the capacity nor piles up generations, SIGTERM ends
  everything and nothing is forked after it.
- **Daemon commands.** They run concurrently and look at the pid file twice;
  answers race with timeouts; a daemon may crash and leave its file, or meet
  a signal before it has blocked it. Correct means: the pid file finds the
  daemon, there is one daemon, exit codes say the truth, commands end.
- **Module loading.** Each stage may fail; a fork multiplies the objects; a
  process may end in the middle of `Run`, or of its own end. Correct means: one
  `Uninit` per accepted object and process, after which nothing uses it, and no
  object outlives the library its code is in. (One case has two `Uninit`s, see
  the observations in section 3.)
- **Echo module.** A list of calls on one loop and three servers, any of which
  may be missing, with a signal handler in between. Correct means: no request
  meets a server without callbacks or after the pause, everything has stopped
  when `Run` returns, and SIGTERM ends the worker.
- **Option and title code.** The title overwrites argv and the environment, up
  to the last byte; positions wrap around; `malloc` and `realpath` may fail.
  Correct means: what the program was given stays readable and nothing else is
  overwritten.
- **Older master, monitor, daemonizer.** The same questions as above for code
  with other answers.
- **All of it.** A signal of a command meets a daemon before, in or after
  `RunMaster`, and workers outlive their master. Correct means: `-k` ends the
  daemon and its workers, wherever the signal finds them.

The hazards, each at its line, are in `PROJECT.json`.

## 2. Modules

| Module | Models |
|---|---|
| `Master` | the master process, its process table, its signals |
| `Pool` | what the master promises, without signals and maps |
| `MasterProofs` | safety theorems of `Master`, and that it implements `Pool` |
| `Daemon` | the commands and the pid file |
| `DaemonProofs` | safety theorems of `Daemon` |
| `System` | `Daemon` with the `RunMaster` of `Master` and its workers inside |
| `SystemProofs` | `System` implements `Daemon` and keeps the invariant of `Master` |
| `ModuleLife` | the objects of a loaded module in every process |
| `ModuleLifeProofs` | safety theorems of `ModuleLife` |
| `FileName` | `GetFileNameWithoutExt`, on strings and `size_t` |
| `Startup` | `Master::Init`: the title's memory and the options |
| `EchoWorker` | the servers of the echo module, from `Resource::Init` to the end of a worker |
| `EchoWorkerProofs` | safety theorems of `EchoWorker` |
| `Application` | `Startup` and `EchoWorker` together, `apps/nfmpic` |
| `ApplicationProofs` | `Application` implements `EchoWorker`; safety theorems of `Startup`; what `FileName` returns |
| `MasterWorkers` | the older master of `examples/master-workers`, on the actions of `Master` |
| `MasterWorkersProofs` | safety theorems of `MasterWorkers` |
| `Monitor` | the monitor of `examples/monitor-worker` |
| `MonitorProofs` | the safety theorem of `Monitor` |
| `MCMaster`, `MCDaemon`, `MCMasterWorkers` | symmetry sets for TLC |

A definition called `Bad...` is the definition after it with a plausible slip
of the code (a forgotten entry, a missing loop, a wrong order). `Next` uses
none of them. Substituting one for its neighbour shows that a property notices
the slip; `PROJECT.json` pairs them under "mutants".

### Master

State: `running_processes` and `exiting_processes` are the key sets of the
maps; `m` is what `KillChildren` still has to visit (the local `m` of
`HandleSIGHUB`, or the running map on SIGTERM); `spawns` counts the remaining
iterations of the fork loop; `pc` says which handler runs. `pending` is the set
of blocked signals. `proc` is the process table: an id is free, a child that
still has its signals blocked ("starting"), one that has not ("serving"), or a
zombie. `termed` and `stale` are history: who was sent SIGTERM, and who was
forked from a module that has been replaced.

Actions: the handlers are cut at every `fork`, `waitpid` and `kill`, since a
worker may die there and a signal may come. What no other process can see in
between is one step: `waitpid` together with the map updates and the fork of
the replacement (`ReapRunning`), since a death in between shows only at the
next `waitpid`. `ReapRunning` may give the replacement the id just freed.
The environment may send SIGHUP, SIGTERM and SIGINT at any time and to no
limit, workers may start, end, crash or be stopped, and `fork`, `InitModule`
and `sigwaitinfo` may fail. Which of several pending signals comes first is
left open, as POSIX leaves it. `sleep(3)` has no step: everything that can
happen during it can happen between two steps.

`Pool` has workers that join, retire while enough others stay, are replaced,
leave, and are dismissed after `Stop`; it ends orderly (`Over`) only when
nobody is active. `Master` maps to it by: active = children not sent SIGTERM,
leaving = children sent SIGTERM.

### Daemon

One record per invocation (`cmd`, `code`) and per daemon process (`daemon`,
`retval`, `pipe`, `main`, `signals`, `blocked`). The name of a start is the pid
of its daemon. Every look at the pid file, every system call that another
command can observe and every return is a step; a start's parent and daemon
interleave. A timeout is an action enabled as long as the answer is missing.
libdaemon is not part of the repository and is modelled from its use:
`daemon_pid_file_is_running` takes a lock and is one step, `create` is
exclusive, `remove` removes whatever file is there. `signals` of a daemon that
has not blocked them end it at once, and leave the file.

### System

`System` extends `Master` and instantiates `Daemon` beside it. Where `Daemon`
says only that a daemon "serves", takes up a SIGHUP and returns some time
after a SIGTERM, the steps of `RunMaster` happen. `EnterRunMaster` is
`sigprocmask`: the signals on their way become `pending`. `CommandSignals` is the
`kill(2)` of -k and -r, which puts the signal both on `Daemon`'s list and into
`pending`. `HandlesSIGHUP`, `Works` and `Returns` pair each step of a handler with
what `Daemon` sees of it: nothing, a SIGHUP taken up, the return to
`RunAsDaemon`. `PLOG(FATAL)` in a handler and a kill from outside are `Daemon`'s
crash; the workers stay. No new abstraction is made: every step is a step of
`Master`, of `Daemon`, or of both at once.

### ModuleLife

`heap[p]` is process p's copy of `module_`, `resource_`, `dlmodule_` and the
numbered module objects with the number of `Uninit` calls each has seen.
`InitModuleResults` lists what a call of `InitModule` can leave behind: nothing
changed (no symbol, constructor threw), the new object in place but rejected,
or accepted. A process leaves by `exit()`, which runs `~Master`
(`UnloadModule`, `UnloadLibrary`), or crashes. `HandlerExits` is the SIGTERM
handler of the framework example, which is installed for the whole process and
calls `exit()`. It may run at every label but those where the signal is blocked
(a master that waits) and those where the process is in `exit()` already, which
the handler must not call again. A call of `Uninit` that it interrupts counts as
made. `cut` is history: the handler came after the `Uninit` of an object and
before the `reset` of `module_`.

### FileName and Startup

`FileName` has `find_last_of`, `substr` and the subtraction of `size_t` as they
are, `npos` included.

`Startup` has a `memory` that maps addresses to bytes. From address 1 on lies the
block of strings the kernel has made, argv and then environ, with something
else behind it (`Guard`); any entry of environ may have been replaced since by a
string elsewhere, at addresses up to 0; what `malloc()` returns lies behind the
block. `Init` is every block of a size, cut by Nuls into every row of strings
(`Fills`), with every number of them in argv. `Title::Init` is `TitleInit`, one
`VisitArgument` per iteration of the loop over argv, one `MoveString` (copy to the
new memory, point `environ` there) or `KeepString` per iteration of the loop over
environ, and `TitleInitDone`. `SetTitle(n)` is `Title::Set` with a title of n
characters. `OptionAccepts`, `OptionAborts` and `OptionRefuses` are the ways
`Option::Init` can end; `option` is what it leaves. `given` is history: what argv
and environ were to start with.

### EchoWorker and Application

The code of a worker is straight-line, so `EchoWorker` has it as a list: `Calls`
is the sequence of calls on the loop and the servers, put together from the
functions they are in (`ResourceInit`, `InitInWorker`, `RunServers`,
`StopServers`), and `todo` what is left of it. An action takes the first one;
`component` says what has become of each server. Around it servers stop some
time after they have been asked to, calls fail, and SIGTERM comes at any call:
before `signal()` it kills, then its handler clears `running`, and once
`dlclose()` has unmapped the handler it may crash the process. The handler
allocates strings for the title (`echo_module.cc` 27), which no signal handler may
do; the model takes it that this never fails, whatever it interrupts. evpp is not part
of the repository. Assumed of it: pausing and stopping take effect as named, a
stop is asked for at once and completes later, and the TCP server lives on the
loop it was given.

`Application` starts with `Startup` and continues with `EchoWorker`; titles are set
by `RunMaster`, by the new worker and by the SIGTERM handler, the last one in
the middle of any other call.

### MasterWorkers and Monitor

`MasterWorkers` extends `Master`: fork, reaping, `sigwaitinfo`, workers and
signals are the same code in both masters and the same actions here. Its own
actions are the first statement of `KillAllChildren` (`exiting_processes_` becomes a copy of
`running_processes_`), its kills, and the reload that forks afterwards.

`Monitor` has one `child` and cuts its loop at `sigwaitinfo`, `kill` and
`waitpid`; a `waitpid` that finds the child dead forks the next one in the
same step. Every signal but SIGCHLD and SIGHUP means stop.

## 3. Runs

| Run | Instance | Checks |
|---|---|---|
| `master_safety` | `MCMasterSafety.cfg`, 2 workers, 5 ids | all safety of `Master`, `IInv`, `PoolSpec` |
| `master_live` | `MCMasterLive.cfg`, 1 worker, 3 ids | liveness of `Master` |
| `daemon_safety` | `MCDaemonSafety.cfg`, 3 starts, -k, -r | the pid file, honest exit codes |
| `daemon_live` | `MCDaemonLive.cfg`, 2 starts, -k, -s | commands end, SIGTERM kills, `IInv` |
| `daemon_race` | `MCDaemonRace.cfg`, 3 starts | refutes `SingleDaemon` |
| `daemon_early_reload` | `MCDaemonReload.cfg`, a start, -r | refutes `ReloadNeverKills` |
| `module_life` | `MCModuleLife.cfg`, 2 workers, 3 objects | counted `Uninit`s, lifetimes, `IInv` |
| `older_master` | `MCMasterWorkers.cfg`, 2 workers, 5 ids | what the overwritten map leaves intact |
| `older_master_exiting` | `MCMasterWorkersExiting.cfg`, 1 worker, 3 ids | refutes `ExitingTracked` |
| `monitor` | `MCMonitor.cfg`, 2 ids | safety and liveness of `Monitor` |
| `application` | `Application.cfg`, 3 servers, 2 SIGTERMs, 4 bytes of strings | titles, options, a worker's start and end |
| `system` | `System.cfg`, one command of each kind, 1 worker, 2 ids | SIGTERM from the command to the last worker |

What they show:

- `master_safety`: `ChildrenTracked` (the maps name exactly the unreaped
  children), `SignalsOnlyChildren`, `NoLostSigchld`, `PoolFull`,
  `CapacityKept`, `ChildBound` (at most two generations), `OrphansTermed` and
  `NoSpawnAfterTerm` hold, and every step is a step of `Pool`. The same
  formulas are proved for every instance; the run also checks the inductive
  invariant `IInv`.
- `master_live`: once nothing disturbs the master any more, SIGTERM ends it
  (`TermLeadsToExit`), the pool becomes whole (`PoolHeals`), old generations go
  and reloads are possible again (`ReloadCompletes`), and the workers a master
  leaves behind go too (`OrphansVanish`).
- `daemon_safety`: as long as no start has lost the race for the pid file, the
  file names every running daemon (`FoundUnlessRaceLost`); 0 from a start
  means that the pid file was created and 2 that the main routine was not
  entered (`StartHonest`). 0 does not mean that the daemon came up: a `LoadModule`
  that fails afterwards does not violate it (see the observations). Both are
  proved for every instance as well.
- `daemon_live`: a start and a -k that have begun end (`CommandsEnd`), a SIGTERM
  kills the daemon wherever it is caught (`SigtermKills`), and the inductive
  invariant `IInv` of the proofs holds.
- `module_life`: no copy of an object is uninitialised twice, unless a handler's
  `exit()` has come between `Uninit` and `reset` (`UninitOnce`); a
  master forks from, and a worker runs, an accepted and initialised object,
  also after a failed reload (`ServesReadyModule`); library and resource are
  there as long as an object is (`DependenciesAlive`); an orderly end, a handler's
  included, leaves no object behind and none without its `Uninit`
  (`BalancedAtExit`). The run also checks the inductive invariant
  `IInv` of the proofs.
- `older_master`: no entry outlives its process (`EntriesAreChildren`), and up
  to the first SIGTERM the two maps split the children into those that were
  told to go and those that were not (`TrackedUntilTerm`). What goes wrong after
  that is the business of `older_master_exiting` alone.
- `monitor`: although it calls `waitpid` once per SIGCHLD, the monitor always
  has exactly the child it knows, and leaves none behind (`OneChild`); stop
  signals end it (`StopLeadsToExit`) and a reload ends in a new serving worker
  (`ReloadRestarts`).
- `application`: whatever titles are set, environment and command line read as
  they were given (`GivenStringsKept`), the title ends inside the memory it has
  claimed and nothing behind is touched (`TitleContained`; it speaks of titles
  that have claimed memory, not of a failed `malloc`). No request meets a server without
  its callbacks or, TCP aside, after the pause (`RequestsHandled`); everything
  has stopped when `Run` returns (`StoppedAtReturn`); a worker that has come up and
  gets one SIGTERM at most can end only in order, asked to and with everything
  stopped (`OneSigtermIsSafe`), and does end after it unless TCP was left without
  its loop (`SigtermEnds`).
- `system`: `SigtermKills` of `Daemon` with the real `RunMaster` in it
  (`SigtermKillsSystem`); after a -k that reports success every living worker has
  been told to end (`KilledDismisses`) and in the end none is left
  (`KillLeavesNothing`), provided the daemon came back from `RunMaster`.

Three runs refute something the repository says:

- `daemon_race`: two starts can both pass the check for a running daemon; the
  loser of `daemon_pid_file_create` goes to `finish` and removes the winner's file,
  and a third start runs a second daemon;
- `daemon_early_reload`: a `-r` after a successful start, but before the daemon has
  blocked SIGHUP, kills it;
- `older_master_exiting`: `exiting_processes_` of the older master is commented
  "worker processes which are exiting", but a second SIGTERM empties it while
  they are; a SIGHUP then forks a pool that the master leaves behind without a
  SIGTERM.

### Observations without a run

- With `-p 0` (`worker_processes()` of zero or less) SIGTERM sets `exiting`, but only a
  SIGCHLD leaves the loop (`master_linux.cc` 126-133) and without workers there
  is none: the master never ends. `TermLeadsToExit` fails in `master_live` with
  `WorkerProcesses = 0`.
- `Module::Uninit` "will be called in master process" (`module.h` 33); every worker
  that returns from `Run` calls it too. `UninitOnce` counts per process.
- Without -n the name is derived from `cfg_file_` forty lines before `cfg_file_`
  gets its value (`option.cc` 94) and is empty. The help calls -n required.
- `RealPath` makes a string of the NULL that `realpath` returns for a missing
  file (`file_util.cc` 66); the program aborts before `Option::Init` can print its
  message (`OptionAborts`).
- The handler of the framework example (`examples/mpic-framework/main.cc` 17-22)
  may call `exit()` during `module_->Uninit()` or between it and `module_.reset()`
  (`master_linux.cc` 57-58, in the foreground 96-97). `~Master` then finds
  `module_` set and calls `Uninit` on the same object again (`master.cc` 134-137).
  `UninitOnce` and `BalancedAtExit` name this case (`cut`) and hold with it; without
  it the run refutes both. It is no violation run because no doc of the
  repository promises a single `Uninit`.
- When `LoadModule` fails in the daemon its parent has already reported success,
  and the daemon itself ends with 0 (`master_linux.cc` 260): `MainFails` leaves
  `retval` alone.
- A `malloc` that fails in `Title::Init` is not looked at by `Master::Init`; the first
  title crashes the program (`SetTitleCrashes`).
- A server whose port is not set is a null pointer that `AfterFork`, `RunServers`
  and the callbacks use: such a worker crashes (`NullServer`), and its master
  forks the next.
- A second SIGTERM may meet the handler of a library that has been unmapped.

### Bounds

- `Pid`, `WorkerProcesses` in `Master`: with two workers a reload needs four
  processes at once. The fifth id lets a new child take an id while another
  one is still held, so entries that outlive their process would show.
  Two workers are the least with which the loops have an inside (one worker
  replaced while the other is forked, killed or reaped). The proofs cover
  all sizes. The number of signals, deaths and reloads is not bounded.
- The liveness run has one worker and three ids (two generations and one).
  No symmetry is used there. Liveness for more workers is not checked.
- `Daemon`: three starts are what the race needs to do harm (loser, winner,
  third); a -k and a -r add signals at every moment. Each invocation runs
  once. Liveness: two starts (a race), one -k, one -s.
- `ModuleLife`: `MaxModules = 3` module objects (the loaded one and two
  reloads, one after a failed one), two workers that may be forked from
  different generations. The count of `Uninit` stops at
  `MaxUninits = 3`, one more than any property allows.

- `MasterWorkers`: as `Master`. After a SIGTERM its generations are unbounded
  and a fork waits for a free id in the model; the properties about sizes
  speak of the time before.
- `Monitor`: there is one child at a time; with two ids the next child may
  or may not get the id of the last one.

- `Application`: all eight choices of servers; `MaxSigterms = 2`, so that a handler
  can run again after everything else, but what needs a third is not seen.
  `MaxSize = 4` bytes hold an argument and two strings of the environment, one
  of which is not empty, or two arguments and a string; so a string is the
  last one or not, moves after another one, or stays behind a gap that a
  replaced string (`SetLength = 1` character at most) has left. `TitleLengths = {2,
  20}`: a title that fits into the largest blocks and one longer than any. The
  theorems have any sizes and lengths.
  `NPos = 7` is larger than the length of every path of the run; `StemReturned`
  has any `NPos`.
- `System`: one invocation of each kind, one worker, two ids (a reload, or a
  replacement, or an orphan beside a worker). The conjunct `blocked = {}` of
  `EnterRunMaster` is a bound: it follows one daemon into `RunMaster`, for there is
  one process table; another start waits before it. The theorems of
  `SystemProofs` have any number of commands, workers and ids, and this bound.

### Fairness

- `MasterStep`: the operating system runs the master when it is not blocked.
- `WorkerStarts(p)`: it runs every new process.
- `WorkerTerminates(p)`: a serving worker that got SIGTERM ends. The framework
  cannot enforce this; the modules of the repository do it (default action, or
  the echo module's handler that stops its loops). A module that refuses
  SIGTERM keeps `exiting_processes_` non-empty and blocks reloads for good;
  `ReloadCompletes` assumes this away and would not show it.
- The liveness properties of `Master` and `Monitor` start with `Quiet`: from some point on
  no signals are sent, workers die only of SIGTERM and no call fails. It is
  needed: workers that die as fast as they are forked keep `HandleSIGCHLD` in
  its loop for ever, and signals wait.
- `Daemon`: every process that can run does, and the two timeouts are
  driven by the clock. A begun command goes on; none need begin. Nothing
  makes `RunMaster` fail or return by itself.

- `EchoWorker` and `Application`: the worker runs, and what was asked to stop does
  in the end; the TCP server only as long as its loop has not stopped, since
  nobody would run its callbacks afterwards.
- `System`: that of `Daemon` outside `RunMaster` and that of `Master` inside it.
  `SysQuiet` is `Quiet` for it: from some point on nothing fails and no worker
  ends of itself.

Deadlock is not checked: a master that has ended, commands that are all done and
processes that are all gone stop the models for good reasons.

## 4. Proofs

### Master

Assumptions: `Pid` is finite (`PidAssumption`) and `worker_processes()` is any
integer (`WorkerProcessesAssumption`). `TypeCorrect` is inductive by itself.
The other properties are not: that the pool is full after a reload depends on
how many forks are left, that a kill hits a child depends on how the three
maps overlap in the middle of a handler, and that nothing is forked after
SIGTERM depends on children still to be reaped whenever SIGHUP is examined.
The inductive invariant is `IInv`, in named parts:

- `TermedTracked`: children = running + exiting + m, and the ids that got
  SIGTERM are those of `exiting_processes`;
- `Separation`: the maps are disjoint, except while SIGTERM is handled, when
  `m` is a copy of `running_processes` and not what was swapped out of it;
- `Counting`: forks done and forks left add up to `worker_processes()`;
- `Terminating`: after SIGTERM nothing runs and, unless there are no workers,
  something is still exiting while the master waits, so SIGHUP is ignored;
- `Bounded`: the leaving children are one generation at most;
- `NoLostSigchld` and `OrphansTermed`.

`MasterProofs` proves that it holds initially and is kept by each action
(`SpawnIInv`, `KillChildIInv`, `ReapRunningIInv`, ...), and derives
`ChildrenAreTracked`, `SignalsReachOnlyChildren`, `SigchldNotLost`,
`PoolIsFull`, `CapacityIsKept`, `ChildrenAreBounded`, `OrphansAreTermed`,
`NoSpawnAfterSIGTERM`. Its last section proves `Implementation`
(`Spec => PoolSpec`): initial states map to initial states, a fork is a `Join`,
a kill a `Retire` or a `Dismiss`, a reaping a `Leave` or a `Replace`, a failure
`GiveUp`, and the rest is invisible. The bound `Cardinality(active) > Size` of
`Retire` is where `Counting` is needed.

### Daemon

Assumptions: `NoPid` is neither a process nor an exit code
(`NoPidAssumption`), and an invocation is of one kind (`KindsAssumption`). The sets
of invocations are any sets. `IInv` adds to `TypeOK` and `StartHonest`, which
are not inductive:

- `Forked`: before its start has forked there is no daemon;
- `RaceLost`: a daemon with a non-zero `retval` is on its way out and never
  entered the main routine;
- `PipeHonest`: the pipe holds what `retval` holds, 0 only once the pid file was
  created, and an answer 2 came out of it;
- `Owned`: unless somebody has lost the race, a daemon that has created the pid
  file finds its own name there until it removes it. From it follows
  `FoundUnlessRaceLost`; its premise is needed in both steps that remove a file.

`DaemonProofs` has one lemma per group of steps (`StartIInv`, `MainIInv`,
`EndIInv`, `CommandIInv`), and derives `FoundByPidFile` and `StartsAreHonest`.

### System

`DaemonImplemented` (`SysSpec => D!Spec`): every step of `System` is a step of
`Daemon` or leaves its variables alone, so whatever is proved of `Daemon` holds of
the system, and the abstraction of `RunMaster` in `Daemon` is sound.
`SystemInvariance` shows the other half: `IInv` of `Master` survives a daemon that enters
`RunMaster` with signals already pending, gets them from commands only, and
may be killed at any step. Its invariant `SysInv` adds `Followed`: before a
daemon blocks its signals nothing of `RunMaster` has happened, and 0 comes from
`RunMainRoutine` only after the loop was left on a SIGTERM. `KillDismisses`
follows: `OrphansTermed` of `Master` is what a successful -k can rely on.

### ModuleLife

Assumptions: only those on the bounds. None of the properties is inductive: what
holds at the end of a process depends on what each of its objects has been
through. `IInv` says of every process:

- `Owned`: only `module_` owns an object between two calls, and always a live one;
- `Unmade`: an object not yet made is not live, and nothing was called on it;
- `Settled`: of the accepted objects only the present one awaits an `Uninit`, all
  others have had as many as they are owed (`Owed`: one, or two after a `cut`);
- `Supported`: where `module_` is set, library and resource are there;
- `Staged`: what a process has done of its life at each label, in particular that
  a master that waits and a worker that runs have an accepted object (`Ready`),
  and that `~Master` makes the last `Uninit` that is owed, the first or the second.

A handler's `exit()` is kept apart by where it comes from (`ExitFromCall`,
`ExitFromReset`). `ModuleLifeProofs` derives `UninitAsOwed`, `ReadyToServe`,
`MappedWhileAlive` and `NothingLeftAtExit`.

### EchoWorker

The work is in the list `Calls`. What is left of it is always an end of it
(`Remaining`), so that `todo` is a place, and of two calls the earlier one has
been made when the later one is due. `Traces` says what each call leaves behind
as long as the worker lives: a handler that was registered stays, what was
paused or stopped does not run again, what was awaited has stopped. `Asked` ties
the end of `Run` to the flag and the flag to a SIGTERM. `OneSigtermIsSafe` goes
through the ends of the process: those before the last start are excluded by the
order of the calls, the unloaded handler by the count of SIGTERMs, and at `exit`
every component has been awaited. `EchoWorkerProofs` proves
the invariant for any number of SIGTERMs and derives `NoRequestUnhandled`,
`AllStoppedAtReturn` and `OneSigtermLeavesInOrder`.

### Application

`ImplementsEchoWorker` (`AppSpec => W!Spec`): titles and options leave the worker
alone, so the three theorems of `EchoWorkerProofs` hold of the application too,
under the same names. (`W` is the instance in `Application`, `P` that of the proofs;
`SameSpec` identifies the two.)

`StringsStayReadable` and `TitlesStayInTheirMemory` are `GivenStringsKept` and
`TitleContained` for every block of memory. The assumptions are those on the
bounds (naturals). The invariant is `TitleInv`:

- `ArgvKept`, `EnvironKept`: each string is where its pointer says, and lies before
  the block, in the part of it that titles do not reach (from `FirstKept` on), or
  in the memory of `malloc()`;
- `EnvironOrdered`: the strings still in the block are in the order of their
  entries; without it a string could be overtaken and lie below `g_last`;
- `Last`: where `g_last` is at each step of `Title::Init`, with a Nul before it, and
  from then on at it;
- `Untouched`: no byte of a title is anywhere else, and what is behind the block
  is still there.

`AppInv` adds `NoWorkerYet`: there is no worker, and so no SIGTERM handler that
sets a title, before the command line was copied. A string ends at its first
Nul, and the strings that fill a block are ordered: both would ask for
induction, which the provers cannot do over an operator. `NatMin` stands in for
it: a nonempty set of naturals has a least element (from the library's
well-founded induction, whose relation is a set), so a counterexample has a
least one.

`StemReturned`: for every directory, stem and extension, `GetFileNameWithoutExt`
of their concatenation is the stem, dots in the directory and missing parts
included, provided the path is shorter than `npos`. `LastFound` and `NotFound`
say what `find_last_of` returns; `StemCut` goes through the subtraction that wraps
around (a dot left of the last slash, and none at all), where the length is so
large that `substr` takes the rest.

### MasterWorkers and Monitor

`WorkersIInv` of `MasterWorkers` adds to its properties `Killing` (while
`KillAllChildren` runs, what it still has to visit is in the map it has just
copied) and `Split` (up to the first SIGTERM the maps are, at each place, the
children who were told to go and those who were not). The steps it shares
with `Master` are taken from there.
`MasterWorkersProofs` derives `EntriesNameChildren` and `MapsSplitUntilTerm`.

`OneChild` of `Monitor` needs little more to be inductive: that there is no child
before the first fork. `MonitorHasOneChild` has any set of process ids.

### Only model-checked

Liveness, in every module: fairness and ENABLED are beyond the prover. Every
safety property of a passing run is a theorem. The inductive invariants of
`Master`, `Daemon` and `ModuleLife` are checked by a run as well; those of the other
modules are only proved, since their runs check what follows from them.

## 5. Not modelled

- Time: `sleep(3)`, the ten seconds of a start and the five of a -k are
  moments when others may move. That the new workers are ready when the
  old ones are killed is a hope of the code (its TODO), not a property.
- The reuse of process ids between a stale pid file and a stranger; the
  lock inside libdaemon; I/O errors of the pid file other than a failing create.
- Logging, the contents of titles, command line parsing (boost), `GetExeName`,
  and the request handlers of the echo module.
- evpp and libdaemon, except as this code uses them.
- `WIFSTOPPED` results of `waitpid`: the code does not ask for them.
- The daemon commands of the two examples, which repeat those of
  `mpic/master_linux.cc`, and `examples/daemon`, which has the same protocol less
  the exits on failure (after a failed `close_all` it sends both 1 and 0).
- A second daemon in `System` after, or beside, the first.
- `master_win32.cc` (stubs) and the tests.

## 6. Plan

Done: the master, its pool and the proofs; the commands, their proofs and the
composition of both; module objects, options, title, echo worker and the
application; the older master and the monitor; a theorem for every safety
property that a run checks. Left, in this order:

1. The daemonizer of `examples/daemon`, as the actions of `Daemon` with another
   `CloseAllFails`, and what its proofs change.
2. A second daemon in `System`, which needs process ids shared by daemons and
   workers.
3. `MasterWorkers` as an implementation of a weaker `Pool`, in which dismissed
   workers may be forgotten.

Runs stay small: two workers or invocations of a kind, three where a race needs
a third.
