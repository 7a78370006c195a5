# A TLA+ verification of WarheadApp

The repository is a small set of C++ command-line tools (source formatter, source
mover, text merger, pull-request tester, module generator, client checker) on top
of a `common` library taken from a game server. The library holds the parts with
real concurrency and real failure: queues between threads, a logging system, a
configuration store, a resumable downloader. This directory specifies them in
TLA+, checks small instances with TLC and proves the most important properties
with TLAPS.

Paths below are relative to `src/src/`.

## 1. Inventory

For every component: the state it keeps, its operations, whom it talks to, what is
hard about it, and what makes it correct.

### 1.1 `common/Threading`

**ProducerConsumerQueue** (`PCQueue.h`). State: a mutex, a condition variable, a
`std::queue`, the flag `_shutdown`. Operations: `Push`, `Empty`, `Pop`,
`WaitAndPop`, `Cancel`, `Size`. Any number of threads call any operation. Hard:
wake-ups can be lost or stolen, wake-ups are spurious, `Cancel` races with sleepers
and with late producers. Correct when no item and no sleeper are forgotten
together, `Cancel` releases everybody, every item has exactly one owner.

**MPSCQueueNonIntrusive, MPSCQueueIntrusive** (`MPSCQueue.h`). State: `_head`,
`_tail`, one `Next` per node (and the dummy object of the intrusive queue).
Operations: `Enqueue` by many threads, `Dequeue` by one, the destructor. Hard: the
list is cut between the exchange and the store of `Next`; nodes are deleted and
their addresses reused; the intrusive queue re-enqueues its dummy. Correct when
the queue is a FIFO queue in the order of the exchanges, nothing is touched after
it was freed or handed out, nothing leaks, a polling consumer gets everything.

Nothing in the repository calls these queues yet: the models let clients make any
calls in any order, within what the classes allow.

### 1.2 `common/Logging`

**Log** (`Log.cpp`, `Log.h`, `Logger.cpp`). State: the maps of loggers and
channels, the level of each, the shortcut `highestLogLevel`, the flag
`_isUseDefaultLogs`. Operations: `Initialize`/`LoadFromConfig`,
`UsingDefaultLogs`, `SetLoggerLevel`, `SetChannelLevel`, `ShouldLog`, `OutMessage`,
`OutCommand`. It reads the configuration store and writes to channels. Hard: the
gate and the write look at the levels at different times; the shortcut is a cache;
reloads replace the maps. Correct when no wanted message is dropped, a message
goes to the nearest logger of its name, and no logger writes to a channel of an
earlier configuration.

**FileChannel** (`FileChannel.cpp`). State: options, the file name (which is
changed while the program runs), the stream. Operations: construction (with the
removal of old files), `Write`, destruction. Hard: opens and writes fail, the
program crashes, timestamps and dynamic names are put into the name that is the
template for the next open, removals throw half way. Correct when what was
accepted is durable or lost without a gap, a run adds one file at most, and only the
oldest files are removed.

**ConsoleChannel, Channel** (colours, the pattern language) are formatting.

### 1.3 `common/Config`

**ConfigMgr** (`Config.cpp`). State: `_configOptions`, `_usingDistConfig`, the lock.
Operations: `LoadAppConfigs` (which clears, loads the `.conf.dist` file and then the
optional `.conf` file), `GetOption`, `GetKeysByString`. The programs and the
logging system read from it. Hard: each of the two loads takes the lock, the pair
does not; a file may break off; an optional file may only change options that
exist, except those of the logging system; the first of two lines for an option
counts within a file, the last file counts among files. Correct when the store
always is what the files loaded since the last clear say.

### 1.4 `common/Utilities`, `common/Progress`

**DownloadMgr** (`DownloadMgr.cpp`). State: the socket, the response, the local
file. Operation: `DownloadFile` (connect, first request, then take, continue with a
second connection, or restart; read until the end). It talks to a server, the disk
and the progress bar. Hard: the connection breaks off, the program crashes while
the stream buffers, a later call continues from the size of what is there, the
remote file is replaced, servers answer what they like. Correct when what is on the
disk is the beginning of the remote file and success means all of it.

**LaunchProcess** (`LaunchProcess.cpp`). No state; starts git through powershell and
reads its output. Hard: `Checkout` does not wait for the process it starts;
`IsCorrectUpstream` reads one pipe to its end before the other. The functions exist
for Windows only, and there they call `MakeDefaultArgsList`, which is declared and
defined nowhere in the repository at this commit. `Checkout` builds the list of
arguments itself, and the model reads the other calls the same way.

**ProgressBar** (`ProgressBar.cpp`). State: the bar of a library and the progress not
printed yet (`_unprintProgress`). Operations: construction, `Update`, `Stop`. It is
driven by the loops of the downloader and of the programs. Hard: updates that come
too soon are collected; the last one must be drawn at once; a bar that begins in the
middle. Correct when nothing is counted twice or forgotten, and when it is full
exactly at the end.

**String, file and time helpers** are pure functions (replace, tokenize, convert,
format, walk a directory).

### 1.5 `app`

All programs are single-threaded dialogs over the library; what is hard in them is
the state that survives from one step to the next, and steps that fail half way.

**Cleanup** (`Cleanup.cpp`). State: the path, the list of files, the found includes
and the replacements of the file at hand. Operations: remove whitespace, replace
tabs, sort includes, remove equal includes, count includes. Correct when only files
of the chosen directory are rewritten, and no include is moved out of its block or
lost.

**SourceCopy** (`CopyMgr.cpp`). State: the entries of the configuration, the selected
one, one list of files that all steps share. Operations: three copies of what is
newer, then the replacement of the scripts (remove all, copy all). Correct when a
run without an error brings the directory up to date, whatever happened before.

**PrTest** (`Main.cpp`). State: the remembered path; and, outside of the program, the
branches and the checked-out branch of a git repository. Operations: `TestPR` asks for
the repository, looks at its upstream, and runs checkout of master, create branch,
checkout of the branch, pull; the two checkouts run in the background. Hard: they
overlap with the commands after them, even of the next test; commands fail and nobody
looks; two pipes are read one after the other. Correct when the request is pulled
into its own branch, which starts from master, and none gets into a branch that
somebody works on.

**Merger** (`Merger.cpp`) replaces a fixed list of texts, held in an `unordered_map`,
in all files below a directory; where two of the texts overlap (`namespace Acore` and
`Acore::`), both orders give the same. **ModuleCreator** (`ModuleCreator.cpp`) creates
the directories and files of a new module, step by step, and looks at the result of
the first step only. **ClientCheck** compares file sizes with a table. **TestApp** is
two calls to try the library out.

### 1.6 Without behaviour of their own

`common/Asio` (forwarding to boost), `common/AsyncCallback` (forward declarations),
`common/Cryptography` (OpenSSL digests), `common/Debugging` (print and die; a crash
in the models), `GitRevision` (constants of the build), `dep/` (third-party code).

## 2. Plan

Order: what is shared between threads first, then what must survive a crash, then
the programs.

| module | models | composed with | state |
|---|---|---|---|
| `Fifo` | the promise of every queue | refined by the three queues | done |
| `PCQueue`, `PCQueueProofs` | `PCQueue.h` | `Fifo` | done, safety proved |
| `MPSCQueue`, `MPSCQueueProofs` | `MPSCQueueNonIntrusive` | `Fifo` | done, safety proved |
| `MPSCQueueIntrusive`, `MPSCQueueIntrusiveProofs` | `MPSCQueueIntrusive` | `Fifo` | done, safety proved |
| `Log`, `LogConfigProofs` | registry, gate and write | | done, proved |
| `LogRetention` | `ClearOldFiles` | | done, proved |
| `FileChannel`, `FileChannelProofs` | the file of a channel over several runs | `LogRetention` at every start | done, proved |
| `Config`, `LogConfigProofs` | `Configure`, `LoadAppConfigs` | | done, proved |
| `ProgressBar` | collected and shown progress | | done |
| `DownloadMgr`, `DownloadProofs` | `DownloadFile` | `ProgressBar` | done, safety proved |
| `PrTest`, `ProgramProofs` | the test of a request, git as processes | | done, safety proved |
| `Cleanup`, `ProgramProofs` | the Cleanup program | | done, proved |
| `CopyMgr`, `CopyProofs` | the SourceCopy program | | done, proved |

Abstract specification: `Fifo`, implemented by each of the three queues. (`LogRetention`
is part of `FileChannel`, not an abstraction of it: section 5.)

Theorems, in this order: the invariants and the refinement of `PCQueue` (done);
`HighestIsSound` (done); the loop of `LogRetention` (done); `EachPRInItsBranch` and
`OwnBranchesAreUntouched` of `PrTest` (done); the safety properties of `DownloadMgr` with
its bar (done); `EachFileInItsPlace` and `DoneMeansCopied` of `CopyMgr` (done); the
invariants of the two lock-free queues for any number of producers and cells, and
with them their refinement of `Fifo` (done); the rest of `Log` (done); `FileChannel`
(done); `OptionsAreWhatFilesSay` of `Config` (done); the three properties of `Cleanup`
(done). Every safety property of a passing run is the statement of a theorem; liveness
is left to TLC.

## 3. Models

### 3.1 Threading

**`Fifo`** is what a queue promises: `Put`, `Take` of the oldest element, and the two
ways of destroying what is queued (one by one, or all at once).

**`PCQueue`.** A call is `Call` (enter the function), `Acquire` (take the mutex) and
one action for the critical section, named after the function. All that the code
shares is touched under the mutex, except by `Size`, so a critical section is one
step. `condition_variable::wait` releases the mutex and sleeps in one step, and a
notified thread must take the mutex again and evaluates the loop of `PCQueue.h:81`
again: it is back at `lock`. `Spurious` wakes a sleeper for no reason. Any thread
makes any calls in any order.
That every function takes the mutex is part of the actions, not
something the run could refute: `OneOwner` is about what the critical sections
leave in the queue, not about a section without the lock.

Fairness: weak fairness of `Acquire` and of the critical sections, for each thread:
an operating system schedules runnable threads. Weak fairness is enough for the
mutex because every thread makes a bounded number of calls, so the mutex cannot be
taken by others for ever; with unbounded calls a fair mutex would be needed, which
`std::mutex` is not. Calls and spurious wake-ups are not fair: nobody has to call,
and no property relies on a spurious wake-up.

**`MPSCQueue`, `MPSCQueueIntrusive`.** One action per access to memory that threads
share: the exchange of `_head`, the store of `Next`, its load, the move of `_tail`,
the `delete`. `new` may return any address that is free, so addresses are reused; in
the intrusive queue a returned object belongs to the client and may be enqueued
again. Acquire and release make the interleaving of these steps faithful: a link is
stored with release and loaded with acquire, and the exchange is both. `list`,
`taken` and `dropped` are history; the queue is the data of `list`. The elements are
ordered by their exchanges, so `Put` of `Fifo` happens at the exchange, not at the
store of the link. The destructor starts when no producer is inside `Enqueue`, as a
C++ program must arrange, and is the same dequeue steps until the first `false`.

Fairness: a producer inside `Enqueue` goes on, and the consumer calls `Dequeue`
again and again, as the consumer of a queue without a wake-up has to.
`Drains` needs both.

### 3.2 Logging

**`Log`.** A dotted logger name is the sequence of its parts. A channel is an
object `<<name, generation>>`, so that a reload under the same name makes a
different object. `Initialize(c)` takes a configuration `c` (loggers and channels
with good and bad entries, a logs directory that can or cannot be made) and does
what `LoadFromConfig` with its readers does: the `ASSERT` on the directory ends
the program, then channels, then loggers that refer to existing channels. The
channels of a logger are kept by their places in its option, where a channel that
does not exist leaves a gap: only their order counts.
`UsingDefaultLogs` is the other way to fill the maps. A `LOG_` macro is two steps
of a thread: `Gate` (`ShouldLog`, unlocked) and `Write`, which looks the logger up
again, compares its level and the level of each channel, and stops at the first
channel that throws; `FormatThrows` replaces a message between the two by the
ungated report to `server`. Loading is enabled only while no thread is between
gate and write (`Quiet`): the maps are not locked, and the programs load before
they start to log. `LOG_GM`, which has no `try`, and exceptions out of a channel that
are not the library's own end the message in the same way here, and the caller's
function in the code; no property is about the caller.

Run `log`: four configurations (a usual one, one without `root`, one with a level
out of range, a channel that throws and a logger that names channels that do not
exist, one without a directory), five names, five levels, two loads, one thread.
One thread is enough: `pending` of another thread disables loading and touches
nothing else, and level changes interleave with the two steps as `Next` allows.
`HighestIsSound`, `LookupIsNearest` (against a definition by longest ancestor),
`LoggersUseRegisteredChannels` and the action property `LevelsAtWriteDecide` hold.

Proved (`LogConfigProofs`): all four, for all configurations, names of any length, levels
and threads (section 5).

**`LogRetention`.** The loop of `ClearOldFiles` over files sorted by date, with a
removal that may throw at any file and later runs that find newer files. `SoFar`
says exactly which of the files before the position of the loop are gone; it gives
`OldestGoFirst` (a loop that stops half way has removed only the oldest files) and
`ExactlyTheRestIsKept` (although `filesCount` is decremented in one branch only).

Proved (`FileChannelProofs`): `TypeOK`, `OldestGoFirst` and
`ExactlyTheRestIsKept` for any finite set of names, any dates and limits;
`IInv == TypeOK /\ SoFar` is inductive, `StepKeeps` is the turn of the loop.

**`FileChannel`.** One channel over several runs of the program. It extends
`LogRetention`: a run begins with `Construct`, which lists the files that earlier runs
left, `ClearStep` for every turn of the loop, `ClearThrows` where a removal throws
(nobody catches it, the program ends) and `Constructed`. The files are those the
channel itself has written, and the date of a file is read back from the stamp in its
name (`FileCreationDate`). A name is the option put into the template (or the
placeholder itself) and the stamps inserted so far. `stream` tells a stream that was
never opened from one that is open, failed after it was opened (`bad`) or failed to
open (`dead`). A write to a stream may fail at any time; then it writes nothing of
that line, and what the buffer held is lost or written when the stream is closed.
`EndOfRun` is the destructor or a crash. `BufferFull` is the library writing its
buffer when it likes. A message that creates a new file adds it to the directory the
next run will clear (`Appears`).

What a failure does to the stream is `AfterFailure`: it stays bad, so that nothing is
written behind a gap, and it stays set, so that no other file is opened. The files that
`ClearOldFiles` finds are those whose name holds the template and timestamps, one or
several in a row (`Stampings`): its expression, `_[0-9-]+[0-9_]+`, matches both.

Assumed: apart from the stamps, a name has no digits, because `GetFileCreationDate`
takes the first digits of a name for the year. `MAX_CHANNEL_OPTIONS` is 7
(`LogCommon.h:79`, `Log.cpp:200`), so the options eight and nine are never reached and
`MaxCount` and `PurgeAge` are always 20 and 10 days in this program; the model leaves
them open. A template with `{}` and seven options is
left out: the regular expression that `ClearOldFiles` makes of it is refused, and the
program ends.

Run `filechannel`: four messages, three runs of the program, one account, the dates
0 to 2, names with up to three stamps, one file kept, a purge age of one day, all
combinations of the options (1.9 million states, half a minute). `AcceptedIsDurable` is
stated for a channel with one file, flush and append; it is false otherwise by design of
the code (without flush a crash loses the buffer, without append the next run truncates).
A message whose file was removed as too old is not owed any longer.
`OnlyTheTailIsLost` is what holds for every static channel: a file that has a message of
a run has all that were accepted before it in this run. A failed write may take
with it what was accepted long before and was still buffered; a channel that cleared
the error and went on (`ClearsState`) would leave a hole. `FewFiles` is what a channel
is to its directory over many runs: files are counted in the constructor only, so a
channel that closed its stream after a failure and opened another one under a new
timestamp (`ReopensStream`) would fill the directory. `OldestGoFirst` and
`ExactlyTheRestIsKept` hold with the dates the names really get. All five are proved
for every value of the constants (`FileChannelProofs`, section 5).

Run `filechannel_dynamic` finds a disagreement: a message for the second account
is written to the file of the first, because line 203 stores the formatted name in
the template.

### 3.3 `Config`

Two threads call `LoadAppConfigs`; each load of a file is its opening under the lock,
`ReadLine` for every line, and then `ApplyFile` (everything at once) or `FailFile`
(nothing). `LoadInitial` clears the store first; `LoadAdditionalFile` is the second
half of the call and starts when the lock is free again, with the load of another
thread possibly in between. Files are sequences of lines after trimming and after
comments were dropped: an option, a line without `=`, or the point at which reading
fails. `Edit` changes either file at any time, except while one is read. `sources` is
history: the files that were applied since the last clear. `Configure` names other
files, which the code allows at any time and the programs do between loads; reading an
option changes nothing and is no action. `OptionsAreWhatFilesSay`
compares the store with a definition that knows nothing of the order of the steps:
an option is given by the last of the sources that says something of it and may, and
its value is that of the first line for it there (`Givers`, `FirstLine`). Proved
(`LogConfigProofs`) for any contents, threads and number of loads.

### 3.4 `DownloadMgr`

Block `k` of version `v` of the remote file is `<<v, k>>`; sizes and offsets are
counted in blocks. `kept` is how much of the local file has left the stream's
buffer: a crash loses the rest. The steps are the two connections, the two responses,
the reads, the end of the connection, a crash, and the replacement of the remote
file. The outside may do what it likes: an error page with a length of its own,
a range that is ignored, a clean end too early, a failing disk (also at the opening,
which may have emptied the file, and at the closing, which may lose the buffer), a replaced
file.
Each of them is recorded in `trouble`, and `LocalIsPrefix` and `SuccessIsComplete` are
stated for a `trouble` that is empty, because the code does not look at the status,
compares sizes only, and promises nothing. Dropped connections, failing requests,
aborted reads, crashes and repeated calls are not trouble: these the code handles.
`ResumeLosesNothing` holds with any trouble.

**`ProgressBar`** has no variables: a bar is a record and `Update`, `Stop` and `NewBar`
are operators on it, which `DownloadMgr` applies in its loop. What was collected and
not drawn is `unprinted`; whether the time of a tick has passed is a choice (`due`).
A download that continues makes a bar from the offset, but the library takes
`MinProgress` only in its constructor and `Init` sets it afterwards, so such a bar begins
at 0 and ends below its size. `BarCountsWhatCame` says so: what is drawn and collected
is what was read in this call, and the bar is full exactly when the last block of a
download from the start has been read.

### 3.5 `Cleanup`

A file is a sequence of lines, a line a pair of what it says and what stands at its
end. The scan of the includes is a fold over the lines with the program's own four
variables (`NextLine` is its body); `EndOfBlock` has its early exits, in which the
collected includes are not cleared. `StdSort` inserts one line after the other, which
gives what `std::sort` gives, because equal lines cannot be told apart. The entries of `_toReplace` are applied in every order, since the container
has none. The dialog (`Select`, `WrongPath`, `FillFileList`, `Confirm`) goes round for
ever, and the loop rewrites one file per step, in any order, where a file that cannot
be read or opened stays as it is. The expression of `RemoveWhitespace` takes the spaces at
the end of a line, all but one of several blank lines, and those at the end of a file
(`WithoutTails`). The file is emptied when it is opened, so that a failing write, or the
end of the program, leaves the beginning of the new text (`WriteBreaksOff`): the code
keeps no copy. `IncludesStay` excepts such a write, `RewritingSettles` and
`RewritesOnlyTheChosen` do not. A line that is cut in its middle is left out.

Assumed of the texts: no line ends with the text of another line, so that a
replacement starts at the beginning of a line and matches whole lines (the code
replaces any part of the text); a file ends with a newline. The list of paths in the
configuration and the commit that is offered at the end are left out.

What TLC taught about it: sorting a file again can go on for ever if it contains two
*different* lines for the header of its own name: they change places in each run.
`RewritingSettles` therefore speaks of files with at most one such line. And a block
of one include, or one that is in order already, keeps the next block from being
sorted, because it is not cleared (`Cleanup.cpp:642`); nothing promises otherwise, so
there is no property about it.

`IncludesStay` compares the old and the new text by a map `p` between the lines that
are no includes: it keeps their order and reaches all of them, and every include has
its like in the other text on the same side of each of them (`InSameBlock`).
Proved (`ProgramProofs`): all three, for texts of any length (section 5).

### 3.6 `PrTest`

A commit is the set of changes it holds, a branch a name for a commit, a request one
change. `TestPR` is one action per question and per git command (`SendPathInfo`,
`IsCorrectUpstream`, `NewBranch`, `CheckoutMaster`, `CreateBranch`, `CheckoutBranch`,
`CheckoutPR`). The two checkouts are elements of `checkouts` from the moment they are
launched, because nobody waits for them; `Switch` and `Switched` are the moments at which
they take the lock of the index and release it, which may be in the next test or after
the end of the program. The pull is a process as well (fetch, merge), but the program
waits for it. Every command may fail, since git may find any reason to, and the
program looks at no result; the listings of branches before the creation and the
checkouts are commands, too (`IsExistBranch`), and one that fails lists nothing. `trouble` records that a command failed or began while
a checkout of another branch was running. `EachPRInItsBranch` is what a test does
without trouble.

That much trouble is normal: the checkout of master is not waited for, and the branch may
be made while it runs (`Main.cpp:175-176`). Then the branch starts from whatever is
checked out, and a checkout of master that ends late, or one of an earlier test, makes
master the branch that the request is pulled into; nothing in the code prevents either,
and nothing in the repository promises otherwise. `OwnBranchesAreUntouched` says what
never happens in any overlap, with any command failing: a request in a branch that was
there before, other than master. It rests on `git checkout -b`, which leaves the user's
branch although the checkouts may all have failed (`git branch` in its place,
`StaysBehind`, breaks it), and therefore excepts runs in which a branch could not be made
(`uncreated`): then the merge may go where the user has been.

`git remote show` writes to stdout and stderr; the program reads stdout to its end
first. `RemoteShowWrites` fills the pipe of stderr, and with more than `PipeSize` of errors
both wait for ever. `TestEnds` is stated for errors that fit, and the states with more
are in the run. Fairness: weak fairness of the program's own steps and of git's. Nothing
disables a step of these for another one to re-enable it, so weak fairness is what a
scheduler gives. `TestPR`, `GoNext`, the background checkouts and the user who moves the
directory are not fair; the user's answer to a question that has been asked is, as
part of `IsCorrectUpstream`.

Read with care in the code: the functions are those for Windows, and the one that makes
their list of arguments is defined nowhere at this commit (1.4). If the remembered
directory is gone, `SendPathInfo` calls itself with nothing changed (`stage = "overflow"`).

### 3.7 `CopyMgr`

Source trees and binary directories are functions from places `<<directory, name>>` to
files, which know where they come from and when they were built. `Build` produces a
state of a source tree while the program is off. A run of the program is `Start`, then
for every step `Fill` (list, and find or create the directory) or `SkipStep`, and
`CopyFile` per file; then `ClearScripts`, `RemoveScript` per script, `ScriptsCleared`
and a last `Fill`. `RemoveThrows` is the exception of `fs::remove` that the macro of
the log message catches. `Crash` ends the program anywhere, in the middle of a
copy too, and leaves `Partial` files. `trouble` is set when the run met an error or
the user refused something. `ClearScripts` goes on with an empty list, so with the old
scripts in place, if the listing fails (`CopyMgr.cpp:436`).

`KeepsTime` says whether a copy gets the time of its original. It does on Windows,
which the names of the copied files (`.exe`, `.dll`) name as the target; with `FALSE`
TLC finds `DoneMeansCopied` violated: a build older than the last copy of another
tree is never copied. A copy that broke off counts as new for the same reason
and is excepted. The scripts are removed in the arguments of a log message; the
program logs at `Debug` (`UsingDefaultLogs`), which the model assumes. Reading the entries from the configuration, and directories that
vanish during the dialog, are left out.

## 4. Runs

| run | instance | what it shows |
|---|---|---|
| `pcqueue` | 3 threads, 2 items, 2 calls each | the queue is a `Fifo`; no wake-up is lost; one owner per item; nothing after `Cancel`; consumers are served and released |
| `mpsc` | 2 producers, 3 enqueues each, 3 addresses, 2 items | the list is whole, no use after free, no leak, a `Fifo`, drained by polling |
| `mpsc_intrusive` | 2 producers, 3 enqueues each, 3 objects | the same with links inside reused objects and the dummy |
| `log` | 4 configurations, 5 names, 5 levels, 2 loads | the shortcut, the lookup, the channels and the level at the write |
| `filechannel` | 4 messages, 3 runs of the program, 1 account, 3 dates, 3 stamps in a name, 1 file kept, all option sets | durability, only the tail of a run is lost, few files, the oldest go first, exactly the rest is kept |
| `filechannel_dynamic` | the same with 2 accounts | finds that the second account's message is in the first one's file |
| `config` | 2 threads, 3 loads, 5 contents | the store is what the files say |
| `download` | 4 blocks, 2 versions, 3 calls | a prefix is on the disk, success is complete, resuming loses nothing, the bar counts what came |
| `download_noranges` | the same | finds the exception for a server without `Accept-Ranges` |
| `cleanup` | 3 files, all texts of up to 4 lines and some longer ones, writes that break off | includes stay, rewriting settles, only the chosen files |
| `copy` | 2 source trees, 1 binary directory, 2 builds, 4 shapes of a tree | a run without trouble ends up to date, files land in their place |
| `prtest` | 3 tests, 2 requests, a pipe for 1 of up to 2 errors | each request in its own branch, none in a user's branch, a test ends |

`PCQueue` and `LogRetention` have a `TypeOK`, which their proofs need and prove; the
other models have their types in the inductive invariants (`Kinds`) or not at all. No
run spends a property on them.

Every bound is a constant of the module, named in its declaration (`MaxCalls`,
`MaxEnqueues`, `MaxWrites`, `MaxRuns`, `MaxStamps`, `MaxDate`, `MaxLoads`, `MaxReloads`,
`MaxVersion`, `MaxBuilds`, `MaxTests`, `MaxErrors`, `PipeSize`) and enforced by a
guard. Why they are enough:

- `pcqueue`: a lost wake-up takes a sleeper, a producer and a third thread that takes
  the item or the mutex in between; two items are needed for order and two calls
  for a thread that changes its role.
- `mpsc`, `mpsc_intrusive`: two producers are enough for a cut list, since each
  producer cuts it in one place; six enqueues over three addresses reuse
  addresses, and in the intrusive queue the dummy is enqueued more than once.
- `filechannel`: a crash, what comes after it, and what comes after that; four messages
  for lines before and after a failure in both; three dates with a purge age of one
  for files that are too many, too old, both, and neither, and for two runs at one date;
  three stamps for a channel that would stamp its name at every message it can see at
  another date. A static channel does not look at the account, so one is enough.
- `download`: three calls fit an interrupted one, one that continues, and one that
  finds the file complete; four blocks can be cut at the beginning, in the middle
  and before the end.
- `config`: the third load can come between the halves of the first two.
- `cleanup`: an overlap of two replacements needs two blocks with a line between;
  the short texts hold the smallest of them, the longer ones the others.
- `copy`: two builds of two trees give a file that is older than the one in its
  place; the second configuration step is like the first and left out.
- `prtest`: the checkouts of a test can still run in the next one; the third test meets
  a request whose branch is there already, next to the checkouts of two others.

`CHECK_DEADLOCK FALSE` stands in the runs whose system may stop: bounded calls are
used up (`pcqueue`, `log`, `filechannel`, `download`), the queue is destroyed (`mpsc`,
`mpsc_intrusive`), or the program is left or waits for a full pipe (`prtest`). In
`pcqueue` a consumer that waits for a producer who never comes is a legal end;
`SleepersAreServed` and `CancelReleasesConsumers` say what it is not. Symmetry is used
in `config` only: its threads are exchangeable and no liveness is checked.

## 5. Proofs

TLAPS proves, for all values of the constants that meet the named assumptions:

- `PCQueueProofs`: `TypeOK`, `NoLostWakeup`, `NoSleeperAfterCancel`, `OneOwner`,
  `NothingHandedOutAfterCancel` and the refinement of `Fifo`. `IInv` is `TypeOK`,
  `NoSleeperAfterCancel`, `NoLostWakeup` and two facts without which `NoLostWakeup` is
  not inductive: only a thread in `WaitAndPop` sleeps, so that a wake-up adds a
  consumer to `Awake`, and a thread in `Push` carries an item. The difficult steps are
  those that change the cardinality of `Awake`: each adds or removes one thread, and
  the lemmas about finite sets turn that into arithmetic. `OneOwner` needs
  `CarriedOnce` on top of it: an item on its way into the queue is carried by one
  thread and is nowhere else yet. Assumed (`PCQueueAssumption`): the set of threads is
  finite, and `None` is neither a thread nor an item.
- `MPSCQueueProofs`: `ListIntact`, `NoLeak`, `NoUseAfterFree` and the refinement of
  `Fifo`, for any number of producers and addresses. `ListIntact` alone is not
  inductive. `IInv` adds who owns what is not in the list: a node between `new` and
  the exchange belongs to one producer (`Unpublished`); a link that is still to be
  stored joins two neighbours of the list, one producer will store it, and until then
  `Next` is null, so the consumer cannot get past it and delete the node
  (`ToBeLinked`); the consumer has at most one old stub in its hands (`Held`). No
  address is twice in the list (`ListOfNodes`), which is where reuse of addresses would
  do harm. In the refinement the exchange is `Put`, the move of `_tail` is `Take`, and
  every other access is a stutter. Assumed (`MPSCAssumption`): `Null` is no node and
  no item, and there is a node.
- `MPSCQueueIntrusiveProofs`: `ListIntact`, `NoTouchAfterHandOff`,
  `DestructorLeavesNothing` and the refinement of `Fifo`. The parts of `IInv` are those
  above with the links inside the objects; new is the dummy, which is outside of the
  list while `Dequeue` prepares it and behind the first object from then on (`Held`),
  so that its exchange and the objects returned before it never meet; and `Alone`,
  because in the destructor the consumer's load of `_head` cannot be out of date. The
  queue that `Fifo` sees is the list without the dummy (`WithoutDummy`), and putting
  the dummy in or taking it out is a stutter.
- `LogConfigProofs`, its first part: `HighestIsSound`, `LoggersUseRegisteredChannels`, `LookupIsNearest` and
  the action property `LevelsAtWriteDecide`. `HInv` adds to the first that levels are
  numbers from 0 to 7 and loggers are records, without which the comparison says
  nothing; `RInv` is the second with the shape of the loggers. `LookupIsNearest` is
  about a recursive function: `Found` says what the search returns for each prefix of
  a name, `FoundIsASearch` that it solves the equation of the search, `SearchIsUnique`
  that nothing else does, by induction on the length (as the smallest counterexample,
  `SmallestExists`), and `FoundIsNearest` that it is the longest ancestor. The action
  property follows from it and from `PendingTyped`. Assumed (`LogAssumption`): names
  have at least one part, levels are numbers.
- `LogConfigProofs`, its second part: `OptionsAreWhatFilesSay` of `Config`. It is not
  inductive alone: applying a file needs to know that what was collected is what the
  file says. `ReadInStep` is that: while the lock is held the file is the one that was
  opened, there is a `k` such that `rest` is what follows its first `k` lines, and
  `fileConfigs` holds the first of these lines for each option (`Collected`).
  `ReadLineKeepsStep` moves `k` by one; at the end `k` is the length
  (`FileIsCollected`). `ApplyKeepsStore` then shows that the new source decides exactly
  the options it is accepted for, and that it changes nothing of what the earlier
  sources say of the others. Assumed (`ConfigAssumption`): files are sequences, a
  line that is neither `Junk` nor `Broken` names an option, and no thread is `Nobody`.
- `FileChannelProofs`: first the loop of `LogRetention` alone (`TypeOK`,
  `OldestGoFirst`, `ExactlyTheRestIsKept`, 3.2), then the channel: the same two in its
  life, `AcceptedIsDurable`, `OnlyTheTailIsLost` and `FewFiles`, for any options,
  messages, runs, stamps and limits. That the steps of a channel are steps of
  `LogRetention` (`ChannelIsADirectory`) is a lemma, which carries the theorems about the
  loop over: the channel is built from these very actions, and all there is to show is
  that a file that appears is a `NewFile`. `Shape` is what this needs: old files are
  only removed in the constructor (`Stages`), and no name holds a moment that is to come
  (`StampsArePast`). `WriteEffect` sorts the branches of `Write` by where the line goes,
  once for all invariants. `OnlyTheTailIsLost` needs `Numbered` (messages are written and
  buffered with the numbers they got, and a run has those after its beginning) and
  `Kept` (while the stream is open, its file and its buffer together have every message
  accepted in this run). `FewFiles` needs three more: a static name is stamped once in a
  run (`NameFollowsStream`), so every file is one that `ClearOldFiles` finds
  (`FilesAreFound`), so a complete loop leaves `MaxCount` of them, and only the file of
  this run comes on top (`Counted`). TLC checked each of these on the instance of
  `filechannel` before it was proved.
- `ProgramProofs`, its first part: `EachPRInItsBranch` and `OwnBranchesAreUntouched`, for
  any repository and any number of tests. `IInv` says how far the branch of a test is
  without trouble (`OnItsWay`): until it is made, every running checkout is one of
  master, so that when none is left master is checked out; from then on every running
  checkout is one of the branch itself. `RefsExist` holds with trouble too: what is
  checked out exists. The second theorem needs `OutOfTheWay`: every running checkout
  is of master or of a request, and from the creation of a branch to the merge a user's
  branch is not checked out, unless a branch could not be made.
- `ProgramProofs`, its second part: the three action properties of `Cleanup`.
  `RewritesOnlyTheChosen` needs `ChosenInv`, how the list and the rest of it hang
  together with the dialog. The other two are about what `Results` makes of *any* text,
  in three layers. (1) Sorting: `SortingIs` says that `StdSort` gives an ordered
  rearrangement, `SkippingKeeps` what remains without the copies of the line in front,
  and `SortedIs` that the result has the same lines and is the same text or nearer to
  its order, position by position (`OrderedIsCloser`: the first difference between a
  rearrangement and the ordered one is a line that was too late). (2) The pass:
  `ScanInv` holds after every line, although two of the exits of `EndOfBlock` keep what
  was collected; so whatever is to be replaced is a list of includes, to be replaced by
  the same includes (`ScannedIs`, `IsReplacement`). (3) The replacements: `Cleaner`
  relates an old to a new text, and holds of every replacement, of what is put in front
  or behind (`CleanerConcat`), and of one replacement after another (`CleanerTwice`).
  Therefore it holds of `ReplaceInPlace`, by induction from the end of the text, and
  of any order of the replacements (`ReplacedIs`), overlapping ones included. `Linked`
  in it is `SameBlocks` without the map `p`: every position is linked to those of its
  block, and this form can be concatenated, which `SameBlocks` cannot
  (`LinkedHasSameBlocks` leads back). A write that breaks off leaves a text that is
  shorter, which is all that `RewritingSettles` asks. Assumed (`CleanupAssumption`): the
  texts are sequences of lines.

  The folds of the community modules are recursive over sets of positions. `Unfolds`
  and `FoldHasSolution` show once that such a recursion has a solution; the lemmas
  named `...Steps` give each fold as a sequence of steps, and `UpTo` is the
  induction over them.
- `DownloadProofs`: `LocalIsPrefix`, `SuccessIsComplete`, `BarCountsWhatCame` and
  `ResumeLosesNothing`, for files of any length and any number of calls. The inductive
  invariant has three parts: `Kinds`, `InStep` (without trouble the local file is a
  beginning of the remote one, and what is coming is all the rest) and `BarInv` (what the
  bar has drawn and collected, its offset and what is coming make up its size).
  `WritingKeepsStep` is the lemma about sequences on which every read rests.
- `CopyProofs`: `EachFileInItsPlace`, and `DoneMeansCopied` where copies keep their
  times (`KeepsTime`), for any number of entries, steps, files and builds. For the
  first, `ListOfStep`: the shared list holds files of the current step only. For the
  second, `JInv`: files are `Genuine` (their time is the time of their build, unless
  they are what a broken copy left), and `Progress` says what a run without trouble has
  done: the earlier steps are done (`StepDone`) and stay so, of the current one everything
  that is no longer in the list, and of the scripts exactly these (`MirroredBut`).
  `CopyAssumption`: the scripts have a directory of their own.

`LogConfigProofs` and `ProgramProofs` hold the proofs of two state machines each, which
share nothing; `Config` and `PrTest` therefore have names of their own for what every
module has (`StoreInit`, `StoreSpec`, `TestInit`, `TestSpec`).

Model-checked only: liveness (`CancelReleasesConsumers`, `SleepersAreServed`, `Drains`
of both lock-free queues, `TestEnds`), which rests on fairness and is out of the
prover's reach. The induction theorems of the library take an operator as a
parameter, which the provers cannot instantiate; where induction was needed (the
search of `Log`, the folds and the texts of `Cleanup`), the proof takes the smallest
counterexample instead (`SmallestExists`, `UpTo`).

## 6. Findings

- `filechannel_dynamic`: `FileChannel::Write` stores the formatted file name in the
  variable that holds the template (`FileChannel.cpp:203`), so that after the first
  message every account's message goes to the file of the first account. The
  comment at line 202 and the exception at line 191 say what was meant.
- `download_noranges`: `at(accept_ranges)` (`DownloadMgr.cpp:259`) throws for a server
  that does not send the field; the restart announced at line 290 is not reached.

Seen while reading, without a run because no behaviour over time is involved:

- `SourceCopy.conf.dist` configures `SC.WarheadBand`; `CopyMgr::Load` asks for `SC.List`.
- `ModuleCreator` reports an existing module when `create_directory` throws; for a
  directory that exists it does not throw, so the report is never made and the files of
  the module are written again.
- `_usingDistConfig` of `ConfigMgr` is set and never reset; it is only logged.

## 7. Not modelled

- `Merger`: its dialog and its loop over files are those of `Cleanup`; the texts of its
  list can be replaced in any order and again, so that neither the order of an
  `unordered_map` nor an interrupted run makes a difference.
- `ModuleCreator`: one function that creates directories and files in a row, looks at
  the first result only and undoes nothing; nothing runs next to it, and it keeps
  nothing between two calls.
- `ClientCheck`, `TestApp`: no state.
- `SendCommand`, `Clone`, `CommitAllFiles` and `IsRepository` of `LaunchProcess`: one
  command each, waited for, with nothing kept.
- The list of paths in the configuration of `Cleanup` and the commit it offers at the end;
  the reading of the entries of `SourceCopy`.
- `Size` of `PCQueue`, and reloads of the logging maps or reads of the options
  while another thread writes them: data races, whose outcome the language leaves
  open and about which the repository promises nothing. `Log` assumes that loading
  happens while nobody logs, which is how the programs use it.
- The text of configuration entries, message patterns, colours, number and date
  parsing: conversions that no property depends on.
- `LOG_` calls without a filter (as in `LaunchProcess.cpp`) take the text as filter and
  the argument as format: a mistake of the caller, not of the logging system.
- Effects inside the arguments of log macros (`Cleanup.cpp:508`, `CopyMgr.cpp:470`)
  happen only if the level allows it; the programs log at `Debug`, which the models
  assume.
- `ConsoleChannel` and the pattern language of `Channel`: formatting.
- `common/Asio`, `common/AsyncCallback`, `common/Cryptography`, `common/Debugging`,
  `GitRevision` (1.6).
- Third-party code (`dep/`, boost, Poco, OpenSSL): `std::queue`, the mutex, the
  streams and the sockets are modelled by what the code relies on. It is nearly all of
  the repository's lines, and none of the program's own.
