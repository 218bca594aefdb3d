# A TLA+ verification of yijinjing-lite

yijinjing-lite is a journal: processes append frames to memory-mapped page
files and other processes read them, nanoseconds later, without taking a lock.
A *page service* process decides who may write which page, creates and maps
page files ahead of need, and cleans up after processes that die. This
directory holds TLA+ models of the service and of the journal, the TLC runs
that check them, and proofs checked by TLAPS.

## 1. The system

All paths are under `src/include/yijinjing/`.

| part | state | operations | talks to |
|---|---|---|---|
| page engine, `paged/PageEngine.*` | registry (`clientJournals`, `pidClient`), comm file (`PageCommMsg[1000]`), `maxIdx`, page book (`fileWriterCounts`, `fileReaderCounts`, `fileAddrs`), tasks, one mutex | `reg_client`, `reg_journal`, `exit_client`, `release_page`, `initiate_page`, `start_comm`, `start_task`, `start`, `stop`, `stop_all`, signals | clients through the socket and through the comm file |
| socket handler, `paged/PageSocketHandler.*` | the singleton, `io_running`, io service, acceptor, the accepted socket, one buffer | `getInstance`, `run`, `stop`, `handle_accept`, `process_msg` | engine, under its mutex |
| tasks, `paged/PageServiceTask.*` | - | `PstPidCheck::go`, `PstTempPage::go` | engine, under its mutex |
| page provider, `journal/ClientPageProvider.cpp` | slot number, hash code | `register_client`, `register_journal`, `getPage`, `exit_client` | socket; comm file, no lock |
| journal, `journal/Journal.*` | `curPage`, `expired` | `seekTime`, `locateFrame`, `loadNextPage`, `expire` | provider, page |
| page and frame, `journal/Page.*`, `Frame.hpp` | memory-mapped bytes, position | `load`, `locateWritableFrame`, `passWrittenFrame`, `finishPage`, `setStatusWritten` | other processes, through memory |
| writer / reader, `journal/JournalWriter.*`, `JournalReader.*` | journals | `write_frame`, `locateFrame` + `passFrame`, `seekEnd` / `getNextFrame`, `seekTimeJournal`, `expireJournal` | journal |
| page files, `journal/PageUtil.*` | the directory | `GetPageNums`, `GetPageNumWithTime`, `LoadPageBuffer` | file system |
| time, `journal/Timer.*` | `secDiff` | `getNanoTime` | engine, for `secDiff` |
| hash, test programs, vendored spdlog / json / CLI11 / strptime | | | not modelled |

How a page is obtained: the client stores `page_num`, then `REQUESTING`, into
its slot and spins on the status byte. The comm thread polls the status bytes
*without* the mutex; when it sees `REQUESTING` it locks, gives back the page
in `last_page_num`, calls `initiate_page`, stores the answer, then
`last_page_num`, and unlocks. The client maps the file itself.

What is hard here:

* three threads share the mutex and a fourth party, any number of client
  processes, shares the comm file without it;
* a client can be killed between any two stores, and `PstPidCheck` then acts
  on whatever its slot contains;
* the writer publishes frames and pages with plain stores that readers poll;
* a page turn involves three parties and a file that exists before its header
  is initialised;
* the engine itself is started and stopped by three threads that share flags
  and an unsynchronised singleton, and may be started again while the clients
  of its predecessor still run;
* a reader of several journals looks at one after the other while all of them
  grow.

`PROJECT.json` lists each hazard with its source line and the properties that
are about it.

## 2. Modules

| module | what it models |
|---|---|
| `PageEngine` | the engine and its three threads against *any* clients: an environment that stores what clients store, in any slot, at any time; the engine may end and be started again |
| `PageEngineProofs` | the proofs about it |
| `PageService` | the engine with the clients of the library in place of the environment |
| `PageServiceProofs` | the clients stay within that environment, so the engine's theorems hold in the service |
| `PageOwnershipProofs` | a running client keeps its registration and its slots |
| `PageAdvanceProofs` | a reader at the end of a page gets the next one |
| `PageAppendProofs` | one appender per journal, with the lock of its page, as long as no client is killed |
| `MCPageService` | instances for TLC |
| `JournalLog` | abstract: an append-only sequence of which every reader is given a contiguous run, except where it seeks |
| `JournalPages` | detailed: one journal store by store, with crashes of the writer |
| `JournalPagesProofs` | its invariant, and that it implements `JournalLog` |
| `MCJournalPages` | instances for TLC |
| `JournalReader` | one reader over several journals: merge by nano time, seek by time, with a writer per journal |
| `JournalReaderProofs` | its invariant, and that each of its journals implements `JournalLog` |
| `MCJournalReader` | instance for TLC |
| `PageEngineLifecycle` | the engine's process: start, threads, singleton, signals, stop |
| `PageEngineLifecycleProofs` | its invariant |
| `MCPageEngineLifecycle` | instance for TLC |

`PageService` EXTENDS `PageEngine` and conjoins its actions with what the
clients do (`ServeClient` = `reg_client` plus the client's reaction, and so
on). `JournalPages` relies on what `PageService` checks (`OneAppender`) and
therefore has one writer. `JournalReader` relies in turn on what
`JournalPages` checks (a page is a segment of an append-only sequence of
frames, committed one by one) and keeps of a frame only its nano time; each of
its journals is again an instance of `JournalLog`. `PageEngineLifecycle` keeps
of a request, a task or a poll only that it holds the mutex; what it does with
it is `PageEngine`'s.

### PageEngine

| variable | code |
|---|---|
| `comm` | the comm file; folder and name are one value `journal` |
| `maxIdx` | `maxIdx` |
| `clientJournals`, `user_index_vec` | `clientJournals` and the vector inside `PageClientInfo` (a set here: only membership is used); the hash code of a registration is the handler it was given to |
| `pidClient` | `pidClient` |
| `book` | `fileWriterCounts`, `fileReaderCounts` (a missing key is 0), `fileAddrs`, the page files on disk, and whether the temp page is mapped |
| `commIdx`, `commPc` | where `start_comm` is |
| `mutex`, `exiting`, `exitLeft`, `toRemove` | `paged_mtx`; where `exit_client` and `PstPidCheck::go` are |
| `alive`, `up` | which processes run; whether the engine does |

Grain of atomicity. Inside a critical section only the *shared* memory can be
observed by others, so a section is split exactly where it stores there:
`exit_client` into its head, one step per slot and its tail; `start_comm` into
the unlocked test (`CommScan`), the work up to the store of the answer
(`CommServe`) and the store of `last_page_num` (`CommDone`). `reg_journal`
stores twice into a slot nobody else uses yet and is one step. `CommServe`
writes `page_num` temporarily (lines 504-507); a client never writes that slot
at that moment unless the slot changed hands after the unlocked test, and that
sub-case of the race is not split further.

A process that dies while its request waits in the socket makes the answer's
`write` throw; nothing catches it and the engine terminates (`Reply`).

Outages. With `Outages` the engine may end at any step (`EngineDies`) and a
new process may start (`start`): comm file zeroed, registry, counts, `maxIdx`
and temp page gone, page files and clients still there. In `PageService` a
request that meets a dead engine takes the paths of `getSocketRsp`: `connect`
throws, or `read_some` fails silently and the answer buffer is read as it was.
That buffer is uninitialised stack memory, so `register_journal` may throw or
take any slot for its own (`JournalUnanswered`); `register_client` is taken to
throw, as nothing of its type has ever been in that buffer. `exit_client` is
called from a destructor, so what `connect` throws ends the process
(`ClientUnanswered`). A request sent to the old socket is never seen by the
new engine.

### PageService

`ctl[h].pc` is the place of the single thread of handler `h`: `new`,
`regclient` (request sent), `ready` (between calls), `regjournal`, `check`,
`fill`, `hold` (in `register_journal`), `scan` (in `seekTime`), `post`,
`send`, `spin` (in `getPage`), `finish`, `locate` (in a writer's
`locateFrame`), `bye`, `leaving`, `gone`. `jr[h][j]` is its `Journal` object.
`header[k]` abstracts a page's content to what drives control: raw, open,
full, closed. Calls that throw (`MORE_THAN_ONE_WRITE`, a refused
registration) end in the destructor, as they do out of `create`. A writer
without a page dereferences null and its process dies (`finishPage`,
`write_null`).

### JournalPages and JournalLog

A page is a row of cells, each the size of a frame header. `WriteData`,
`WriteHeader`, `ClearNextEntry`, `SetStatusWritten` are the stores of
`write_frame` in order; `LocateFrame` is the other interface, which stores the
nano time first and lets the application fill the frame, and `DropFrame` an
application that never passes it. Payload bytes may look like anything when read as a
header; `Payload` makes them look like the most harmful thing, a written
frame, so that forgetting to clear the next entry shows. `ChainMatchesLog`
compares what the cells say with `log`, the history of the commits: every
frame is where its predecessor on the page ends, or at the top of a page, and
where the next one will begin the status is not WRITTEN. Nothing in the code
compares the length of a frame with what is left of the page:
`locateWritableFrame` only looks for `PAGE_MIN_HEADROOM`. A store beyond the page
kills the writer or hits whatever is mapped there; the model stops the writer at
`pc = "overrun"` and does not follow it further (it may still crash and be
started again). `OverrunIsLong` says that only a frame longer than the headroom
gets there. `Before` maps a reader's page and
position to the number of frames in front of it; `ImplementsLog` states that
under this mapping the pages implement `JournalLog`. There a reader that is
inside `seekTime` (`pc = "skip"`), or whose journal has expired, may go anywhere;
every other step of it takes the next frame, so none is skipped and none repeated
between two seeks. A journal expires by `expireJournal` (`Expire`) or by a seek
that `Page::load` answers with null, because the page is not there or its header
is still raw (`Seek`); it has no page then and asks for none until it seeks again.
`ReaderKeepsPage` says that a reader loses its page in no other way.

### JournalReader

`reader.pc` is the place of the reader inside `getNextFrame` (`look`, one step
per journal, as `at` says) or inside `seekTime`: the headers are read one by
one from the last page to the first (`scan`), the page is loaded (`load`), its
frames are passed (`pass`). A header read while the page is being made yields
0 or, when the file is still short, anything (`Header`). `Located` is
`Journal::locateFrame`: at a page end the next page, without a page page 1.
`StreamsInOrder` compares every journal with an instance `Log(j)` of
`JournalLog`, in which only seeking or expiring that very journal counts as a
seek (`InSeek`). The writers stamp a frame when `write_frame` is entered and publish it later,
possibly after a page turn of four steps (`CreatePage`, `InitPage`,
`OpenPage`, `ClosePage`). One clock serves all: the processes add the same
`secDiff` to the monotonic clock, because they get it from the engine. It may
stand still between two readings. `oldest` and `out` are history: the oldest
frame that was unread when `getNextFrame` was called, and the frame each
journal returned last.

### PageEngineLifecycle

`pc` has one entry per thread. `getInstance` is three steps (test, make, get)
because two threads run it at once during `start`; `this` is the handler the
socket thread runs and `m_ptr` the one `start` and `stop` ask. When both make
one, one of them is destroyed (`destroyed`, `HandlerDestroyed`), normally the
first; when the two assignments of the `shared_ptr` overlap, possibly the one that
`m_ptr` is left with. Whoever uses a destroyed handler may find its memory as it
was and go on, or bring the process down (`DestroyedUsed`), and `is_running` of it
may read anything (`AwaitRunning`). A poll of the comm thread that finds
`REQUESTING` (`CommFind`) leads to the mutex and nowhere else, whatever stop does
meanwhile. The socket thread dies of a `bind` that fails (`BindFails`), of an accept
that fails, because `handle_accept` takes no error code and reads from a socket
nobody is behind (`AcceptFails`), and of a client that dies (`SocketRead`,
`ProcessMsg`). `stop_all` is split at every join and
at every call of `PageSocketHandler::stop`, since the socket thread uses the
same objects meanwhile. An exception in the socket thread is caught by nobody
and aborts the process.

## 3. Runs

Passing runs:

| run | instance | shows |
|---|---|---|
| `crash` | writer, reader; 2 pages; both may be killed; the reader may seek or expire once | `ServiceTypeOK`, `BookOK`, `RegistryOK`, `SlotsOK`, `LockOK`; `ReaderAdvances`: at a page end a reader gets the next page, never null |
| `writers` | two writers, no file at first, 3 pages, the temp page cannot be renamed into the folder | `OneAppender`, `AppenderHoldsLock`, through page turns that succeed and that fail; `ImplementsEngine` |
| `restart` | two processes with the same client name, one slot, either may be killed | `SlotOwnership`, `AppenderHoldsLock`: the new process is never damaged by the removal of the old one |
| `live` | writer, reader; the reader may be killed; fair | `RequestAnswered`: no spin in `getPage` lasts for ever; `DeadRemoved`: the registrations of a dead process go away |
| `pages` | writer killed up to twice, one reader that may seek once and expire, 3 pages of 4 cells, headroom 1, 3 frames of up to 3 cells, both writer interfaces; fair | `TypeOK` (no position outside the page), `OverrunIsLong`, `ChainMatchesLog`, `ClosedHasSuccessor`, `ReaderKeepsPage`, `ImplementsLog`; `ReadUnlessAbandoned`: a polling reader that does not expire reads everything unless it waits in a page a crash has left open |
| `outage` | writer that may be killed, reader; the engine ends and starts again at any step, any number of times | `BookOK`, `SlotsOK` of the new engine, whatever the clients of the old one store |
| `merge` | two journals, of two pages and of one, 3 frames, 2 times, one seek or expiry; fair | `OldestFirst`: `getNextFrame` leaves nothing older behind; `StreamsInOrder`: each journal comes out in order, none left out and none twice outside a seek; `SeekFindsTime`: a seek skips nothing it was asked for; `EverythingReturned` |
| `lifecycle` | three tasks, two signals, two clients; fair | `ServesWhenStarted`, `AbortExplained`, `StartEnds`, `StopEnds`: start means running; what brings the engine down is a dead client, a failed bind or accept, a destroyed handler or a stop, never the order of the threads; neither start nor stop hangs |

Runs that refute what a comment of the repository says (each is a finding in
`PROJECT.json`, with the quotation):

| run | refuted | how |
|---|---|---|
| `lastpage` | `WriterCountsExact`: writer counts are numbers of writers | the next request is stored between the answer and `last_page_num` |
| `nullpage` | `NullMeansNoJournal`: a null page means there is no journal | reader seeks a page whose file exists and whose header does not |
| `twoappend` | `OneAppender`: one writer per journal | a writer killed between storing `page_num` and `REQUESTING` makes `exit_client` give back the page of a live writer, and a third one is let in |
| `pagesstuck` | `EverythingRead`: one continuous memory | writer killed between creating the next page and closing the old one |

`OneAppender` holds in `writers`, where nobody is killed, and fails in
`twoappend`; `EverythingRead` fails in `pagesstuck`, and `ReadUnlessAbandoned`
shows in `pages` that an abandoned page is the only reason. `AppenderHoldsLock` survives the crashes of `restart` because a successor
under the same name registers only after its predecessor is removed, so no two
writers hold pages at once; on the way to `twoappend` it is the first to break.

Met while modelling and not the subject of a run:

* `locateWritableFrame` looks for `PAGE_MIN_HEADROOM` only and nothing compares the
  length of a frame with what is left of the page (`Page.h:118`), although
  `Page.h:70` speaks of "enough space": a longer frame near the end is stored beyond
  the page. `OverrunIsLong` allows exactly this;
* a slot freed by `exit_client` between the comm thread's unlocked test and its
  lock is served all the same and stays ALLOCATED for nobody
  (`PageEngine.cpp:497`); a slot taken by `reg_journal` for a name that has gone is
  lost likewise. `DeadRemoved` therefore speaks of registrations and not of slots;
* the merged stream is ordered only as far as `OldestFirst` says: a frame
  published in a journal the loop has passed comes out after a younger one,
  although `JournalReader.h:21-23` speaks of "one stream with nano time order";
* a seek that meets a page being made may choose it by its zero `start_nano`
  and skip the frames before it (`PageUtil.cpp:117`); `SeekFindsTime` excepts
  this case by name (`raw`);
* two handlers made by `getInstance` keep `start` waiting for ever, or one is used
  after it was destroyed; `ServesWhenStarted` (for the socket thread),
  `AbortExplained`, `StartEnds` and `StopEnds` except this case by name
  (`HandlerDestroyed`);
* `handle_accept` takes no error code: a failed accept is taken for a client, and
  the exception of its `read_some` ends the engine (`PageSocketHandler.cpp:123`);
* what survives an outage of the engine is on its own: a writer that turns a
  page is refused for want of a journal name and dies on the null page, a
  request above the new `maxIdx` is never polled, a writer in the middle of a
  page goes on beside the one the new engine lets in. `OneAppender`,
  `SlotOwnership`, `AppenderHoldsLock`, `ReaderAdvances` and the liveness
  properties are therefore stated of runs without outages;
* asking again for the page one has (`seekTime` twice) counts the reader twice
  (`PageEngine.cpp:445`); `MaxCount` bounds this;
* `seekEnd` on the page the writer has is refused and the writer entry stays
  behind at exit (`JournalWriter.cpp:106`);
* a reader killed between its two stores gives back a page another reader
  still uses (`PageEngine.cpp:469`): the reader-side form of `twoappend`;
* `finishPage` closes the old page although the rename of the temp page failed
  and there is no next one (`Journal.cpp:87`); `ReaderAdvances` is therefore
  stated of the runs where the rename works.

Bounds and why they are enough. One journal: slots, counts and files of
different journals never interact except through the slots, which the handlers
already compete for. Two handlers suffice for every race between the engine's
threads and two clients; the third writer is needed only for `twoappend`
(victim, culprit, intruder). Two or three pages give a first, a middle and a
last page. `MaxUser` of 1 or 2 makes slots run out and be reused. `MaxCount`
caps the reader count, which repeated seeks would otherwise raise without
bound. In `JournalPages` frames of one to three cells in pages of four, with a
headroom of one, make pages end with and without unused cells, make long frames
fit, end just behind the page and reach beyond it; two crashes let a second writer
overwrite what the first left and crash as well. In `JournalReader` pages of
one frame make every frame a page turn, two journals give the loop something
to have passed already, and two times give equal, earlier and later stamps; the
number of outages is not bounded. Logs are: a journal that always has older
frames than another cannot occur, so `EverythingReturned` is about page turns and
the order of looks, not about such starvation. Deadlock checking is off
because the system may stop: the engine may terminate after a kill, a process
may exit for good, and the bounded journal ends.

Fairness. Every thread of a running process is scheduled: weak fairness for
each step of a thread, strong fairness where a step waits for the mutex, since
`std::mutex` is held for finitely many steps and every holder sleeps between
two acquisitions (`usleep` in `start_comm` and `start_task`; a client sends
finitely many requests). Application calls get no fairness, nor do kills.
A reader polls (`startVisiting`), a writer inside a call goes on. In
`PageEngineLifecycle` a client that has connected sends its request or is
killed, because `getSocketRsp` writes right after `connect`; nobody need
connect, put a request into a slot or send a signal, and nothing need fail.

Stores are taken in program order, as the x86-64 builds of the repository
produce them; the status bytes are `volatile`, the other fields plain.

## 4. Proofs

`PageEngineProofs` proves, for every value of the constants that satisfies
`EngineAssumption`:

* `EngineInvariant`: `Spec => []EngineInv`, with outages or without;
* `EngineBook`, `EngineSlots`, `EngineRegistry`: its parts that the runs check.

`EngineInv == TypeOK /\ BookOK /\ RegistryOK /\ SlotsOK /\ LockOK` is
inductive. `SlotsOK` says an owned slot is not RAW until `exit_client` has
visited it; that needs `LockOK`, which says whose slots the loop is visiting
and that nobody registers meanwhile; `ExitFinish` needs `RegistryOK` to know
that the pid it updates is the one the name is filed under. `BookOK` is
preserved by `release_page` and `initiate_page` for any arguments whatever
(lemmas `ReleaseKeepsBook`, `InitiateKeepsBook`), which is why no behaviour of
the clients can break it - the findings above damage *which* page is released,
never the consistency of the book. One lemma per action (`OutageKeeps`
for the end and the restart of the engine), then `NextKeeps`.

`PageServiceProofs` proves about the whole service, for any number of
handlers, journals, slots and pages:

* `ServiceImplementsEngine`: `ServiceSpec => ImplementsEngine`, where
  `ImplementsEngine` is `PageEngine`'s `Spec`. The engine is specified against
  an environment that may store a page number, and then `REQUESTING`, into any
  slot at any time; the clients of the library are shown to stay within it.
* `ServiceTypes`: `ServiceSpec => []ServiceTypeOK`.
* `ServiceConsistent`: `BookOK`, `RegistryOK`, `SlotsOK` and `LockOK` in the
  service, from `EngineInvariant` through the refinement.

The invariant is `ClientInv`: per handler `HandlerOK` (inside a call that
works on a journal that journal has a slot; a journal with a page has a slot;
page numbers are in range; a writer that turns a page is not on the last one
the bound allows), and of the pages `HeaderOK` (the last page the bound allows
is never closed, so that the page a reader asks for next exists). It needs
nothing of the engine but its types. `ServiceStep` shows in one go that a step
keeps `ClientInv` and is an engine step or a stutter; `CallKeeps`,
`InCallKeeps`, `SocketKeeps` and `UnansweredKeeps` are its groups of actions, `OneHandler`
and `OnlyControl` the frame arguments they share.

The assumptions are those of the two modules (`EngineAssumption`,
`ServiceAssumption`): sets and functions of the right kind, positive bounds.

`PageOwnershipProofs` proves `ServiceSlotOwnership`: `SlotOwnership` for any
number of handlers, processes, names and slots, with processes killed at any
step, assuming `~Outages` (a second engine knows nothing of the clients of the
first, see above). `SlotsOK` already says that no slot has two owners in the
engine's books; what is missing is that the books agree with what the clients
believe. `OwnerInv` adds it: `PstPidCheck` has only dead processes on its list
(`RemovesOnlyDead`; this is where the mutex held during the whole round
counts), `exit_client` works for a dead process or for a client that has said
good-bye (`ExitIsDue`), a running client is registered with all its slots
(`Registered`), and one that is not registered yet has none (`NewHasNone`).
`CalmKeeps` disposes of all steps inside a call at once.

`PageAdvanceProofs` proves `ServiceReaderAdvances`: `ReaderAdvances` for any
number of handlers, journals, slots and pages, with processes killed at any
step, assuming `~Outages` and `Foreign = {}`. Where a temporary page cannot be
renamed a writer still closes the page it has, and a reader then asks for a page
that does not exist; the run `writers` has such a journal, with writers only.
`AdvInv` is inductive together with `EngineInv`, `ClientInv` and `OwnerInv`. It
has four parts: a closed page has a successor with a header (`NextExists`);
every slot says which journal it serves in which role (`Apart`, `Contents`); the
number and the status in a slot belong to the question its client has put
(`Posted`, `Turns`, `Answers`); a writer about to close a page has the next one
(`Finishing`). `CommServeFacts` is the engine's side of it, what one visit of
`PstPageComm` can do to the slots and the files; `ClientKept` is the clients',
a handler whose own state and slots a step leaves alone keeps its part
(`SlotIsMine`, from `OwnerInv`, says that nobody else's step reaches its slot).

`PageAppendProofs` proves what the service is for, again for any number of
handlers, processes, names, journals, slots and pages, assuming `~Outages` and
`Foreign = {}`:

* `ServiceLocksHold`: `OneAppender` and `AppenderHoldsLock` hold until the first
  client process dies (`AllAlive`);
* `ServiceNoWriterDies`: with `Mortal = {}` they always hold, and no client
  dies of itself either: a writer never meets the null page that `write_frame`
  and `loadNextPage` would dereference.

The assumptions are needed. With a client killed `twoappend` is a
counterexample: what `exit_client` gives back for a dead writer can be the page
of a live one. Where a rename fails a writer does meet the null page, which the
run `writers` shows on purpose; there the two properties are model-checked
only.

The engine counts writers per page, a client knows only its slot, and the page
served before is given back by the numbers that stand in the slot; `AppendInv`
says that the three agree. `Grant(h, j)` is the page a writer has the lock of:
the one just granted and not yet loaded, else its current one. The engine has a
writer entry for every grant (`Locked`) and no two writers have the same grant
(`Exclusive`). For that, per slot (`WriterSlot`): status and place inside
`getPage` go together (`StatusFits`), `page_num` is the page asked for or the
page held (`NumberFits`), `last_page_num` - stored only after the answer, and so
perhaps after the client has stored its next question - is that page, the
granted one or none (`LastFits`), and the page asked for is the next of one that
is used up or the newest file at the time of the seek (`TargetFits`). Locks are per
page and `OneAppender` is per journal, so two writers on *different* pages have
to be excluded too: a page with a newer one is used up (`Chain`), because only
a writer that has used its page up makes the engine create the next, and no
writer starts behind the newest page (`Newest`). `Lists` and `HasIsMine` say
that no slot serves two journals, also while its client is being removed.

The comm thread takes most of the proof (`CommServeAppend`): it gives one page
back and grants another in one visit. `UntouchedKept` is the frame argument for
every slot a step does not touch, `ClientAppend` the one for the steps of a
client, `SlotlessAppend` the one for registration and good-bye.

`PageEngineLifecycleProofs` proves `LifecycleTypes` (types and mutual
exclusion), `StartedMeansServing` and `AbortIsExplained` from
`LifecycleInvariant`. `HandlerInv` says whose `io_running` may be set, which is
what makes `start` notice the socket thread of its own handler only; `CommInv`
and `SocketInv` say what each thread may rely on while main is where it is, as
long as no handler was destroyed. The step that matters for `AbortIsExplained` is
that the socket a client is served on is open whenever the engine is not
stopping.

`JournalPagesProofs` proves of one journal, for pages, frames, logs, numbers of
readers and of crashes of any size: `PagesTypes` (no position leaves its page),
`PagesOverrun` (no store does, for a frame that fits the headroom; the length of
frames is not restricted), `PagesChain`, `PagesSuccessor`, `PagesReaderKeepsPage`
(a raw page is the newest one, lemma `RawIsLast`), and `PagesImplementLog`. `PagesInv` is inductive. Beside the checked invariants it
has: pages are created in order (`FilesInOrder`); the frames of the log are
sorted by page, each page begins with one at its top (`LogOK`); the writer is
at a *chain point* of the last page - a place where a frame ends, or the top -
whose status is RAW, except between `loadNextPage` and `finishPage` (`WriterOn`,
`WriterTurns`, `WriterFrame`); a reader is at a chain point of an initialised
page (`ReaderOK`). That a written frame's length leads to the next chain point
is what keeps a reader from ever interpreting payload bytes. The refinement
needs one lemma per kind of move: `AbsAppend`, `AbsDeliver`, `AbsNextPage`
(passing a page end moves the reader over no frame), `AbsSeekTo`.

`JournalReaderProofs` proves of a reader over any number of journals, pages,
frames and calls: `ReaderTypes`, `ReaderOldestFirst`,
`ReaderSeekFindsTime`, `ReaderStreamsInOrder`. `ReaderInv` says that logs are
sorted (`LogSorted`, from `WriterInv`: a writer stamps after all it has
published), which page states a writer can leave behind (`PageInv`), where the
cursor may be (`CursorInv`), and the two loop invariants. That of
`getNextFrame` (`LookInv`): what is found is unread and its time is right, and
either it is as old as the oldest frame that was there at the call, or that one
waits in a journal the loop has not reached. That of `seekTime` (`SeekInv`):
all frames before the page chosen, or before the place reached, are older than
the time sought - unless the page was chosen by a header that was not
initialised (`raw`), the case `SeekFindsTime` excepts.

Only model-checked: liveness (`RequestAnswered`, `DeadRemoved`,
`ReadUnlessAbandoned`, `EverythingReturned`, `StartEnds`, `StopEnds`), which is
beyond the prover, and `OneAppender` and `AppenderHoldsLock` where clients are
killed or renames fail (`restart`, `writers`): with clients killed they hold
for particular arrangements of names and slots only.

## 5. Not modelled, and why

* `add_task` / `remove_task`: the set of tasks is a constant. Nothing calls
  the removal, whose test is inverted (`PageEngine.cpp:257`).
* Two handlers sharing one `PageProvider`: the library never does it; the
  destructor of the first would remove the client of both.
* Nano times across engine sessions: `secDiff` is rounded to seconds and taken
  anew by every engine (`Timer.cpp:412`), so the times of two sessions may
  overlap. The models have one clock.
* Weaker memory models than program order.
* Failure of `open`, `mmap`, `mlock`; a full disk. `PageUtil` throws or
  returns null, and no caller handles it. (A `bind` or an accept that fails is in
  `PageEngineLifecycle`.) Also `RemoveJournal`, which nothing calls.
* What a writer does after it has stored beyond its page, and what a destroyed
  socket handler does beyond going on or bringing the process down.
* `LocalPageProvider`: no service, no protocol.
* Formatting and parsing of times, `MurmurHash2` (hash codes are taken to be
  distinct), logging, the test programs beyond `page_service`.
* Vendored code: `json.hpp`, spdlog with fmt, CLI11 and the `strptime` of
  `Timer.cpp`, which is by far the largest part of the source tree and holds
  none of the journal's logic.

## 6. Plan

Every invariant and every action property the passing runs check is stated by a
theorem; the liveness properties are not. What is left is to weaken
assumptions: `ServiceLocksHold` asks that *no* client has died, where it might
be enough that no writer has, since the slot of a reader gives back reader
counts; and `Foreign = {}` could be replaced by an invariant that allows a
writer without a page.
