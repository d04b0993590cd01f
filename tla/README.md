# A formal model of efi-wrapper

efi-wrapper runs UEFI programs as ordinary processes: it loads a PE image, gives it a system
table whose boot services, runtime services and protocols are C functions of the emulator, and
calls its entry point. This directory holds TLA+ modules translated from that C code, TLC
configurations that check them on small instances, and proofs TLAPS checks for every value of
the constants. `PROJECT.json` maps each definition to the lines it stands for, lists what each
run checks and gives, for every property, a plausible bug in the code that the run would find.

    tlc -config Images.cfg ImagesMC.tla      # model-check one configuration
    tlapm ImagesProofs.tla                   # check the proofs of a module

| code | module | run | proofs | status |
|---|---|---|---|---|
| `efi/tables/event.c` | `Events` | `events_nesting`, `events_live` | `EventsProofs` | modelled, safety proved |
| `efi/service.c`, `context.c` | `Services` | `services`, `services_stop` | `ServicesProofs` | modelled, safety proved |
| `efi/tables/protocol.c`, `handles.c`, `controller.c` | `Protocols` | `protocols`, `protocols_uninstall` | `ProtocolsProofs` | in part, safety proved |
| `graphics_output/sdl2.c`, `gop.c` | `Display`, `Input` | `display`, `library` | `DisplayProofs` | in part, safety proved |
| `loader/execute.c`, `running.c`, `image.c`, `file.c`, `crash.c`, `efi/tables/image.c`, `main.c` | `Images` | `images` | `ImagesProofs` | in part, safety proved |
| `lib/mem.c`, `efi/tables/memory.c` | `Memory`, `Layout`, `MemoryMap` | `storage`, `library` | `StorageProofs` | in part, safety proved |
| `efi/tables/variable.c`, `configuration.c` | `Storage`, `Store` | `storage` | `StorageProofs` | modelled, proved to implement `Store` |
| `simple_file_system/` | `Files`, `FileData` | `files`, `library` | `FilesProofs` | in part, safety of `Files` proved |
| `simple_text/` | `Console`, `Terminal` | `console` | `DisplayProofs` | in part, safety proved |
| `efi/data/` | `Firmware` | `library` | `ServicesProofs` | in part, proved |
| `lib/general/list.c` | `Links`, `Lists`, `ListSpec` | `library` | `ImagesProofs` | in part, proved to implement `ListSpec` |
| `libs/tlsf/tlsf.c` | `Tlsf` | `library` | `ServicesProofs` | in part, proved |
| `graphics_output/fb.c` | `Blt` | `library` | `DisplayProofs` | in part, proved |
| `loader/parser.c`, `pe.c`, `loader.c`, `symbol.c` | `Headers`, `Loader` | `library` | `ImagesProofs` | in part, `Headers` proved |
| `loader/fake_ins_aarch64.c` | `FakeRegisters` | `library` | `ImagesProofs` | in part, proved |
| `lib/efi/device_path.c`, `lib/general/path.c` | `DevicePaths`, `Paths` | `library`, `files` | | in part |
| `lib/efi/char16.c`, `string.c` | `Text`, `Statuses` | `library` | | in part |
| services without state: `dxe.c`, `time.c`, `hii/`, ... | `Answers` | `library` | | modelled |

`Lemmas` holds what several of the proof modules cite.

## 1. Inventory

Everything below runs in one thread, except the SDL2 console, which adds one (and the VNC output,
whose library has its own). What makes the emulator hard nevertheless is *reentrance*: the
emulated program is called back in the middle of the emulator's own functions, by the
dispatcher of notifications and by the connection of drivers, and may then call any service
again or never return at all, because Exit is a `longjmp`.

**Events and task priorities** (`event.c`). State: `ctx->events`, `ctx->event_queue`, `ctx->tpl`,
`ctx->notifies`, and `type`, `notify_tpl`, `signaled` of each event. Operations: CreateEvent(Ex),
CloseEvent, SignalEvent, CheckEvent, WaitForEvent, SetTimer, RaiseTPL, RestoreTPL, Stall and
RegisterProtocolNotify; `efi_run_event_queue` dispatches. Every service that ends with a
dispatch calls into the program. Hard: nested dispatches under a saved list node, functions that
leave the level raised, a queue that must stay sorted. Correct when no function is re-entered,
the saved nodes stay linked, no signal is lost and waiting ends.

**Service manager** (`service.c`, `context.c`). State: the list of configurations, flags of the
services, `ctx->svc_ins` with a status each. Operations: registration by constructors, options of
main, the start loop, the stop loop. It calls the condition, start and stop functions of
services, which create tables and protocols. Hard: constructors run in any order, start functions
fail, conditions look at other services. Correct when dependencies run first, one graphics output
runs, and the loops end when nothing more can be done.

**Firmware tables** (`efi/data/`). State: the pointers of the context to boot services, runtime
services, system table and DXE services, their contents and checksums. Each is made by a service;
three more services and the three consoles change the system table. Hard: the start functions look
for few of the tables they use; the checksum must follow every change. Correct when tables are there
when used, their sums are right and a context is complete.

**Protocol database and driver binding** (`protocol.c`, `handles.c`, `controller.c`). State: the
handles of a context, their interfaces, the open records of each, the registrations. Operations:
Install, Uninstall, Reinstall, InstallMultiple, Open, Close, OpenInformation, RegisterProtocolNotify,
LocateHandle, Connect, Disconnect. They signal events (Events) and call drivers, which call them
again. Hard: loops over lists the called functions change, records counted and freed, rollback.
Correct when an interface has one owner, no record is used after it is freed and calls end.

**Images and execution** (`image.c` of the tables, `loader/`, `main.c`). State: the efi_file of
each program, `efi_running_stack`, `efi_current_ctx`, the C stack with a jump target per running
image, the handlers of signals. Operations: the loop of main, LoadImage, StartImage, Exit, the
return of an entry point. Installing an image's protocols dispatches notifications of programs that may
have ended. Hard: Exit across frames of other images and functions; restarted images; exit data.

**Crash handler and instruction emulation** (`crash.c`, `fake_ins*.c`). State: handlers, `catch`,
the emulated registers. A fatal signal prints a report, restores the saved handlers and is raised
again; a privileged instruction of aarch64 is emulated and stepped over. Correct when a crash ends
the process and a register keeps what the program gave it, unless it is read-only.

**Loader** (`parser.c`, `pe.c`, `loader.c`, `symbol.c`). No state between files. Hard: headers that
point outside of the file, sections that share a page, relocations. Correct when the parser stays
inside the file and each cell and page gets its contents and the protection its sections need.

**SDL2 console** (`sdl2.c`, `gop.c`, `fb.c`). State: mode, frame buffer, its configuration and the
texture; the event queue shared by three protocols; the mutex `fb_lock` and the semaphore
`update`. Two threads. Hard: SetMode against drawing, lost wake-ups, one queue for several
readers, rectangles on the edge. Correct when the thread never draws half a mode, events arrive once,
in order and at the reader they are for, and a transfer draws its rectangle and nothing else.
*Other graphics outputs* (`vnc.c`, `memory.c`) repeat its handling of modes.

**Memory** (`lib/mem.c`, `memory.c`, `tlsf.c`). State: pools with a list of blocks between a head with
a checksum and a foot; below them the heap of TLSF. Operations: allocate, reallocate, free, check,
pages, the memory map. All other components allocate there. Correct when no sound call aborts, damage
stops at its block, and the heap stays tiled by its blocks.

**Storage** (`configuration.c`, `variable.c`). State: the array of configuration tables and its
size, the list of variables, all in blocks of a pool. Operations: install, replace and remove a
table; get, set, enumerate variables. Hard: a size that is counted only when the array grows
(`configuration.c:32`), four allocations for one variable. Correct when they are the maps their
callers take them for, and no block is leaked.

**Simple file system** (`simple_file_system/`). State: open files with a reference count and their
parent, descriptors, positions, directory streams. Operations: open, close, delete, read, write, seek,
information. Hard: objects that outlive their close, roots that share an offset, short reads.

**Simple text** (`simple_text/`). State: the terminal's mode, the mode each output saved, the cursor of
each output, the escape buffer of a key being read. Hard: sequences told from ESC by a pause,
three services on one terminal. Correct when keys arrive once and in order, the terminal stays raw
and the cursor is where the next character appears.

**Lists, device paths, path names, strings, statuses** (`list.c`, `device_path.c`, `path.c`,
`char16.c`, `string.c`): operations on data, all of them on pointers into data of their callers.
**Services without state** (`dxe.c`, `time.c`, `hii/`, `unicode_collation.c`, ...). **Logger**, and the
vendored **tlsf** and **udisasm**.

## 2. Plan

The order in which the modules were written, the most important behaviour first: `Events`, `Services`,
`Protocols`, `Display`, `Images` with the reentrance and the threads; then what all of them stand on,
`Memory` and `Storage`, against the abstract map `Store`; `Files` and `Console`; `Lists` against `ListSpec`;
and last the functions without state, against reference definitions over bounded inputs. The
composition follows the calls: `Storage` EXTENDS `Memory`, which takes its list from `Links`, as `Lists` does;
`Files` takes its path names from `Paths`; `LibraryMC` holds everything that is worked on alone.

What is left, in the order it would be taken up:

1. What `library` tries on bounded inputs, where a reference definition does not need an induction of
   its own.
2. The notification functions that are dispatched under `fb_lock` (`sdl2.c:252`): `Display` composed
   with the dispatcher of `Events`.
3. The VNC output, if its server library is in the tree one day.

## 3. Modules and runs

Conventions. The C call stack is a variable `stack` wherever a program is called back: a frame
stands for a C function that waits for the function it called, and holds the locals it uses
afterwards. What the program does is nondeterministic: any service with any of the configured
arguments. A section that no other thread and no callback can see the middle of is one step.
Where the code accesses freed memory, the behaviour ends in a state that only stutters, and the
properties say nothing about it. Operators marked "Faulty variant" state plausible bugs; no
specification uses them. Deadlock is checked unless a system may really stop: a destroyed context, a
program that ended, a machine whose bound is used up.

### Events (535 lines; `events_nesting`, `events_live`)

`events`, `queue`, `tpl` and `notifies` are the fields of the context; a queue node is named by its
event, because no event is queued twice. A `run` frame is `efi_run_event_queue` waiting for a
notification function: it holds the current node, the saved next node and the interrupted level.
`group`, `install` and `wait` frames are the loops of SignalEvent, of Install and of WaitForEvent; an
`image` frame is a program that another one started. `Exit` (`tables/image.c:93`), which a notification
function may call too, jumps out of the innermost program: it cuts every frame above that program's,
and leaves the level, the queue and the signals as they are. After the outermost program, main goes on
with the next file in the same context.
`CallbackReturn` is the code after the call (`event.c:13-17`), including the way the dispatcher
goes on with the saved node.

Callers are taken to respect the rules of task priorities: no RaiseTPL below the current level and
no notification level beyond 31 (the code accepts both). Functions may return at any level unless
`Balanced`. Timers never fire, since nothing sets `ctx->timer`. Calls without a context, which only
log and return, are left out.

`events_nesting` asks for re-entrance, saved nodes and the order among equals (`NoReentry`,
`NodesAlive`, `FirstComeFirstServed`) with three events on two levels, a group, waits for pairs and a
pool that runs out. `events_live` asks for lost signals and for the end of waiting (`NoLostSignal`,
`SignalIsNotified`, `WaitForEventReturns`) with two events, groups, EXIT_BOOT_SERVICES, a registration and
functions that restore their level. Both allow Exit; the first also a program started by another, the
second only main's. Exit out of a function called by a group loop (`event.c:176-183`) leaves the members the loop
was still to queue signalled, and `event.c:168` then ignores every signal to them alone: `stranded`
records them, and the two properties say that a signal is lost in this way and in no other, and only until
another member of the group is signalled.

Three events are the current node, the saved one and one that is inserted between or behind them;
two levels allow one dispatch inside another, and the code compares levels only. *Fairness*: the
emulator's own loops go on (WF). The rest are assumptions about the program, not the code: its
main function restores the level again and again, a function that runs returns at its own level,
and a polled device becomes ready again and again (SF). Without any of these, the emulator
may legitimately wait for ever.

### Services (`services`, `services_stop`)

An instance is named by its configuration. `mode` and `pos` say which loop the manager is in and at
which instance; the statuses `conditioning` and `starting` mean that a function of the service is
being called, and its outcome is nondeterministic, except that the conditions of graphics outputs
look at the other outputs and at the display as they do in the code. `ServicesMC` holds six of the
repository's services with their real dependencies: two tables, three outputs, a root file system.
Every order of constructors is tried, so a seventh service of the kinds there are adds nothing but
another dependent leaf. *Fairness*: the loops go on and the
functions they call return (WF on the manager); `AutoStartReturns` excepts a service that is
retried and fails for ever, which nothing bounds (`service.c:140`). `services_stop` shows that the stop
loop stops the services others depend on and no other. Instances are made one by one, as
`efi_service_install_all` does, and one whose data cannot be allocated is left out and made when the
context ends; other failing allocations are left out.

### Protocols (`protocols`, `protocols_uninstall`)

Handles are numbered in the order of creation; `ifaces` holds the interfaces and open records.
Records are kept and deleted by position (`Kept`), and `Records` strings the lists of several interfaces
together as `efi_get_drivers` visits them. Frames: `call` for a program's function; one kind for each service that waits for a function or
for another service it called, whose status arrives in `ret`. A loop over an open list whose next
record is freed under it stands at `Freed`, which `NoLostWalk` excludes. `freed` marks an interface
whose `open_list` is left pointing at a freed node (~`Intact`).

Any function may start an image (`StartImage`), whose frame is a `call` of its own, and may call Exit
(`tables/image.c:93`): the frames above the innermost image's, and its own, go without the services among
them doing anything more; without an image, main goes on with its next file on the same database.
An Exit out of a notification thereby cuts the loop of Install over the registrations (`protocol.c:107-118`), and
those still to come never list the handle. `unlisted` is history, not state of the code: it holds the handles each
registration passes over, those that had the protocol before it was made and those an Exit cut off.

*What a driver is*: supported decides and changes nothing; start opens protocols of its
controller as its own agent, or fails; stop closes all it holds and succeeds, or fails and
changes nothing. With `MayGiveUp` a bus driver may stop its children and then fail: `NoLostWalk` is
then violated, a defect of `protocol.c:325` with `controller.c:264`; no text of the repository
speaks about it, so the runs have it FALSE. Once an `open_list` dangles the behaviour is undefined
and nothing is said.

`protocols`: a controller, two drivers, a child, two registrations for one protocol (`Registers`); counts
up to 1, a stack of up to 4 frames when programs call a service other than Close or Exit. Start and stop
functions and notifications may exit, and notifications start an image that installs more. Two drivers are what
ownership is about; depth 4 is a disconnection within an exclusive open within a connection. `OneOwner` (records agree
with the checks of OpenProtocol, one interface of a protocol on a handle), `RegistrationsComplete` (but for `unlisted`),
`NoLostWalk`, `ServicesReturn`. *Fairness*: services go on, and so do the images that functions start (WF);
functions of drivers return and stop functions close what the driver has (SF), the contract above. No fairness is
asked of Exit: calls end without it.
`protocols_uninstall` shows that UninstallProtocolInterface answers success and removes nothing.
The buffers results are returned in and failing allocations are left out.

### Display and Input (`display`; Input in `library`)

`program` and `update` are the program counters of the two threads and `lock` the holder of
`fb_lock`. SetMode and the drawing each take several steps and hold the lock from the first to the
last: without the lock they would overlap, and the run would see it. An input event is its position in the history `input`.
`broken` and `dangling` end the behaviour: clearing a new, smaller buffer with the old size
(`gop.c:60`), a transfer into a buffer SetMode unmapped before it failed (`gop.c:73`), the queue
after Reset (`sdl2.c:230`).

`display`: three modes, two of them of one size, mappings that fail, two user events of five kinds.
Two events are enough for any property of order. *Fairness*: SetMode goes on
(WF); the thread gets the lock if it is free again and again (SF, what a mutex gives in practice); a
program that is interested polls and reads what is signalled (SF, an assumption about the
program). `EventsArrive` excepts events behind one that no protocol takes, such as a released
key: the code never signals another device then.

`Input` says what the readers make of those events: scan codes and characters, buttons, movements
added up over several events, touches. Up to three events of ten kinds and three reads are tried
against a reference that looks at the whole history.

### Images (`images`)

`stack` is the C stack above main: `image` frames are calls of `efi_run_with`, `load` frames calls of
`add_loaded_image`, `notify` frames notification functions. `files[f].jmp` is the depth Exit jumps
to, `old` the handlers the file saved, `exit` what became of its exit data. `NotifyBegins` may
happen whenever something is on the stack and the level allows, which covers every service that
dispatches. `Exit` cuts the stack at the jump target, whatever lies above. The level stays
as it is there, as in the code.

`images`: two command lines of up to three files (a missing, a malformed and good ones), three file
objects, four frames, one level. Four frames hold an image, a function, an image it
starts and a load inside that. The properties hold with these exceptions, each a behaviour of the
code: `HandlersKept` unless an image was started while it ran, `ExitDataSafe` unless one was started
after its end, `ArgumentsRun` but for files after a malformed one. *Fairness*: only that the signal
handler goes on (WF, for `CrashEnds`); programs may run for ever.

Left out: running in a child process, which no caller asks for; failing allocations; a LoadImage
that fails, which only leaks; the fields of the loaded image protocol.

### Memory, Storage and Store (`storage`)

A pool is a record with its list of blocks, their heads, feet and checksums; its operations are
functions of it, so that `Storage`, which EXTENDS `Memory`, can do several in one call. The list is that
of `Links`, pointers and all, because a checksum covers the links. TLSF is any allocator that gives out
free memory. The program takes blocks of the same pool and may write beyond their ends (`hurt`).
The pool has nine places; with six taken an allocation fails in the middle of everything.

`NoFalseAbort`: no call aborts unless the program damaged something or the pool was full (the code
does abort then, `mem.c:164`). `DamageStops`: a block whose foot is gone is never given out again.
`TablesKept`: a table that was given is found, until one was removed. `OwnedOnce`: a block
belongs to the context, to a variable, to the tables or to the program, and to one of them;
it includes the types and the pool's accounts. `VariablesAreStored` is a **refinement**: `Storage` implements
`Store`, a map from names to values, under the mapping that reads the variable list as GetVariable does;
`Store` allows, because the code does, that a new variable is lost in silence when memory runs out.
Two variables, values, GUIDs and tables: the first, the other and a repeated one. Nothing is persistent, so
there are no restarts to model.

### Files and FileData (`files`; FileData in `library`)

`Files`: an object has a path, a parent, a count and a descriptor; descriptors are the lowest free
numbers, directory streams read all entries at once and share their offset with the duplicates of
a root. Three objects, three descriptors, three names in and beside a directory: a chain of
three objects is the longest close. `HandlesOwned` (an object counts whoever holds it, a descriptor belongs
to one object, but for the one each new file forgets), `EveryEntryListed`, `ReadOnlyVolume`.

The walk of LoadImage opens every node of a device path through the one before, which it closes
(`OpenFromDevicePath`). Its error path (`utils.c:39-45`) is in two more actions. `OpenBeyond`: behind some nodes
comes one that is no media node; the object before the last is closed a second time, and the last one stays
open without anybody who knows it (`leaked`, its descriptor in `lost`). The second close is the one the leaked
object would have made, so nothing else is taken along, which `HandlesOwned` says. `OpenNothing`: the first node
is none already, and `close` is called through a variable that was never set, which may hold any object's
address; after that the model is `astray` and the properties of objects and listings say nothing more.

`FileData`: two objects on one file or on two, with positions that descriptors share or not, reads
and writes that come up short or fail, and `efi_file_read_all`, which loops over them. `DataSound`
compares what the program was told with the contents.

### Console (`console`)

The terminal is the user's: raw or cooked, with an echo, a window that changes and a cursor that waits
at the end of a full row. `restore` is what each output saved, `cursor` what it reports, `escape` the
buffer of a key being read, `owed` the keys that were pressed and not delivered. Bytes of a key arrive one
by one, before, between and after calls of ReadKeyStroke. `window` is the terminal's size and `size` is `ws_size`, what
the code takes for it: it is asked of the standard input when the emulator starts and whenever the window changes
(`main.c:40,149-154`), and stays `DefaultSize`, 80 by 24, if that is no terminal, as in one of the two instances. A
window change sends a signal, which ends a `poll` that waits for the rest of a sequence (`Interrupted`): ReadKeyStroke
answers an error and forgets what it had read. One terminal is modelled; a stream is this one or none.

The window, the tab stops and the escape buffer are scaled
down (3 by 1 and 1 by 2, the former as `DefaultSize`; 2; 3 bytes; `TabWidth` and `EscapeSize` are 8 and 32 in the code), so that rows fill and the
buffer overflows within a few steps. `KeysInOrder` and `KeyAfterWait` except keys that the table of
sequences does not hold, cooked terminals and what a window change within a sequence loses and tears, until the
keyboard is quiet again; `StaysRaw` speaks of terminals whose input is
started first; `CursorFollows` of a window whose size is the one the code takes for it, as it always is if the
input is that terminal, of outputs that are alone since they last
set the cursor and of characters the code follows (it does not follow five, listed at `Followed`). `ConstantsFit` says
what windows, strings, keys and buffers are, for any number of them: a window has a row and a column, a key of the table
fits into the buffer.

### The library (`library`)

`LibraryMC` instantiates what is worked on alone; `case` says what a behaviour is about. Seven *machines*
are worked on step by step while the others rest:

- `Lists`: two lists of four nodes under every operation of `Links`, whose pointers are those of `list.c`. A **refinement**:
  `ListsAreSequences` says that `Lists` implements `ListSpec`, sequences of items, under the mapping that follows the
  pointers. Four nodes are the first, the last, one between and one that is moved. Symmetric.
- `Tlsf`: a heap of 26 words, with headers, free lists and bitmaps in memory as in the code, under malloc,
  realloc and free of three blocks of four sizes. `HeapSound`: blocks tile the heap, the indices find them, no two free blocks
  touch, data survive, and a request that fails found no room. Memory that belongs to nobody holds anything (`junk`).
- `Blt`: a frame buffer and a program's buffer under transfers: every rectangle on and over the edge of a screen of two by two
  with a longer scan line, each pixel another value, and one of three after it. `BltDraws`: a transfer draws its rectangle
  in the right colours and changes nothing else. Excepted are copies to a later place, which start a row too low, copies onto the row they
  come from, where `memcpy` promises nothing, and filling a screen of one column, whose single pixel gets one byte four times.
- `Firmware`: services start in every order their dependencies allow. No start function uses a table
  that is not there, sums are right, the context is complete in the end.
- `FakeRegisters`: privileged instructions of every kind, on an ordinary register and on the one past the end.
- `FileData`: see above.

Everything else is a *function*, tried on each input of a bounded set that `Init` chooses from:

- `AnswersAgree`: path names of up to five tokens against a walk over their components; pairs of device
  paths with malformed nodes against sequences of instances; strings of up to three characters,
  one of them above 0x7fff, against orders and substrings; statuses, errno and names; `Answers`, where every service without
  state says what it says, the time is an instant, and a buffer of the size told is large enough; `MemoryMap`, likewise,
  with descriptors that never reach beyond what they describe; the place of aligned blocks (`Layout`), which is proved for
  all values; and the machines `Firmware`, `FakeRegisters` and `FileData`.
- `LoaderLoads`: images of three pages with up to three sections anywhere, relocations and symbols; sections whose data
  are shorter or longer than their `virtual_size`, or whose numbers have no sum in a word; headers of
  files that end before, at and behind each of their parts. Three pages are a first, a middle and
  a last one, which is where sections share pages. What the loader does not look for (`Tame`: sums that wrap, the size
  of the headers, relocations outside) makes it work on other memory, and the outcome is `wild`. `Word` is 16 for the
  2^32 of the code, and the numbers of a section are up to 15, so that there are sums on both sides of it.

Sizes of pages, words and the descriptor's buffer are scaled down as the cfg names them (`PageSize`, `PoolWords`,
`FlLog2`, `SlLog2`); the code compares them and takes remainders, it does not depend on their values.

## 4. What is proved

All theorems hold for every value of the constants that meets the `ASSUME`s, which give types,
the finiteness of what is finite in the code, and, for `Services`, that every graphics output has
a condition (`GraphicsAssumption`), as the three have. TLC checks each of the properties first, on the
instances above.

Where the code loops over data, the modules that are proved about use recursive functions (`Kept`, `Chase`,
...). What such a function computes is proved by `SetInduction` of `Lemmas`: a set of numbers that holds 0
and the successor of each of its members holds all. The first lemma of such a proof is that the function
exists, the second what it returns. The other lemmas say what appending, removing, joining and
taking the least of a set do.

**EventsProofs.** `DispatchInvariant` is inductive: types, the order of the queue, and `StackOK`,
which says that the nodes a `run` frame holds are queued, that each frame runs above the level it
interrupted, and that this level is at least that of the frames below. A dispatch only calls
functions above the current level, hence above every level on the stack, so it can neither
re-enter one nor unlink a node another frame holds. It gives `TypeCorrect`, `QueueIsOrdered`,
`NeverReentered` and `DispatcherNodesAlive`. Neither `NoReentry` nor `NodesAlive` is inductive
alone: each needs the other and the order of levels. `InsertAtFacts` and `RemoveAtFacts`
describe the operations on lists.

`NoSignalIsLost` rests on `SignalInvariant`: a signalled event is queued, or a loop over its group on the
stack still comes to it, or it is in `stranded`, whose events are neither; Exit keeps a prefix of the stack, and the
loops it cuts were on their way to exactly what it adds to `stranded`; what such a loop stands at was created, and a wait has passed no event that
is a pure signal. That a loop comes to an event depends on the list of events, which only grows
at its end, because CloseEvent always refuses. `ServedInOrder` is an action property: each operation
on the queue keeps the order of the events that stay (`OrderKept`), and an event is put behind
those of its level.

**ServicesProofs.** `ManagerInvariant` is the conjunction of the types and

- `Calls`: only the instance the loop is at is in one of its functions; `Fresh`: before the loop none is;
- `Ran`: whatever was tried had, and still has, what it depends on, because nothing stops before the context ends;
- `Alone`: while a graphics output starts, none runs, since its condition was evaluated right before;
- `PassInv`: in a pass that started nothing so far each instance it visited is settled, which means that a
  skipped one's condition still does not hold and a stopped one still lacks something; `Ended`: so is each when the loop ends.

`DependenciesAlwaysRun`, `OneGraphicsRuns` and `NothingLeftToStart` follow. The last is the one that is not
obvious: that a whole pass started nothing does not mean nothing can start, because an instance skipped
later in that pass counts as tried for those before it, which is what the property excepts.

`FirmwareAlwaysSound`: in every order the dependencies allow, start functions find their tables,
sums are right, and a context is complete when no service is left. The invariant says that a table is
there exactly when its maker runs and that the services that run are closed under their
dependencies. `StartKeeps`, `EnterKeeps` and `SummedKeeps` hold what the actions have in common.

`HeapIsSound`: the allocator `context.c` makes its pools of, for every size of a pool, every number of classes
and every sequence of calls. The heap is a memory of words, in which headers, links and data overlay each other, so the proof
first leaves the words. `Sound` says that there are a set of blocks and a set of free ones for which the heap is
`Good`: the blocks lie one behind the other (`Tiled`), their flags and links are right (`Flagged`), the free lists and
bitmaps are theirs (`Listed`), no two free ones touch (`Sparse`); the used ones are the program's and hold its data (`Placed`).
Within a call one block is worked on: it is in no list and may touch free ones (`Open`, `Loose`). Then each function is stated for
the two sets: a split adds a block, a merge takes one away, a mark moves one from one set to the other, and all `Keeps` the
words of every other used block. Only `SplitWords`, `AbsorbIs`, `MarkFreeWords` and what writes data speak of single words. That what
is found is large enough, and that a request fails only where no block has a part of it to spare, follows from the
classes alone: `SearchLow` and `SearchHigh` bound the class of a rounded size from both sides. `BlocksAre` says that the walk from header
to header, by which `HeapSound` knows the blocks, meets these. `HeapSound`
alone is not inductive: it does not say that every block has the three words its links need while it is free, nor that the
blocks lie apart, without which a link would overlay a header.

**ProtocolsProofs.** `DatabaseInvariant` says what the database and the calls in progress rely on together. A
handle has one interface of a protocol and an interface one record of each key (`Sound`). A service
that waits finds the handle, the interface and the binding it left, since no service that succeeds
removes one (`FramesGood`). Installs in progress are for different handles, and a registration
lists who had the protocol before, whom it was told of, and nobody an Install has yet to come to
(`InstallsApart`, `Listed`). An Exit keeps a prefix of the stack, and what it adds to `unlisted` is what
the Installs it cuts had still to do. `RegistrationsAreComplete` follows without a hypothesis, for programs that
call any of the modelled services, StartImage and Exit among them, from any function; what it excepts is what an
Exit cuts off, and no more.

`OneOwnerAlways` has a hypothesis. OpenProtocol checks the owners, disconnects drivers, and makes its
record (`protocol.c:302-328`); what runs in between could open the interface exclusively. `CalmStops` says that
it does not: stop functions, and the functions run by the services those call, open nothing. The instance of
the run meets it; drivers that follow the UEFI driver model do. Under it `OwnerInv` is inductive: no interface has two
owners, none that an exclusive opener waits for is held exclusively, and all above that opener on the stack is calm.

`NoWalkIsLost` has one, too. ConnectController walks the children of an open list, and an exclusive opener its drivers; both
save the next record before they call a function (`controller.c:215-222`, `protocol.c:318-325`). A driver could free it: a
notification that disconnects, a start function that closes, a stop function that closes and then fails.
`OrderlyDrivers` names the drivers that do not: they close from their stop functions only, which succeed once they closed something;
supported functions, notifications and the images they start install and register, start functions open too, and
exclusively on no handle that is a child; all of these may start images, and these and stop functions exit. The
instance of the run meets it. The last clause excludes more than it must: a child's driver may be exclusive
if those it disconnects close nothing but records of that child; the model lets a stop function close anything its driver opened. Under it `WalkInv` is
inductive. Every record of a child names a controller of `Kids`. Either no exclusive opener is on the stack, every walk stands at a
child's record, and all above one closes no child (`Inside`: it connects a child, starts its driver, runs an image or announces an interface), the one record closed there being that of a driver's binding. Or the innermost calls are an exclusive opener, its disconnection
and the stop function, with no walk below; if its record is freed by then, the driver has closed something, so that a
success is on its way and the opener starts over (`Asking`). That its two parts exclude each other is the heart of it: a
walk need not survive an exclusive opener above it. Exit takes frames away and leaves records alone, so it breaks neither part.

The services are pieces that put frames on the stack of their caller. One lemma says what a
piece may do to records and frames (`Piece`), one that a step made of pieces keeps both invariants (`Regular`);
Install, Notify and Register, which are not such steps, have lemmas of their own.

**DisplayProofs.** `DrawsOneMode` is not inductive: that the thread which draws sees one mode says nothing
about the moment before it takes the lock. `ScreenInvariant` adds two things: a thread inside its section is the
holder of the lock (`LockHeld`), and buffer, size, configuration and texture are those of the current mode
outside of SetMode, and in its last phase those of the new mode, or of the old one if it failed
(`ScreenOf`). `DrawsWholeModes` follows for any set of modes and sizes. No fairness and no bound on
the user's input enters.

`NoEventLost` rests on `EventsInvariant`: SDL's queue and the program's both rise, all of SDL's is younger
(`QueuesRise`); what a protocol has returned rises and is older than anything left that it may still
return (`TakenRise`); no event that is queued at all is missing (`AllThere`).

`TerminalStaysRaw` is about the other console and about `Terminal`, the part of `Console` it speaks of. It
rests on `SavedRaw`: while the first service of the terminal is the input, what
every output has saved is the raw mode, since each was started after it; so the mode that Reset and
ClearScreen set is the mode there is.

The bytes of keys are spread over the buffer of the key being read, the terminal's queue and the line. `KeyInvariant` puts
them together: as long as only keys the code understands came on a raw terminal and no signal ended the wait within a
sequence, they are the sequences of the keys owed, one after the other (`OnTheWay`); what is in the buffer begins a sequence of the table and is not all of it (`KeysOwed`). The step that
matters is the end of a key: the table is prefix-free (`PrefixFree`), so what the buffer begins is the first key owed and
no other, and no byte of the next one is taken along. `KeysReadInOrder` and the action property
`KeyAnswersWait` follow, for any keys pressed in any order and a window changed at any time.

`CursorAlwaysFollows` rests on `CursorInvariant`: a cursor reported lies in a window there was or the default one; the
size the code counts with is the window's if the input is the terminal (`SizeInv`); and where it is the window's, an
output that is alone since it set the cursor (`sure`) agrees with the terminal up to the one difference there may be at
the end of a row (`Same`), which each character keeps as it wraps and scrolls (`PlaceInv`); a service
is started once and the buffer has room for a byte (`RoomInv`). The three theorems assume `ConstantsFit` and no more.

`TransfersDraw`: transfers of `Blt`, for every screen, scan line and pitch, and both orders of channels. The invariant is only
that there are two memories of pixels; the work is in one step. `Copying` says what the memory is after each row:
cells no row comes to stay (`RowsKept`), and what has come stays if the rows are apart (`RowsCopied`), which they are
because no row is longer than the pitch (`PitchApart`). A copy within the screen reads what it has
written before only where a destination is later than its source, or on its row. `PlacesApart` leads from places of memory back to columns
and rows, and `ToVideoIs` and `ToPixelIs` say that shifts and masks move each channel to its place.

**ImagesProofs.** `StackInvariant` is the conjunction of `TypeOK`, `RunStack`, `ContextHeld` and

- `MainOK`: main is between two files only while the stack is empty;
- `RunningOK`: running images are objects that were made and started, so a new object is none;
- `FramesOK`: the outermost frame restores the NULL context and every other the context, a
  function is never outermost, and the levels that functions restore are levels.

The step that matters is the end of an image. `TopIsInnermost` and `LeaveFacts` show that the
image is the last of the run stack, and is there once, because jump targets grow along it; so
`efi_running_pop`, which takes the first occurrence, takes the last element (`RemoveLast`), and
cutting the C stack at its target takes along no frame of an image that stays. Consequences:
`TypeCorrect`, `RunStackAgrees`, `ContextRestored` and both of these together, `RunsAlwaysHeld`. On top of it three more inductive invariants:

- `HandlersOK`: the first running image saved the default handlers, all others those of the
  emulator; it gives `HandlersBalanced`;
- `ExitOK`: an image that has not ended holds no exit data; it gives `ExitDataFreedOnce`;
- `ArgumentsOK`: what is known of the files main is done with, and that the object it kept has data
  only after a malformed one; it gives `ProgramsRun`.

Two theorems are about `Headers` and `FakeRegisters`. `HeadersAlwaysSound` takes any file: `BytesInside` turns
what is read into the comparisons the parser makes. `RegistersAlwaysKept` takes any instructions: what was asked for is
what the context has, or would make with the first instruction (`RegistersInv`).

The last part proves the **refinement** of `ListSpec` by `Lists`, `ListsImplementSequences`, step by step, for any nodes, any
number of lists and any ranks. A list is a *chain* (`IsChain`): a sequence of nodes, each once, linked in its order both ways.
`ListsInvariant` says that what each list** leads to is a chain, which holds the node the list** holds; that no node is in two
chains, or in one and replaced; and that a node in neither has no links, which is why a new node can be added without
taking others along. For each operation one lemma says which chain it makes of a chain (`Turned`), and one that this is
what `ListSpec` asks for. The sorter compares nothing it has swapped again in the same pass, so a pass may leave the list out of
order, and as many passes as nodes are not always enough. The proof counts the pairs that are in the wrong order (`Disorder`): a pass
that swaps leaves fewer (`SwapHelps`, `SortPassDoes`), and one that swaps nothing has found every pair of neighbours in
order (`LastPass`), so `list_sort` ends with a list in order that holds the same nodes. `ListsAgreeBothWays` follows from the
invariant: what is reached by `next` is reached by `prev`.

**StorageProofs.** The proof goes up from pointers to maps.

- Lists: `IsChain` says that the pointers of `Links` hold the nodes of a sequence in order; what adding,
  deleting and replacing a node does to the chain are lemmas, and so is that a walk meets its nodes and no other.
- The pool (`PoolOK`): its blocks are a chain (`Chained`); places without one are cleared and each block has
  its mark (`Marked`); those nobody wrote beyond have their foot and the checksum of their head, links
  included (`Undamaged`); the accounts are the sums over the blocks, but for the bytes in use once a damaged head was
  read (`Counted`). Each operation of a pool keeps this and does not abort, unless a block it touches is damaged or
  no place is free.
- Owners (`Apart`, `ListKept`): the blocks of the context, the program, the tables and each variable are apart; a
  variable has four blocks of its own, and no two variables have one key.
- Tables (`TablesInv`): entries up to `entries` are the tables installed last, and all of them before the
  first removal.

`StorageInvariant` is their conjunction. It gives `NoCallAborts`, `TablesAreKept`, `BlocksOwnedOnce` and, with the lemmas on
pools, the action property `DamagedBlocksStay`. `VariablesRefineStore` is the **refinement**, step by step: the initial
state is the empty map, GetVariable reads the map, and every step of `StorageSpec` is a step of `Store` or leaves
the map alone, for any number of variables, any pool and any failure in the middle of an update.
`AlignedBlocksFit`: for every alignment, size and place, head, block and foot lie in the memory
`mem_aligned_allocate` takes for them (`Layout`).

**FilesProofs.** `FilesInvariant` speaks of the middle of a close, too: an object counts the objects opened through it, the
program if that holds it, and the close that has come to it (`Counts`); descriptors belong to one object
each, but for the forgotten ones, those of leaked objects among them (`Descriptors`); what a directory must still give is in its buffer, or not
read (`Lists`). A close goes from an object to its parent; every step before the last frees an object, so as many
steps as there are objects are enough, whatever the depth. `HandlesAreOwned`, `ListingsComplete` and the action property
`ReadOnlyVolumesStay` follow, for any tree, the first two until the model is `astray`. In `OpenBeyond` nobody holds the
object that is forgotten, and the second close of the one it was opened through is the close it would have made itself.

`ContentsAlwaysSound` is about `FileData`, for any sizes. What `efi_file_read_all` has read is the start of the file up to the
position of its descriptor (`ReaderOK`), which holds because nobody else runs in its loop and it starts at 0.

**Only model-checked.** All liveness (`SignalIsNotified`, `WaitForEventReturns`, `AutoStartReturns`,
`ServicesReturn`, `ScreenFollows`, `EventsArrive`, `CrashEnds`), which needs fairness and ENABLED and is
beyond the prover. And the functions of `library` whose references
are recursive (`AnswersAgree` but for its machines and `BlocksFit`, and `LoaderLoads` but for `Headers`): what a recursive operator computes for
every input needs an induction over an operator, which the installed provers cannot do.

## 5. What the runs found

Runs marked "violation" state a sentence of the repository that the code does not keep:

| run | the repository says | the code does |
|---|---|---|
| `services_stop` | "stopping all service" (`service.c:305`) | the test is inverted (`service.c:210`) |
| `protocols_uninstall` | UninstallProtocolInterface is in neither list of what is missing (`README.md:41-61`) | it deletes from the wrong list and answers success (`protocol.c:230`) |

More of the same kind, read in the code while it was modelled and part of the models where they matter:

- SetTimer, CheckEvent and CloseEvent test the context the wrong way round and always answer EFI_NOT_READY
  (`event.c:242,267,289`); the README does not list them as unimplemented.
- The memory graphics output waits for VNC to be tried, which is disabled, and never starts
  (`graphics_output/memory.c:151`); it would use a NULL mode if it did (line 103).
- A crash in an image that another image started announces a core dump and ends by `_exit` without one
  (`crash.c:173,176`): the handlers that image saved are the emulator's own.
- UnicodeCollation is listed as implemented; all its functions are stubs, and its two instances are
  installed for each other's language codes.
- main's `-r`: the handle of a root is uninitialised and never reset, so that a second root is put on the
  first one's handle and refused.

Exceptions the properties make, and defects next to what is modelled, by component:

- *Events*: without room for the queue node an event stays signalled and unqueued (`event.c:23`), and so do the members of a group
  an Exit keeps SignalEvent from queueing (`event.c:176-183`).
- *Services*: an instance whose data cannot be allocated is left out and added when the context ends (`service.c:253`).
- *Protocols*: a failed stop leaves an open record of the driver's binding behind (`controller.c:264,267`); a failing
  InstallMultiple uninstalls interfaces the handle had before (`protocol.c:164`); an Exit out of a notification during
  Install leaves the registrations still to come without the handle (`protocol.c:107-118`).
- *Display*: Reset leaves `event_queue` pointing at freed nodes (`sdl2.c:230`), shared by both threads; SetMode clears beyond a smaller
  buffer (`gop.c:60`), keeps an unmapped one when it fails (`gop.c:73`) and loses the configuration when the mode is
  the same (`gop.c:77`). Keys without a special case give the low 16 bits of SDL's number (CapsLock types `9`), letters ignore
  modifiers, a finger that is lifted sets touch-active and one that is put down clears it.
- *VNC*: `set_mode` leaves the server at the unmapped buffer; marks are too small when the source offset is not 0.
- *Memory*: AllocatePool answers success with NULL (`memory.c:146`); an allocation that cannot grow aborts (`mem.c:164`); of a segment
  that starts inside a page the memory map tells up to a page too little (`memory.c:110`).
- *Storage*: a table installed after a removal is written behind the entries and never found; a variable may be lost in silence.
- *Files*: on a device path that goes on behind its file LoadImage closes a parent twice and leaks the open child, and on one
  that ends at the volume it calls through a pointer it never set (`utils.c:39-45`); media nodes that are no file path are
  taken for names (`utils.c:40-41` compares the type twice); a created directory's 0 is taken for its descriptor; each created file leaks a descriptor; write answers unsupported after
  writing; Delete on a read-only volume or a root does not close; roots share an offset; `efi_file_read_all` writes a byte behind
  its buffer and loops for ever over a file that shrinks.
- *Console*: a window change within a key's sequence loses the key and makes other keys of its rest (`posix-fd.c:158-163`), and
  one in the middle of a `poll` that does not wait answers an error for NotReady; the size of the window is the standard
  input's, so that outputs wrap at 80 columns if that is redirected (`main.c:41`); outputs started before the input bring back the cooked mode; late polling merges ESC with later keys; a partial write is
  repeated from its start; bright foregrounds fall to grey (a signed 4-bit field).
- *Transfers*: a copy to a later row starts one row too low and writes one row below (`fb.c:232`).
- *Loader*: the bounds of sections are compared as 32-bit sums that wrap (`loader.c:73,75`), the size of the headers
  (`loader.c:56`) and the places of relocations are not looked at; pages of zeros (`.bss`, a `virtual_size` beyond the data)
  are left without access (`loader.c:218-236`; the repository's `README.md:81` says that memory protection does not seem to
  work properly), and an address behind the data belongs to no section; an entry equal to the end of a section counts as inside the next one's bounds; a section that ends within a shared
  page, or the third on a page, does not count for its protection; an empty section at an odd address changes its page.
- *Lists, paths, strings*: `list_insert` of several nodes between two swaps their ends; `get_path` takes every media node for a file; path names of blanks only
  run below their start; comparison is signed, so characters from 0x8000 sort first; statuses such as no_media do not survive their way through errno.
- *TLSF*: a pool of exactly the largest block size has a class beyond the array; the program's pools are smaller.
- *aarch64 emulation*: register 31 is read behind the array, where the stack pointer is; DAIF is kept in bits 0 to 3.

## 6. What is not modelled, and why

- The *VNC output*: its server is a library with threads that is not part of the repository. Which output
  starts is part of `Services`.
- *Instruction bits* (`fake_ins_aarch64.c` recognises them) and the *disassembler*: tables of constants, third-party the latter.
- *Names*: the tables of GUIDs, statuses and signals for the log; the logger; what `print.c` and the crash
  report print. Their output is no state of the system.
- *Conversions*: iconv between encodings, device paths to text, the checksum's polynomial. That checksums
  are renewed at the right time is part of `Memory` and `Firmware`.
- *Timers*: nothing sets `ctx->timer`, so none fires.
- *Crash and restart of the emulator*: it keeps nothing on disk but the files of its volumes, which the host keeps.
- *Failing allocations* outside of `Memory`, `Storage`, the queue nodes of `Events` and the mappings of `Display`.
- *Concurrent use of one pool* by the two threads of the console: the pool takes no lock, a data race
  whose outcomes are any; each thread's list operations are atomic here.
