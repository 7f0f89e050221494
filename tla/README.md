# Zeebulator in TLA+

Zeebulator runs the games of the Zeebo console (BREW 4.0.2, ARM) on a PC: an ARM
interpreter (or a JIT) executes the game's module, and every BREW interface the
game calls is implemented in C++ ("HLE"). The modules here model first the parts of it
whose correctness depends on order: who may use the one CPU context, what happens
to timers, threads, signals and notifications when a callback sleeps in the
middle, what an object's release or a loaded save state leaves behind, and how the
control channel's thread and the main loop hand requests to each other. Around that
core lies the platform the guest sees, module by module: the CPU and its memory,
the helpers, the shell, files, streams, databases, graphics, widgets, pad, images.

All line numbers are those of the repository at the commit modelled. `GP` is
`src/tools/game_probe.cpp`, which holds the emulator's main loop.

## 1. The system

| part | state | operations | talks to |
|---|---|---|---|
| Main loop (`GP`, 5901-7415) | `callback_continuation_active`, `dbg_paused`, `running`, the CPU's registers, the expired timers of a burst, the taken threads | one iteration: control, keys, HID signals, pause gate, media, timer preemption, continuation, notifications, threads, timers, widgets | calls guest code through `CallArmFunctionChecked` (may yield) or `HleRuntime::CallArmFunction` (may not); guest code calls back into every HLE part |
| Shell timers (`ishell.cpp`) | `timers_` | SetTimer, CancelTimer, Resume, Tick | ticked by the loop; called by the guest |
| Threads (`thread_hle.cpp`) | `threads_`, `pending_threads_`, resume callbacks | Create, Start, Suspend, GetResumeCBK, Resume, Exit, Release | `run_pending_threads_fn` runs slices; Suspend asks `ModRuntime` for a yield |
| Module runtime (`mod_runtime.cpp`) | `yield_requested_`, uptime, allocator | sleep, malloc, string and time helpers | polled by `should_yield` |
| HID (`hid_hle.cpp`, `GP`) | `hid_signals`, `pending_hid_signals`, button states | register, inject, Set, Detach | queue drained by the loop |
| Media (`media_hle.cpp`) | objects, free addresses, generations, queued notifications | IMedia's methods, Tick, Serialize, Deserialize | the mixer; Tick calls the guest |
| Mixer (`mixer.cpp`) | voices | Play, Stop, Pause, Mix, Serialize | mixed by the loop |
| Save states (`save_state.cpp`, `GP`) | a file | F1, F2, `--load-state` | memory, CPU, texture log, mixer, media |
| Control server (`control_server.h`) | queue of requests, `running_`, promises | Start, Drain, Stop, one connection | a thread of its own; the loop drains it |
| Mirror server (`mirror_server.h`) | mailbox of one frame, clients | submit, encode, Stop | two threads |
| Debug hooks (`debug_hooks.*`) | breakpoints, watchpoints, the hit | OnExec, OnRead, OnWrite | the CPU core; the pause gate |
| GUI session (`emulator_session.cpp`) | child pid, state, times | Start, TogglePause, Stop, Poll | a child process |
| Shell (`ishell.cpp`) | classes, factories, preferences, `delivering_event_` | CreateInstance, SendEvent, resources | every HLE object |
| Extensions (`extension_module.cpp`) | catalogue, loaded modules, `next_base_` | Load, CreateInstance | calls AEEMod_Load of the guest; called by the shell |
| Files (`file_hle.cpp`, `virtual_filesystem.cpp`) | open files, overlay of written files, `dirty_` | IFile, IFileMgr | userdata file, flushed by the loop |
| Streams (`mem_astream_hle.cpp`, `unzip_stream_hle.cpp`) | streams, pending notices | Readable, Cancel, Read, Tick | Tick calls the guest |
| Databases (`sql_hle.cpp`) | managers, databases, handles, scratch buffer | Exec and its callback per row | the guest, inside Exec |
| Memory and hooks (`memory.cpp`, `debug_hooks.*`) | pages, break- and watchpoints | reads, writes, images | every part |
| CPU (`arm_interpreter.cpp`, `dynarmic_arm_core.cpp`) | registers, flags; translated blocks | Step, Run, NotifyCodeChanged | memory; `HleRuntime::Dispatch` |
| HLE calls (`hle_runtime.cpp`, `call_stack_tracer.*`) | handlers, the tracer's stack | Register, Dispatch, CallArmFunction | every HLE part |
| Helpers and heap (`mod_runtime.cpp`, `heap_hle.cpp`) | cursor, block sizes, uptime | strings, sort, formats, UTF-8, time, malloc | memory |
| Display (`idisplay.cpp`, `bitmap_hle.cpp`) | clip, screen, destination, DIBs, references | drawing, BitBlt, Update | the backend's window |
| OpenGL ES, EGL (`gl_hle.cpp`, `soft_gl_backend.cpp`) | arrays, surfaces, matrix stacks, depth | some hundred calls in two tables | driver or software rasteriser |
| Texture log, presenter (`gl_texture_log.*`, `sdl2_unified_backend.cpp`) | the log; the GL context shared with the guest | record, compact, replay; the quad of the 2D screen | save states; the driver |
| Widgets, sources, images (`GP`) | widgets, handlers, vectors, resource images | the lambdas of main() | memory; the loop draws |
| Loaders, synthesiser, glue | - | - | see section 9 |

The hard behaviours: one CPU context shared by callbacks that may stop in the
middle; batches (expired timers, taken threads, taken notifications, drained
requests) whose members are changed by the members before them; one-shot timers
that exist only in a local vector; object addresses that are used again; voice ids
and generations that decide whether a notification is still meant for the object at
that address; a save state that restores part of the state; a promise between two
threads with a timeout. `PROJECT.json` lists each at its line under "hazards".

What makes each part correct:

- loop: a sleeping callback is resumed and nothing else is; each sleep belongs to
  the call that made it; a due timer is called; timers, threads and signals are
  served; the loop ends.
- timers: one timer per identity, however its `AEECallback` is rewritten.
- threads: one slice per wake-up, none after the end, none lost.
- media: no voice without object, no address given out twice, a notification once,
  to the right incarnation, in order, and not lost.
- save states: objects and voices belong together; handles stay valid; nothing
  queued before a load reaches an object loaded by it.
- control: every promise set at most once, nobody forgotten, order kept, Stop returns.
- mirror: the newest frame is shown; its threads end.
- GUI session: no emulator left behind; the state shown is the process's.
- platform: what the host writes stays in the buffer, block or table it was meant
  for; what is computed is what a reference says; sorts, waits, lines read and frames of
  images come out as asked;
  what the guest wrote, drew or asked for comes back; answers name the object asked.

## 2. Modules

| module | models | extends or uses |
|---|---|---|
| `Vectors` | filtering a vector, pushing once | - |
| `ShellTimers` | `IShellHle`'s timers | `Vectors` |
| `ThreadHle` | `ThreadHle` | `Vectors` |
| `EventLoop` | the main loop composed with both, guest code arbitrary | `ShellTimers`, `ThreadHle` |
| `CoopThreads` | abstract: what the thread scheduler promises | implemented by `EventLoop` |
| `MediaHle` | `MediaHle` and `Mixer` | `Vectors` |
| `PlayNotices` | abstract: what notifications promise | implemented by `MediaHle` |
| `MediaSaves` | F1, F2, `--load-state`, restarts over `MediaHle` | `MediaHle` |
| `ControlServer` | controller, server thread, main loop's end of it | - |
| `MirrorServer` | the mirror's encoder, server and Stop | - |
| `EmulatorSession` | the GUI's child processes | - |
| `Streams` | memory and unzip streams with deferred notices | - |
| `MCHost` | the last four in one behaviour for TLC | `ControlServer`; instances of the others |
| `ArmInterpreter`, `DynarmicCore`, `GuestMemory`, `HleCalls` | the CPU, the JIT's cache, memory with hooks, calls and their trace | - |
| `ModRuntime`, `BaseHelpers`, `GuestHeap`, `GuestClock`, `SortArray`, `TextFormat`, `TextCodec` | the table of helpers and the applet's context; strings; allocator; time; qsort; printf; UTF-8 | - |
| `ShellServices`, `ExtensionModule`, `FileHle`, `SqlHle`, `HidDevice` | the shell's services and the objects behind it | - |
| `Display`, `GlDispatch`, `GlArrays`, `EglSurfaces`, `SoftGl`, `GlTextureLog`, `GlPresenter` | drawing | - |
| `ObjectLayout`, `Widgets`, `GuestServices`, `ResImages` | what main() builds for the guest | - |
| `PlatformParts` | instances of thirteen of these, and of `ShellTimers` with its structs, with the lemmas about them | `Vectors_proofs` |
| `MCPlatform` | the whole platform: `PlatformParts`, instances of the other parts, and the theorems about all of them | `PlatformParts` |
| `Vectors_proofs` | lemmas on vectors: the operators of `Vectors`, least elements, counterexamples | `Vectors` |
| `EventLoop_proofs`, `Media_proofs`, `Host_proofs` | the theorems of the loop with its timers and threads, of `MediaSaves`, of `MCHost` | those, `Vectors_proofs` |

### EventLoop

`phase` is the place in `main` between two statements that matter; `run` is the
guest call in progress and whose activity it is; `cpu` is the unfinished activity
whose registers the CPU holds, `Idle` when there is none; `saved` is what the loop
has put aside (the local arrays `saved_regs`); `cont` is the continuation flag;
`yieldReq` is `yield_requested_`; `due` and `slices` are the local vectors of
expired timers and taken threads. The actions follow the file:

- boot (5901-5978): EVT_APP_START, a pass over the threads, the Z-Wheel handlers,
  then at most `MaxDrainTicks` ticks with thread slices and timer calls;
- `Control`, `HostKey`, `HidEdge`, `NoKey`; `BeginSignal`, `EndSignal`, `DropSignal`;
- `Gate`; `MediaTick`; `PreemptTimers` (`ZEEB_TIMER_PREEMPT`); `Resume`; `Inject`;
- `TakeThreads`, `BeginSlice`, `EndSlice`, `SkipSlice`, `EndPass`
  (`run_pending_threads_fn`);
- `TimerTick`, `BeginTimer`, `EndTimer`; `WidgetDraw`; `Again`, `Stop`.

A guest call is entered by `Enter`, left by `Leave`, and in between the guest makes
up to `MaxCalls` HLE calls of its choice (`Guest`). `CallArmFunctionChecked` tests
`should_yield` after every step, so a call in which somebody asked for a yield ends
at once with outcome "yield", unless the loop passed no `should_yield`: then the
request stays behind, which is why the next call consumes it first. The other
outcomes are "return", "wander" (left the module or out of steps) and "throw".

Handlers called one after another in one place (several widgets, the boot handlers,
the notifications of one media tick) are one guest call: no code of the loop that
looks at the modelled state runs in between. Breakpoints are armed by control
commands, which are served only once the control server has started (GP 6152), after
boot: a guest call of the boot cannot hit one (`GuestHit`). An exception out of a call
without handler ends the process and is not modelled, nor are the debugger's own
writes.

Assumed of the guest: it suspends and exits only the thread it runs on; it does not
release the last reference to the thread it runs on (the loop keeps a pointer into
the map across the slice, so the code has undefined behaviour there); it does not
use a released object. Title-specific patches, forms, and everything that only
draws or logs are left out. One unit of time is one tick of 16 ms.

### ShellTimers and ThreadHle

`timers` is `timers_`, a sequence of records; `aee` is what the guest's
`AEECallback` structs hold, which the code reads again at each call, so a struct
may be rewritten between arming and cancelling (`WriteStruct`). `TickTimers` ages
all timers and moves the expired ones to the burst in the vector's order. `refs`,
`created`, `started`, `suspended`, `finished`, `pending`, `cbks` are the fields of
`ThreadState` and of the class. A thread address is never used again, as in the
code. A callback of a burst that cancels a timer of the same burst finds nothing in
`timers_`, and the cancelled timer is called, in the model too: what the console
does there is stated nowhere, so no property speaks of it.

### MediaHle, MediaSaves

`media` is `media_by_object_`, a function whose domain is the live objects;
`free`, `nextObject`, `nextGen`, `queue`, `voices`, `nextVoice` are the fields of
the two classes. `phase`, `batch`, `inCallback` are where `Tick` is; while a
notification's callback runs the guest may call every method, so objects come and
go under the loop over the batch. `held` is the guest's own count of references
(its memory), which F2 restores. `told` and `owners` are history, for the
refinement only. A playing voice may reach its end in any `Mix`; several may end in
one. Clips have samples: a clip without any is skipped by `Mix` before the test for
its end (`mixer.cpp:87`), and its voice plays for ever.

### ControlServer, MirrorServer, EmulatorSession, Streams (`MCHost`)

`ControlServer`: `server` and `main` are the program counters of the two threads,
`wire` and `buf` the lines in the socket and in the receive buffer, `req` the
request `Dispatch` waits for, `step` and `ticksLeft` the pending step. `WaitEnds` is
always possible: it is the promise being set or the 30 s having passed. The 30 s
are not tied to the loop's progress because nothing in the code ties them.

`MirrorServer`: `box` is the one raw frame (`PublishFrame` overwrites it), `encoder`
where its thread is between the test of the predicate and the wait, `server`,
`client` the accepting thread and what it serves, `stop` where Stop is. A client
that stays silent blocks `recv` (`mirror_server.h:263`) and Stop's join of that
thread with it; the properties ask nothing then.

`EmulatorSession`: `children` are processes as the kernel sees them (running,
stopped, zombie, gone), `asked` the signals sent to each, `pid`, `state` the
session's own fields, `stopping` where Stop is in its two waits.

`Streams`: the queue of notices, the batch a Tick has taken, and the notice whose
callback runs; a callback may ask, cancel or release. `Cancel` reaches the queue
only: a notice whose batch has begun is called although cancelled.

`MCHost` is one machine for TLC: `subject` is chosen in the initial state and never
changes, so every behaviour is a behaviour of one of the four modules and the
others stand still.

### The platform (`MCPlatform`)

Twenty-seven modules, and the shell's timers once more, each a machine with variables,
Init, one action per operation and its own properties; a behaviour of `MCPlatform` is
of the one that `subject` names. The variables `v1`, `v2`, ... stand for those of
whichever part runs. The constants of the parts that are proved about are constants of
`PlatformParts` and `MCPlatform`, which `platform.cfg` gives values and of which the
proofs know only `PlatformAssumption`; the other parts have small literals in their
`INSTANCE ... WITH`. `PlatformParts` is instances and proofs apart from the variables;
the definitions that model code are in the parts' own modules, each of which ends with
the inductive invariant and the bounds its lemmas speak of. The lemmas of
`GuestMemory` and `FileHle` are at the end of these modules. What to know of single
modules:

- `ArmInterpreter`: every instruction class on registers of 8 bits, a byte being 2
  bits: shifts by the width, carries and overflows are then reached by a handful of
  sample values. The bits of an instruction are left out: it is a record of its
  decoded fields, and the programs are what compilers make of wide arithmetic,
  comparisons, frames on the stack and calls between the two instruction sets.
- `DynarmicCore`: blocks of translated code over cells and pages, single steps, host
  writes with and without `NotifyCodeChanged`, budgets. The guest stores only inside a
  block or a step, where the JIT puts the drop off until `jit_->Run` returns: the rest
  of the running block, and blocks entered before it returns, may still be what memory
  held before. `jit_->Run` returns for its ticks, for the call-out range (whose
  faulting fetch it counts), early when a drop waits, or having run nothing, when Run
  steps once instead (377-384); and an instruction it does not know throws (358).
- `GuestMemory`: pages, accesses of each width within and across pages, load of
  images, watch- and breakpoints. A watched range that reaches the end of the address
  space wraps in the 32-bit test (`debug_hooks.h:185`) and is excused.
- `HleCalls`: the tracer's shadow stack is popped by the return of any guest function
  the host called, and keeps its frames when one throws.
- `ModRuntime`: the table of helpers as `Install` fills it (slot 0x20 formats a single
  integer, 0x13c the general form), and the applet's context.
- `BaseHelpers`, `TextFormat`, `TextCodec`, `SortArray`, `GuestClock`: each call is
  compared with a reference definition. A negative number padded with spaces comes
  out as "-  2" from the guest's sprintf and snprintf, and vsprintf writes the zeros of
  its padding before the sign: `FormatsWell` names both and shows that every other
  padded number reads back as itself.
- `GuestHeap`: the bump cursor and the sizes; `Free` gives nothing back, `Realloc`
  always moves; the cursor is not in a save state (`save_state.h` 10-22), so F2 leaves
  it above every block of the loaded memory.
- `ShellServices`: deliveries nest, throw and are refused; caches of resources by
  caller's buffer. After a throw `delivering_event_` stays set.
- `ExtensionModule`: the catalogue, loading once, nested loads. `next_base_` advances
  after `AEEMod_Load` returns, so a load inside a load lands on the same base.
- `SqlHle`: rows laid out in one scratch buffer; a nested `Exec` that has a row
  overwrites the outer one, also when its row does not fit, since the columns before
  the one that does not are written (333-361); a `Release` in a callback leaves the
  handle open.
- `FileHle`: names are normalised as the code does it, files come from the package,
  from loose files or from the overlay; `Flush` begins, may be killed half-way
  (`torn`), and ends; `Restart` reads what is there. A `Seek` that extends a file, and
  an open that makes a copy, set no flag: `WritesSurvive` promises what `Write` wrote.
- `Display`: bitmaps as reference counts and pixels as sets; the ring of compatible
  bitmaps may reuse the pixels of one still held, the player never gives
  `CreateDIBitmap` an arena, `DrawRect` and `DrawText` ignore clip and destination.
- `GlDispatch`: one record per slot of both tables with where each argument comes
  from; `GlArrays`: pointers, strides, uploads as byte ranges; `EglSurfaces`: pbuffers
  in their region, the counter that decides whether a copy is skipped, which draws,
  uploads and swaps move and a clear does not (`gl_hle.cpp` 715-718): `settled` says
  when the promise holds nevertheless; `SoftGl`: depth test, clears of what the mask
  names, matrix stacks, strips and fans.
- `GlTextureLog`: record, compact, write, replay over a booted context. Three kinds of
  call leave the log behind the driver, and `lost` names the fields of the textures
  concerned until they are written in full again: `TexSubImage2D` is not recorded
  (`gl_texture_log.cpp` 33-35), a large image is recorded without its pixels (47-54),
  and after a compaction the log does not know which texture is bound (`unbound`), so
  that a write goes to another one on replay. `ActiveTexture` is not in the log and
  not in the model.
- `GlPresenter`: every GL call of the quad, the overlay and the captures, over drivers
  with and without framebuffer objects and texture units, a pbuffer the driver finds
  incomplete included. The texture binding does
  change under the guest; what is promised is the buffer and the unit.
- `ObjectLayout`: every address `main()` gives a class, in order, and those the title's
  calls take later. The fonts' tables (`GP` 3303) overlap one another and two classes;
  `TablesKept` names these pages (`Disputed`) and shows that there are no others.
- `Widgets`: `SetHandler`'s exchange of blocks, children, properties. The title may
  pass any block again, as it is (the exchange is then a swap) or filled anew
  (`FillBlock`), and store any value in an item (selector 0x801, `GP` 2687-2691), so
  that two items may hold one child: the properties excuse exactly what it filled or
  stored itself. A handler that is replaced and installed again is in
  `registered_widget_handlers` twice and is offered an unconsumed key twice (6678),
  which no property excludes. A position is kept per parent and child (2808), and
  where a child has several parents the drawing loop takes that of the smallest
  address (7146-7152); `GuestServices`: the vector object and the line source, which
  share one `active_source` as in the code.
- `HidDevice`: the player's pad; `HidHle::GetNextConnectEvent`, which the tests use,
  answers differently and is not the one modelled.
- `ResImages`: the frames of a GIF on a canvas, numbered images that are never given
  back, the fallback after the 127th (bound `Room`).

## 3. Runs

| run | question | bounds | states |
|---|---|---|---|
| `event_loop` | do flag and CPU agree, is each sleep its own, is each due timer called, once per identity? | 2 timers, delays 0-1, 1 thread, 1 signal, 1 HLE call per guest call, 1 drain tick, preemption on, breakpoints | 2.6 M |
| `threads` | is no thread lost, one slice per wake-up? (refines `CoopThreads`) | 2 threads, 2 references, classic keys | 1.1 M |
| `event_loop_live` | are timers, threads, signals served; does the loop end? | 1 timer, 1 thread, 1 signal, preemption on, classic keys | 0.23 M |
| `continuation_exclusive` | violation: the second timer of a burst runs over a sleeper | 2 timers | - |
| `pause_stops_guest` | violation: paused, the guest still runs | 1 thread | - |
| `media` | ghosts, addresses, notices (refines `PlayNotices`) and their arrival | 2 objects, 3 voices, 2 incarnations, 2 registrations | 0.15 M |
| `media_done_notice` | violation: GetState swallows the notice | 1 object, 1 voice | - |
| `media_saves` | objects and voices across load and restart | 1 object, 1 voice, 2 incarnations, 2 references | 1.1 M |
| `handles_survive` | violation: F2 after a Release | 1 object | - |
| `host` | control requests, waiters, order, Stop; newest frame; child processes; streams' notices; all served | 2 requests, 2 lines, 2 ticks; 2 frames, 1 client; 2 children; 2 streams, 2 notices | 0.19 M |
| `mirror_stop` | violation: Stop's wake-up is lost | 1 frame, 1 client | - |
| `platform` | section 2's platform: buffers, results, services, code, files, answers, drawing | `platform.cfg`, and the literals in `MCPlatform` | 1.5 M |

Why the bounds are enough for what is asked: two timers make a burst with a second
member, which is all the burst's hazards need; a signal and a thread besides make
every handover of the CPU between different kinds of calls happen; two threads let one
thread of a batch change the other; two incarnations at one address, and two
objects ending in one `Mix`, are what generations and the batch are for; two
requests make a step, its timeout and a second step; two frames make one overwritten
and one encoded late; two children make a second start; two notices make one queued
by the callback of the other. One HLE call per guest call is enough where several
actions of the guest can be spread over several calls; the violation runs take two,
to arm two timers at once.
In the platform, lengths are one more than the capacity they meet, numbers straddle
the width they are cut to, pages, blocks and rings come in twos, and sequences of
calls are as long as the shortest that reaches a second use of what the first left
(`MaxCalls`, `MaxOps`). The instances run side by side, so the states are a sum.
`MaxCalls`, `MaxQueue`, `MaxRefs`, `MaxDelay`, `MaxObjects`, `MaxVoices`,
`MaxGenerations`, `MaxRequests`, `MaxLines`, `MaxTicks`, `MaxFrames`, `MaxClients`,
`MaxChildren`, `MaxNotices` are bounds on the environment; `MaxDrainTicks` is the
code's `kMaxDrainTicks` (8 there, 1 here; the proofs are for any value). No symmetry
is used. Deadlock is checked but in `platform` and `mirror_stop`, whose parts end at
their bounds; in `host` only the control server is asked not to stop short.

Switches: `HostKeys` lets classic keys (those without HID mapping) reach
`HandleEvent`; such a handler destroys a sleeping callback's registers, so
`ContinuationMatchesContext` and `YieldIsOwn` are checked with it off and proved
for `~HostKeys`. `GuestSets` lets the guest call `ISignal::Set` itself; a callback
that sets its own signal makes the loop over the queue endless, in the code as in
the model, so `SignalsServed` is checked with it off. `Preempt` is on in the live
run because without it `TimersServed` is false, which is what the comment at GP
6829-6840 says the switch was added for.

## 4. Fairness

`FairLoopSpec` assumes `WF(Loop)`: one thread that never blocks, and guest calls
that end because `CallArmFunctionChecked` bounds their steps; and `SF(NoKey)`: the
keys that wait at a poll run out, since a user types slower than the loop polls.
Nothing is assumed of the guest. `FairMediaSpec` assumes `WF(Tick)`: the loop calls
`Tick` in every iteration in which no callback sleeps, and callbacks return.
`FairHostSpec` assumes weak fairness of the threads and loops of each part: the
control server's thread and the loop that drains it; the mirror's encoder, its server
thread and a Stop that has begun; the window's frames, which poll the child, and a
Stop's two waits, which have time limits; the loop's Tick of the streams; and that a
child that was sent SIGKILL dies. Nothing of the controller or of a client, which
may stay connected and silent, nor of the guest. It is written as weak fairness of
disjunctions over the parts; since `subject` never changes, only one disjunct is
ever enabled, and this is the fairness of each part.
`MirrorSpec` assumes weak fairness of the encoder, the server and Stop.

## 5. Findings

Five comments of the repository say more than the code does; each has a run whose
counterexample shows it, and an entry in `PROJECT.json`:

1. GP 6232-6234 "no other guest callback may run" while a continuation is active:
   the burst at 7028-7069 goes on after a callback that slept.
2. GP 6792-6793 "stops the guest from advancing": threads, media, keys and the
   once-only notifications run while paused. The run's breakpoint is hit in a media
   notification of the loop; the next iteration pauses and its media tick calls the guest.
3. `media_hle.h` 169-171 "for every voice that has finished": not if `GetState`
   saw it first.
4. GP 6628-6631, a load in the same session needs no audio state: handles released
   after F1 are dead after F2.
5. `mirror_server.h` 181 "Wake the encoder thread so it can observe running_==false
   and exit": the flag is cleared and the condition notified without the mutex, and an
   encoder between its test and its wait sleeps on.

Other places where a comment and the code part, met while modelling and excused by
name in the properties they touch: `gl_hle.cpp` 520-522, which counts a clear among
what makes a copy to the pbuffer necessary (nothing ever adds to its counter, so a
buffer that was only cleared since the last copy keeps its old pixels),
`dynarmic_arm_core.cpp` 176-180 on the invalidation of stored-to code (it waits until
`jit_->Run` returns), `gl_texture_log.h:84` "Safe to call at any time" (a compaction
loses the live binding), `sdl2_unified_backend.cpp:335-337` "never corrupts real
app-owned GL state" (bindings change), GP 5324 on a range of addresses said to be
free, GP 3286 on the fonts' metrics, `extension_module.h` "loads once" (not inside a
load), `idisplay.h:54` on the error of `CreateDIBitmap`.

## 6. Proofs

The theorems hold for every value of the constants that satisfies the named
assumptions: `ShellAssumption`, `ThreadAssumption`, `LoopAssumption`,
`MediaAssumption`, `ControlAssumption`, `HostAssumption`, `PlatformAssumption`. These
say that bounds are natural numbers, that the null pointer is no structure, that
callbacks are not user data, that the heap is a number of whole words and the ring of
compatible bitmaps holds at least one screen: what the code's constants and its
allocator give. Any number of timers, threads, signals, voices, requests, frames,
children, pages, blocks, widgets, textures, calls and depths of nesting is covered.

`PROJECT.json` lists the theorems with the property each states. An invariant is
seldom inductive as it stands; what each proof adds to it is in a definition named
`...Inv`, and what it adds is the reason why the property holds.

### The loop (`EventLoop_proofs`)

- `LoopInvariant`: `LoopInv == ShellInv /\ ThreadsInv /\ FlowInv`. `FlowInv` says,
  besides types, which kind of guest call is possible in which phase, when a context
  is saved, that the drain's counter is within its bound when a tick begins, and that
  `slices` is empty outside a pass. The types alone are not inductive: `drainTick`
  stays in range only because the guard held when the tick began, and `HostDone`
  finds its next phase only because a host call is possible in six phases alone.
  From it `LoopTypesCorrect`, `TimersStayUnique`, `DueTimersCalled` (an action property).
- `NoThreadIsLost`: with `Traced`, a statement about one thread that each action
  preserves: it is queued or suspended (`Accounted`), runs, is in the taken batch,
  or crashed.
- `ThreadsRefined`: each step of the loop is one of `CoopThreads`, or leaves its
  variables alone. `ThreadsHeld` is what the mapping needs: queues name created
  threads, and a thread that runs exists and is suspended only on its way out.
- `ContextInvariant`, for `~HostKeys`: what `cpu` and `saved` hold in each phase
  and call. `ContinuationMatchesContext` speaks of the loop between calls only; the
  invariant also says what holds during a slice, a preempting timer and a resumed
  callback, and that no stale yield request exists while a callback sleeps, since
  the resumption is the one call that cannot consume it first. From it
  `ContinuationAlwaysMatches` and `YieldIsAlwaysOwn`.

### Media and save states (`Media_proofs`)

- `MediaInvariant`: `MediaInv` is types, `VoicesGiven` (the voice an object names was
  given out and no other object names it, so that stopping one object's voice takes no
  other's), `VoicesOwned` and `AddressesApart`. From it `MediaTypesCorrect`,
  `NoVoiceOrphaned`, `AddressesNeverShared`, through Mix, Scan and a Tick in whose
  callbacks objects are released and created.
- `NoticesRefined` and `NoticesKept` from `NoticesInv`: generations are given once and
  no two objects have one (`GensGiven`, `GensApart`); a pending notice is of a voice
  that has ended and was told to nobody, and of an object that has played nothing
  older since (`NoticesDue`); the notices of one object stand in the order of its voices,
  those of the batch before those of the queue (`NoticesInOrder`); and while Tick is at
  work, nothing it queues overtakes them (`TickState`).
- `SavesInvariant`: after a cold load the free list of the boot may name objects of
  the file, so `AddressesApart` and `VoicesOwned` are not kept; `MediaCore` is, with
  what a file holds (`FileGood`). From it `SavesTypesCorrect`, `VoicesAlwaysMatch`,
  `BootNoticesNeverTaken`.

### Beside the guest (`Host_proofs`)

`HostInv` is `ControlInv` and the invariant of the machine that runs. `ControlInv`
adds to the types `InLine` (batch and queue hold the next requests in order, exactly
those taken up were executed) and `Answered` (a promise is set at most once, only of
a request taken up that is not the pending step; the last one taken up is answered
or is the step), whatever the timeouts. `MirrorInv`: the box holds the newest frame,
or the encoder is at it, or it is shown. `SessionInv`: Stop lets go of a living child only
after the kill. `StreamInv`: a notice waits at one place only, and one that waits is
still asked for or its stream is gone for good.

### The platform (`PlatformParts`, `GuestMemory`, `FileHle`, `MCPlatform`)

The theorems are about `PlatformSpec` and the properties of its run. Since `subject`
never changes, a step is one of the part's own or leaves its variables alone
(`OnlyItsSteps`), and each theorem combines the lemmas of its parts: the invariant
holds initially, steps keep it, it shows the property.

- `CodeStaysCurrent` (`TranslatedCodeIsCurrent` for the JIT alone). A store runs inside
  a block or a step, and what it makes stale is dropped only when `jit_->Run` or
  `jit_->Step` returns: `told` says of each cell whether the JIT knows ("yes"), has put
  the drop off ("later") or was never told ("never": the host wrote, past the JIT).
  `DynarmicInv`: a kept block is what memory holds wherever `told` says "yes", and
  the page of each of its cells is noted (`BlocksCurrent`); what is left of the running
  block is so too (`RunningCurrent`); nothing waits outside the JIT; and how budget,
  ticks and executed instructions stand in each phase of Run, a last block's overrun,
  the faulting fetch and the fallback to a step included.
- `WritesAlwaysSurvive` (`FilesKept` for the files alone). `FileInv`: what was
  promised is in memory, and on the disk unless the flag is set or a flush is torn;
  handles stand inside files whose sizes only grow while they are open.
- `DrawingAlwaysShows`. `EglInv`: a buffer ends below the next one, so surfaces
  do not overlap, and a read-back that is skipped would have copied what is there, as long
  as `settled`: the last copy was of the surface still current and nothing was
  cleared since, because no counter counts a clear. `SoftInv`: the pixel is the first of
  the nearest fragments, or the clear's.
- `AnswersAlwaysHonest`. `ShellInv`: one delivery at a time unless one threw, each
  cached pointer was given out and holds its resource. `DisplayInv`: counts are the
  references held, the device's one more. `ExtensionInv`: providers are those of the
  catalogue, and the word an undisturbed call reads is nothing or its own object.
  `ImagesInv`: numbers lie between the fallback's and the next. `TimersInv`: timers
  have unique identities.
- `StepsAlwaysAsAsked` (action properties). `MemoryInv`: every page is whole, so a
  write across pages is the same as a write of each byte. `HeapInv`: blocks were cut
  off below the cursor and their sizes are known. `CallsInv`: there is a number of
  frames, left behind by calls that threw, above which the tracer's frames and the
  guest's stack interleave, though the model keeps only the two stacks. `RuntimeInv`:
  once the applet is the context, only the fields the host refreshes are pending.
- `ServicesAlwaysRight`. `SortInv`: the words are those given, what stands before the
  element on its way is in order, and the calls of the comparator are numbered and
  bounded by the place. `ClockInv`: what has passed is what the reads added.
  `ServicesInv`: the lines answered, joined, are the text before the cursor without
  what a line drops. `FramesInv`: the frames of every image are those composed from
  its GIF, and a walk over a GIF and what remains of it make up the whole.
  `TraceIsExact`: as long as no call has left the trace without its return or the
  other way round (none threw, and no function that the host called popped a frame by
  its return), the shadow stack has a frame for each call under way, at the depth its
  handler began.
- `TitleNeverMisled`. `WidgetsInv`: every handler is in exactly one place, installed in a
  slot or written back to a block, which `SetHandler`'s exchange keeps whichever block is
  passed again (`HeldOnce`), unless the title wrote over it; from this alone, two steps of
  a tail call that meet the same handler would make it held twice (`NeverBack`). Children
  lie below the counter, and one the title has not stored itself is in one item.
  `PadInv`: there are button sets between any two queued edges, from what the title was
  told to what is down.
- `GlAlwaysComesBack`. `LogInv`: the log's walk finds live exactly the textures the
  driver has, what a compaction would keep replays to the same textures under the same
  names, and each field of each texture agrees unless it is in `lost` (written by
  `TexSubImage2D`, by a large image whose pixels are dropped, or after a compaction
  before a bind). It speaks of compaction before there is one, since one may come at
  any step. `PresenterInv`: without complete framebuffer objects all is drawn to the
  window.
- `NothingEverOverwritten`. `MimesInv`: names follow one another up to the next free
  word. `BitmapsInv`: DIBs are laid one behind the other, table, object, pixels; and
  of a compatible bitmap, the ring's next page is as far behind it as pages were made
  since, or the cursor has wrapped once and is still before it. `SqlInv`: the parts of
  a row being read are stacked in the scratch buffer, a row that does not fit has left
  its first columns there, and every query but the innermost has been queried from.
  `ModulesInv`: a module that no load came in between lies below the next base, where
  the innermost load writes. `ArraysInv`: types of pointers and strides from which no
  access reaches the end. Of the heap and the files, `HeapInv` and `FileInv` as above.

Several models compute with recursive functions over sequences (the walk of the log,
the pages made, the queue of edges). The provers cannot use an induction theorem,
whose parameter is an operator; where a proof would go by induction, it
takes the least index at which the claim fails (`SmallestOf`, `AllUpTo` of
`Vectors_proofs`, for a set of naturals) and refutes it, and that a recursive function
exists and obeys its equation is `FoldExists`.

### What is only model-checked

- Liveness under fairness, which is out of the prover's reach: `NoticeArrives`,
  `TimersServed`, `ThreadsServed`, `SignalsServed`, `LoopStops`, `StopReturns`,
  `StepAnswered`, `PartsServed`.
- `ComputesRight`: results against reference definitions, several of them recursive
  over data of any length, others over bytes and bits whose tables TLC exhausts; and
  the tables without parameters (`EverySlotAnswers`, `TablesAgree`, `TablesKept`,
  `CalendarRight`), of which TLC evaluates all there is.
- `PlatformTypeOK`: the types of all parts together. The types the proved properties
  need are in the parts' invariants.
- The five violations, which are counterexamples.

## 7. What the properties are for

Each property names in its comment the code it is about; `PROJECT.json` ties it to
hazards and to a mutant: a plausible bug of that code under which TLC finds the
property violated in the same run. Those operators (`X_Something` beside `X`) are
not part of the specification. Where a property speaks of several
parts, `PROJECT.json` names one such bug, and the modules hold others beside it,
each of which breaks a property of the run of its part just so. The properties of `MCHost` and `MCPlatform` are the
modules' own, grouped by question: `NothingOverwritten`, `ComputesRight`, `ServicesRight`
and so on each say of every part what the part's module states and comments.

## 8. What a continuation could do

1. The boot of a title and `F2` with a sleeping callback: the loop composed with a
   guest memory, so that a load replaces what the loop's locals speak of.
2. The control channel composed with the loop's pause (a step while a breakpoint
   holds), and the pad with the signals it sets (`HidDevice` with `EventLoop`).
3. Preferences and device information of the shell; removal and enumeration of
   files; forms and text drawing of the widgets.
4. What `ComputesRight` says of formats, encodings and instructions for data of any
   length, once the provers can use induction over an operator.

## 9. Not modelled

Floating point (lighting, blending, texel arithmetic, VFP, the helpers on floats):
TLC has no reals. Decoders and parsers of file formats, tables of identifiers and
glyphs, the soundfont synthesiser (a vendored library), SQLite, inflation and the
translator of the JIT (libraries, present as what they may answer). SDL and libretro
glue, the GUI's window and library, inspectors and benchmarks. Title quirks: tables
of patches for single titles. Of the modelled parts: title-specific patches, forms
and audio pacing in the main loop, logs and traces, JSON parsing in the control
server, volume, seek and sample data in the mixer, the elapsed time of the GUI
session (which while paused is computed from `stopped_at_`, a field a pause never
sets, `emulator_session.cpp:159`). The list of parts with their status is in
`PROJECT.json`.
