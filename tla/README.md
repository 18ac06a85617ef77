# TLA+ models of the NearClip native bridge

These modules model the hand-written native bridge of NearClip, the Android
JNI layer under `src/src/platform/android/app/src/main/cpp/`, and the
generated protobuf accessor thunks under `src/src/shared/protocol/generated/rust/`. This layer owns
the singleton engine (`NearClipCore`), pins the Android `Context`, forwards
Java commands to the engine and relays engine events back to Java. The engine
itself is external. It appears in the models as an environment that can
succeed, fail, and raise events on any thread.

## 1. Inventory

### Components and their state

| Component | Source | State | Operations |
|---|---|---|---|
| Core Lifecycle Controller | `nearclip_jni.cpp` 89-119, 291-335 | `g_nearclip_core` (`std::unique_ptr<NearClipCore>`), the engine's callbacks | `initialize`, `cleanup`, `setup_callbacks` |
| Global Reference Table | `nearclip_jni.cpp` 16, 95-98, 299-302 | `g_context` (a JNI global reference) | `DeleteGlobalRef` / `NewGlobalRef` in `initialize`, `cleanup` and `JNI_OnUnload` |
| Command Facade | `nearclip_jni.cpp` 124-289 | none of its own; it reads `g_nearclip_core` | `startDeviceDiscovery`, `stopDeviceDiscovery`, `connectToDevice`, `disconnectFromDevice`, `sendClipboardData`, `getLocalDeviceInfo` |
| Library load/unload | `nearclip_jni.cpp` 29-84 | `g_jvm`, the five `jmethodID` slots | `JNI_OnLoad`, `JNI_OnUnload` |
| Host Runtime Attachment Manager | `jni_callbacks.cpp` 19-71 | the attachment of each thread to the VM (owned by the VM) | `get_jni_env`, `attach_current_thread`, `detach_current_thread` |
| Callback Dispatcher | `jni_callbacks.cpp` 76-261, lambdas in `nearclip_jni.cpp` 308-335 | per thread: the pending Java exception and the local reference frame | `call_java_method_onDeviceDiscovered`, `onDiscoveryStateChanged`, `onConnectionChanged`, `onClipboardDataReceived`, `onError` |
| JNI header | `jni_bridge.h` | declarations only | — |
| macOS bridge | `NearClipBridge.h` | declarations only, no implementation | — |
| Protobuf thunks | `src/src/shared/protocol/generated/rust/*.pb.thunks.cc` | C++ protobuf messages behind `extern "C"` accessors | `new`, `default_instance`, field `get`/`set`/`has`/`clear`/`get_mut` |

### How they interact

- Java calls a command. The command checks `g_nearclip_core` for null, then
  loads it again and calls the engine.
- `initialize` re-pins `g_context` and builds a new engine with
  `make_unique`. The `unique_ptr` assignment deletes the old engine. Then
  `initialize` calls the engine's own `initialize()` and, if that succeeds,
  calls `setup_callbacks`. This installs five lambdas, and each setter loads
  `g_nearclip_core` again.
- The engine calls a lambda on one of its worker threads, or on the Java
  thread that is inside a command. The lambda calls a
  `call_java_method_*` relay. The relay gets a `JNIEnv`, attaching the thread
  if needed. It then does `FindClass`, `NewStringUTF` and
  `CallStaticVoidMethod`, and clears any pending exception.
- No lock guards `g_nearclip_core` or `g_context`. Every host thread can run
  every handler concurrently.

### What is hard

- **Concurrency.** There is no mutex. A command's check-then-call, `cleanup`'s
  `reset()` and `initialize`'s assignment interleave. The non-atomic
  `unique_ptr` reset is a data race.
- **Partial failure.** `initialize` has several steps that can fail:
  `NewGlobalRef` can return NULL, `make_unique` can throw, and the engine's
  `initialize()` can return false. Each failure leaves a different mix of
  old and new state.
- **Per-thread JNI state.** A thread may have a pending exception or leftover
  local references. A thread the bridge attached lasts beyond any single
  relay, so a failure path in one relay affects the next relay on that thread.

### What makes each component correct (spec section)

- Controller: at most one live engine at any time. The old engine is
  destroyed before the new one is built (3, 4.3). A failed initialize leaves
  no engine (4.3). An engine is never left partly wired (4.3).
- Global references: at most one pinned context at a time, and no
  reference is deleted twice or leaked (3).
- Commands: they reach the engine only when it is READY, and they never
  crash or touch a deleted engine (4.4, 5).
- Attachment: threads the bridge attaches are detached again, and threads
  it did not attach are never detached (4.1).
- Dispatcher: a fault never propagates out of a relay, and pending
  exceptions are cleared after every crossing (4.2, 7).
- Commands and relays together: no native method returns to Java with an
  exception pending, and a command failure is a `false` or null result, never
  a crash (7).
- Protobuf thunks (not in the spec; their contract with the Rust caller):
  each object has exactly one owner. Setters take ownership of what they are
  handed and free what they replace. No held pointer dangles. The accessors
  behave as reads and writes of a value.

`PROJECT.json` lists the hazards, each at its source line, with the
properties that cover it.

## 2. Modules

### `JniCore` (lifecycle controller, global reference table, command facade)

State: `core` is `g_nearclip_core` and `context` is `g_context`.
`engState` and `refState` record the lifetime of each engine object and
global reference (unused, live, freed, freed twice). `wired` holds the
callbacks set on each engine. Each host thread has a program counter `pc`
and the locals of the handler it is running:

- `newEng`: the temporary from `make_unique`;
- `oldEng`: the pointer `reset()` loaded;
- `callee`: the engine the thread is executing inside;
- `setIdx`: the next setter;
- `chars`: the UTF buffer held;
- `initRet`: what the last `initialize` returned.

Actions follow the handlers' loads and stores of the two globals:

- `initialize` runs `InitDelCtx`, `InitNewCtx`, `InitMake`, `InitLoad`,
  `InitStore`, `InitCall` and `InitReturn`. `InitLoad` and `InitStore` are
  the two halves of the `unique_ptr` reset.
- `setup_callbacks` runs `SetupCheck`, then `SetterCall` and
  `SetterReturn` for each of the five setters, in code order (`Setters`).
- `cleanup` runs `CleanupLoad`, `CleanupFree` and `CleanupCtx`.
- Each command handler is an entry action (`startDeviceDiscovery` and so
  on). It takes the UTF chars and checks `g_nearclip_core` for null. `CmdCall` reloads the
  pointer and enters the engine, and `CmdReturn` releases the chars.

`Step(t)` is every step of thread `t`. `setup_callbacks` is five
straight-line setter calls. `setIdx` is the thread's position among them,
not a loop counter of the code. A call through a null pointer goes to `pc = "segv"`. A call into a deleted
engine is visible because `callee` points at a freed engine. Engines and
references come from finite pools. An empty pool is an allocation failure,
which the code handles: `make_unique` throws, or `NewGlobalRef` returns NULL.

### `EngineSlot` (the lifecycle JniCore promises)

`EngineSlot` is the abstract specification of spec 3 / 4.3. It has no
threads and no temporaries. It has one engine slot (`slot`), each engine's
lifecycle (`status`), the callbacks set on each engine (`wired`), and one
pinned context (`pinned`, `refs`). Its actions are:

- `Install`: a fresh engine enters the slot, and the engine it replaces is
  released in the same step;
- `Settle`: the installed engine is initialized, to ready or failed;
- `Wire`: a callback is set on the installed engine, only once it is ready;
- `Clear`: the slot is emptied and its engine released;
- `Pin` / `Unpin`: a context is pinned only when none is.

`JniCore` instantiates it as `Slot` under a refinement mapping:

- `slot` is `g_nearclip_core`;
- `SlotStatus` reads the engine that `make_unique` built, before
  `InitStore` stores it, as still unused. It belongs to the temporary
  `unique_ptr`, not to the bridge. This is how the mapping hides the window
  that `core_replace_order` shows, where two engines are alive;
- `HeldContext` is `g_context` while its reference is live.

`RefinesSlot == Slot!Spec` is checked as a PROPERTY in `core_seq`, with one
host thread. With two threads, the unsynchronised globals break it the way
`core_race` shows.

### `JniCallbacks` (load/unload, attachment manager, dispatcher)

A relay touches only the JNI state of its own thread. The one shared global,
`g_jvm`, is written only at load and unload, which spec 4.1 places in
non-concurrent phases. So each relay is a single atomic step. Its outcome is
chosen from what its JNI calls can return:

- `GetJniEnv` / `AttachCurrentThread` may fail to attach;
- `FindClass` may fail;
- `NewStringUTF` may fail;
- the Java callback may return normally or throw.

The step updates the thread's attachment (`attach`), its pending exception
(`pending`), the local references it leaves behind (`localRefs`) and the
record of JNI calls made with an exception pending (`misuse`).
`RelayDeviceDiscovered` and `RelayOther` differ as the code does: only
`onDeviceDiscovered` clears a pending exception on entry, and only it leaks
the class reference when `NewStringUTF` fails. `Raise` is the engine calling
a `setup_callbacks` lambda. `ThreadExit` is an engine worker thread
finishing.

### `JniBridge` (the Android bridge composed)

`JniBridge` instantiates `JniCore` (as `C`, with `Threads <- HostThreads`)
and `JniCallbacks` (as `CB`, whose Java threads are the same host threads).
Both keep their variables. The composition adds:

- **Library phases.** Host calls run only after a successful `JNI_OnLoad`.
  `JNI_OnUnload` runs only when no host thread is inside a native method,
  because the VM unloads a library only after collecting its class loader.
  It resets the engine, deletes `g_context` and nulls `g_jvm`.
- **Events through the engine.** `Raises(e, k)` holds only while engine `e`
  is alive and has callback `k` set on it. `WorkerRelay` raises an event on
  a worker thread at any time. `HostRelay` raises one on a host thread only
  while that thread is inside a call on the engine.
- **The host's exception state.** A native method is never entered with an
  exception pending. A native method that returns with one pending throws
  it into its Java caller (`JavaThrow`).
- **getLocalDeviceInfo's result.** `InfoReturn` models its `FindClass`,
  `GetMethodID`, `NewStringUTF` and `NewObject` calls, none of them checked.
  `cmd` records which command a host thread is running.
- **A null string argument.** JniCore models only a non-null argument.
  `UTFCharsFail` is `connectToDevice`, `disconnectFromDevice` or
  `sendClipboardData` called with a null string. ART's `GetStringUTFChars`
  returns NULL for it with no exception pending, and nothing checks the
  pointer. With no engine, the handler releases it (`delete[]` of NULL) and
  returns false. Otherwise `std::string` is built from NULL (`pc = "segv"`).

### `ProtoSchema`, `ProtoThunks`, `ProtoValues` (generated protobuf thunks)

Each `.pb.thunks.cc` block exposes one message type to Rust through
`extern "C"` functions. The code for a field depends only on the field's
kind:

- scalar: `get`/`set`;
- string or bytes: `get` returns a view; `set` moves a heap `std::string`
  in and deletes it;
- repeated or map: `get`, `get_mut`, and `move_set`, which moves a heap
  container in and deletes it;
- sub-message: `has`, `clear`, `get` (the default instance when unset),
  `get_mut` (allocates and sets the has-bit), and `set`
  (`set_allocated_`: frees the old sub-message and takes the new one).

`ProtoSchema` lists the 22 message types of the four files as records from
field to kind, one definition per block. `ProtoThunks` has one action per
accessor kind, parameterised by message and field, over a heap of addresses:

- `life`, `otype`, `data` and `has` per address;
- the static default instances, one per type;
- the caller's owned, mutably borrowed and read-only pointers (`own`, `mut`,
  `cref`);
- `fault` for double frees and writes to a static.

The two behaviours of `clear_` across protobuf releases (Clear in place, or
delete and null) are a nondeterministic choice (`MsgClear`). The Rust caller
is the environment: it follows the borrow rules stated in the module header.
`EnvBuild` and `EnvDrop` are its allocations and drops.

`ProtoValues` is the abstract specification: the caller owns values (nested
records) and reads and writes them along paths of sub-message fields. It has
no heap. `ProtoThunks` implements it under the mapping `OwnedValue`, which
reads each owned object as a value (`Val` follows sub-message pointers, and
an unset one reads as its type's default). `ValueSemantics == PV!Spec` is
checked as a PROPERTY.

## 3. Runs

| Run | Config | Expect | What it shows |
|---|---|---|---|
| core_seq | `JniCore_seq.cfg` | pass | One host thread runs every sequence of initialize, cleanup and commands, including engine and allocation failures. It never touches a deleted or null engine, never deletes an object twice, and never leaks an engine, context or UTF buffer. The lifecycle refines `EngineSlot` (`RefinesSlot`). |
| core_replace_order | `JniCore_AtMostOneLiveEngine.cfg` | violation | Re-initialize builds the new engine while the old one is alive (`nearclip_jni.cpp:101`). |
| core_failed_init | `JniCore_FailedInitLeavesNoEngine.cfg` | violation | A failed engine `initialize()` leaves the engine installed (`:104`). Commands then reach that unready engine, which has no callbacks. |
| core_race | `JniCore_race.cfg` | violation | With two host threads, `cleanup` deletes the engine while the other thread is inside it (`:296`). The spec names this race. |
| relay_localref_leak | `JniCallbacks_LocalRefsBalanced.cfg` | violation | `onDeviceDiscovered` returns on a `NewStringUTF` failure without deleting the class reference (`jni_callbacks.cpp:100`). The engine thread is attached and never detached, so nothing frees it. |
| relay_exit_attached | `JniCallbacks_NoExitWhileAttached.cfg` | violation | Attached engine threads are never detached (`jni_callbacks.cpp:83`). |
| relay_pending_misuse | `JniCallbacks_NoJniCallWithPendingException.cfg` | violation | A failed relay leaves its exception pending. The next relay calls `FindClass` with it pending (`:139`). |
| bridge_unload | `JniBridge_unload.cfg` | pass | In the composed bridge, `JNI_OnUnload` after any sequence of calls, failures and events leaves no engine alive and no global reference live. |
| bridge_exception_escape | `JniBridge_NoExceptionEscapes.cfg` | violation | `getLocalDeviceInfo` returns to Java with `OutOfMemoryError` pending after an unchecked `NewStringUTF` (`nearclip_jni.cpp:268`). A relay on the calling thread that fails in `FindClass` escapes the same way. |
| bridge_info_abort | `JniBridge_CommandFailuresContained.cfg` | violation | With an engine, a string command called with a null string builds `std::string` from the NULL `GetStringUTFChars` returns (`:180`, `:208`, `:236`). `getLocalDeviceInfo` passes a NULL class to `GetMethodID` and aborts the process (`:265`). |
| proto_capability | `ProtoThunks_capability.cfg` | pass | The sub-message, repeated, string and scalar accessors of `CapabilityNegotiation` and `ProtocolVersion`, in every order the caller contract allows. There are no double frees, no writes to a static, and no dangling held pointers (`HeapSafe`). Every object has one owner (`OwnedExactlyOnce`). The thunks implement `ProtoValues` (`ValueSemantics`). |
| proto_catalogue | `ProtoThunks_catalogue.cfg` | pass | The same properties for all 22 message types with all their fields, over two heap objects. |

Each property of a passing run has a mutant in `PROJECT.json`: a plausible
bug in the mapped code that the run detects. Examples:

- `cleanup` deleting the engine without nulling the pointer;
- `initialize` not deleting the old context or the old engine;
- a relay dropping its two `DeleteLocalRef` calls;
- `JNI_OnUnload` not resetting the engine;
- a string setter not deleting the string it moved from;
- `has_` testing the pointer instead of the has-bit;
- `clear_` deleting without nulling;
- `move_set` appending instead of replacing.

### Bounds

- **JniCore:** three engines and three references. That allows two full
  re-initializations plus one allocation failure, so every path out of
  `initialize` happens, including the one where a pool is exhausted. The
  sequential run has 8,115 distinct states. The race run uses two threads,
  the smallest number that can race.
- **JniCallbacks:** its violation runs use two native threads, so one can
  exit while the other still relays. They use one Java thread, and all five
  event kinds with up to four events. That is enough for two consecutive
  relays on one thread after a failure. The runs set `CHECK_DEADLOCK FALSE`
  because the system really does stop: worker threads exit, the event budget
  runs out, and a failed `JNI_OnLoad` leaves the library unusable.
- **JniBridge:** one host thread, one worker, three engines, two references
  and three events. That covers two re-initializations, an event on each
  kind of thread inside and outside a command, and unload after any of
  these. The run reaches 1.09 million states in about 55 seconds. A second host thread
  would add only the JniCore races, which the `core_*` runs already show.
  Deadlock is not checked, for the same reason as in JniCallbacks, and
  because nothing runs after unload.
- **ProtoThunks:**
  - *capability* keeps one field of each kind, a sub-message of a
    sub-message, and a scalar and a string below it. It uses four heap
    addresses, which is enough for a message, its sub-message, a replacement
    sub-message and a string in flight. It has one payload value and
    containers of at most one element: 16,817 states.
  - *catalogue* loads the whole schema with two addresses and no payload
    values, so every accessor of every type is exercised: 1,366 states.
  - Both runs use symmetry over the heap addresses, which are
    interchangeable model values.
  - They use a VIEW without `ret`, the last value a getter returned. No
    action reads it, and `ValueSemantics` constrains it only within the step
    that sets it, so states differing only in `ret` have the same futures.

### Fairness and liveness

No liveness property is checked. Every JNI entry point is a finite
straight-line sequence of steps with no wait on another thread, so "every
call returns" would hold by the shape of the actions. No run assumes
fairness.

## 4. Not modelled, and why

- The engine's internals (discovery, pairing, crypto, sync) are external. The
  engine is an environment that returns any result. Its destructor, and
  whether it joins its worker threads, is unknown. So a Java callback that
  re-enters `cleanup()` from inside an engine call is not modelled.
- The relay's `ExceptionCheck` / `ExceptionClear` after the Java call is
  straight-line code inside one atomic relay step. A property that it clears
  the exception would only restate that assignment, so none is checked.
- A relay is one atomic step, so the two loads of `g_jvm` in `get_jni_env`
  are not separated from each other. The spec makes unload non-concurrent.
- Strings, JSON and log text are abstracted away entirely. In the protobuf
  model, payloads are model values.
- The view a string getter returns (`PtrAndLen`) lives only as long as a Rust
  borrow. The Rust borrow checker enforces that, outside `src/`.
- `NearClipBridge.h` (macOS) declares an interface and has no implementation.
- `jni_bridge.h` has declarations only.
- The callbacks file declares `extern JavaVM* g_jvm` and the method IDs, but
  `nearclip_jni.cpp` defines them `static`. As written, that does not link.
  The models assume the intended single shared globals. This is a build
  defect rather than a behaviour, so TLC has nothing to check.

## 5. Plan

Done:

- `JniCore`;
- `JniCallbacks`;
- `JniBridge`, the composition with load and unload;
- `ProtoThunks`, with its refinement of `ProtoValues`;
- `EngineSlot`, the abstract lifecycle, and the refinement of `JniCore` to it.

Next:

1. The bridge with a Java callback that re-enters a command or `cleanup`.
   This needs a model of the engine's destructor, which is not in `src/`.
2. A two-thread property that a ready engine is wired with all five
   callbacks, where partial wiring comes from a concurrent replace
   (`nearclip_jni.cpp:309`). It waits for a free run slot.
