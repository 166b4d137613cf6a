# TLA+ models of rlua's Lua/Rust safety layer (`src/src/util.rs`)

`src/src/util.rs` is the part of rlua that sits between Rust code and the
Lua 5.3 C API. It keeps the Lua value stack balanced. It carries Rust
errors and Rust panics through Lua's `longjmp`-based error mechanism as
opaque userdata ("envelopes"). It also makes sure a script can catch
typed errors but never a Rust panic. This directory holds TLA+ models of
that layer, TLC configurations that check them on small instances, and
TLAPS proofs of their type correctness, their main safety properties and
one refinement.

## 1. Inventory of the system

| Component (spec.md §) | Code | State it keeps | Operations |
|---|---|---|---|
| Stack Accounting Guard (4.1) | `check_stack` 14-20, `check_stack_err` 24-30, `stack_guard` 34-57, `stack_err_guard` 68-102 | the stack depth (`lua_gettop`); each open guard's expected depth lives in a local of the Rust frame | check space (fatal or `StackError`), enter a guard, run the operation, check or trim on return |
| Error/Panic Envelope (4.2) | `push_wrapped_error` 385-393, `pop_wrapped_error` 398-408, `push_wrapped_panic` 547-555, `is_wrapped_error` 559-573, `is_wrapped_panic` 577-591, `pop_error` 108-161 | userdata with the error or panic metatable; a `WrappedPanic` holds an `Option` payload that is taken once | wrap, recognise by metatable identity, unwrap, resume the panic |
| Callback Trampoline (4.5) | `callback_error` 208-229, `rust_callback_error` 234-260 | none of its own; clears the stack before raising | Ok, Err (with a `StackError` fast path in the rcall protocol), caught panic |
| Protected-Call Variants (4.6) | `safe_pcall` 309-328, `safe_xpcall`/`xpcall_msgh` 332-373 | the C frame waiting in `lua_pcall` | call, return `(true, ...)`, return `(false, err)`, raise a panic again |
| Traceback Formatter (4.7) | `error_traceback` 265-305 | none | wrap a `WrappedError` in `CallbackError`, append a traceback to a Lua error, pass a panic through |
| GC Suspension Guard (4.3) | `gc_guard` 416-425 | whether the collector runs | stop, run, restart |
| Destructed-Object Sentinel (4.4) | `take_userdata` 183-194, `userdata_destructor` 197-202, the destructed metatable and `destructed_error` in `init_error_metatables` 428-540 | a userdata's metatable and whether its value was moved out | finalise, then any metamethod gives `CallbackDestructed` |
| Stack helpers | `push_string`, `push_userdata`, `get_userdata`, `main_state` | none | one VM call each |

How the parts interact. The host calls Lua through `lua_pcall`, often with
`error_traceback` as message handler, and turns a failure into an `Error`
with `pop_error`. A script calls Rust callbacks, and each callback runs
inside a trampoline. A callback that fails or panics is wrapped in an
envelope and raised with `lua_error`. The raised value first goes through
the message handler of the nearest protected call, then unwinds to that
call. The call may be the host's, a callback's own `lua_pcall`, or a
script's `safe_pcall`/`safe_xpcall`. Each of these must pass a panic on to
the next layer down. Back in Rust, `pop_error` resumes the panic. If a
Rust callback is still below, the panic unwinds into that callback's
trampoline, which wraps the same payload again and raises it.

The behaviours that make this hard are:

- a panic crossing an arbitrary nesting of host calls, callbacks, scripts
  and protected calls, each layer with its own continuation;
- message handlers that run on top of the raising frame, before the
  unwind;
- stack depth accounting on the error paths;
- exhaustion of stack space at each `lua_checkstack`;
- finalisers that run inside the collector.

## 2. Modules

- **`StackGuard`** models the stack accounting guard.
  - Variables: `top` is `lua_gettop`; `guards` is the sequence of open
    guards, innermost last, as `[kind, expected]`; `outcome` is how the
    last guard left.
  - Actions: `CheckStack(n)` and `CheckStackErr(n)` are the two checks.
    `Enter(kind, change)` is the common prologue, including the
    `expected >= 0` assertion. `ExitOk` is the Ok return of either guard.
    `ExitErr` is `stack_guard`'s unconditional check, or
    `stack_err_guard`'s `top >= expected` assertion followed by its trim.
    `InternalPanic` is `lua_internal_assert`: `lua_settop(0)`, then a
    panic that unwinds every open guard.
  - Environment: the guarded closures are `OpPush`/`OpPop` plus nested
    guards. They are taken in every order, so a closure may miscount.
- **`StackGuardProofs`** holds the TLAPS proofs about `StackGuard`.
- **`ErrorProtocol`** models envelopes, trampolines, `pop_error`,
  `error_traceback`, `safe_pcall` and `safe_xpcall` together. They are
  one module because none of them can be judged apart from the others: a
  panic is safe only if every layer passes it on.
  - `frames` is the chain of activation frames of one Lua state, bottom
    first:
    - `rust` frames: `root` (the host), `cb` (under `callback_error`),
      `rcb` (under `rust_callback_error`);
    - `lua` frames: `fn` (a script function), `handler` (a user message
      handler);
    - boundary frames: `hcall` (a Rust `lua_pcall`, tag `tb` with
      `error_traceback` or tag `plain` without), and `pcall`/`xpcall`
      (`safe_pcall`/`safe_xpcall` waiting in `lua_pcall`).
  - A frame holds `stk`, the values a script holds; `got`, the Error a
    Rust frame received from `pop_error`; `res`, the result of a
    boundary's callee, waiting for the C code after `lua_pcall`; and
    `bnd`, the index of the nearest boundary below it. `bnd` is the VM's
    `L->errorJmp` chain: a boundary frame sets it for the frames above,
    and every other frame inherits it, so `NearestBoundary(fs)` is one
    lookup.
  - Errors are records `[k, s, incomplete, wraps]`: the `Error` variant,
    its message, the `SyntaxError` `incomplete_input` flag, and the number
    of `CallbackError` layers `error_traceback` has put around it. A
    layer is added only when a wrapped error meets a traceback handler,
    and the frame bound keeps the count small in every run.
  - `outcome` is what the host's last call gave it. `raised` is the set
    of panic payloads raised during that call. It is history for the
    properties and guards no action.
  - Values are abstracted to strings (message plus traceback flag), other
    values, booleans, `WErr(e)` and `WPanic(p)`.
  - `Raise(fs, v)` is `lua_error` seen from util.rs. It calls the message
    handler of the nearest boundary on top of the raiser. With
    `xpcall_msgh`, the panic short cut returns at once and anything else
    goes to the user's handler frame; if no frame is left, the VM gives
    `LUA_ERRERR`. With `error_traceback`, the value is formatted by
    `ErrorTraceback`. Then the stack unwinds to the boundary.
  - `RustReturnErr`, `RustPanic` and `RustReturnOk` are the trampoline
    arms. `PcallResume` is the code of `safe_pcall`/`safe_xpcall` after
    `lua_pcall` returns. `HostResume` and `RustResume` are the Rust code
    after `lua_pcall` returns: `pop_error`, then either an `Error` or
    `resume_unwind`.
  - The host's and the callbacks' own code is not in `src/`, so those
    actions are modelled from spec.md (`spec_modelled` in the map).
  - Scripts are the environment. They call callbacks, call
    `safe_pcall`/`safe_xpcall` (with or without enough arguments), raise
    any value they hold or make, call `tostring` on a held error, and
    return.
- **`Finaliser`** models userdata, the collector's finalisers,
  `gc_guard`, `take_userdata`/`userdata_destructor` and the destructed
  metatable.
  - Variables, per userdata slot `u`: `st[u]` (free, reachable from a
    script or the stack, or unreachable), `mt[u]` (no metatable yet, the
    error, panic or a Rust type's metatable, or the destructed one),
    `marked[u]` (on the VM's list of objects to finalise), `fin[u]`
    (finalised at least once) and `drops[u]` (how often its Rust value
    was dropped). Globally: `gcRunning` (`lua_gc(LUA_GCISRUNNING)`),
    `hostGc` (what the host last asked for), `guard` (whether an open
    `gc_guard` stopped the collector), `op` (the util.rs operation in
    progress and where it is), `gcError` (where the last `LUA_ERRGCMM`
    was thrown), `lost` (a finaliser's panic was lost) and `lastUse` (the
    last event on a handle and its answer).
  - Four of the six calls of `gc_guard` (`push_wrapped_error` 386,
    `push_wrapped_panic` 548, `error_tostring` 439, `pop_error`'s
    `lua_tostring` 126) and `push_userdata` run as three steps, so that a collection step can
    fall between them: `StartWrap`/`ScriptUse`/`HostPopError`/
    `ScriptAlloc` enter (`GcGuardEnter`), `Allocate` allocates,
    `CheckGC` is `luaC_checkGC` after the allocation, and `Finish` is the
    guard's return (`GcGuardExit`) followed by `lua_setmetatable` or the
    pop.
  - `CheckGC` and `FullGC` run `userdata_destructor` on a pending object
    (`Finalise`): `TakeUserdata` swaps in the destructed metatable and
    drops the value. A Rust value's `Drop` may panic (`DropOutcomes`);
    `callback_error` then raises the wrapped panic, which GCTM turns into
    `LUA_ERRGCMM` and throws, from the allocation in a collection step
    and out of `lua_gc`/`collectgarbage` in a full collection.
  - The two calls of `gc_guard` in `error_traceback` (270, 292) are not
    modelled. They are the same generic guard around one more string
    allocation, so they add no new interleaving for the properties.
  - `Dispatch(u, ev)` is what a metamethod event reads: the destructed
    metatable answers its 25 events (`DestructedMethods`) with
    `destructed_error`, any other event is the VM's own error.
  - The VM's side (`lua_setmetatable`'s finaliser mark, the list of
    pending objects, full collections, a script dropping or, through
    another object's Lua finaliser, resurrecting a reference, and the
    host's `lua_gc`) is modelled from the Lua 5.3 semantics
    (`spec_modelled` in the map).
- **`UserdataLifecycle`** is the abstract specification of a
  foreign-owned userdata (spec.md 4.4): a slot is free, live or dead; a
  value is dropped when its userdata dies; after that every intercepted
  operation answers `CallbackDestructed`. `Finaliser` implements it under
  the mapping `LifeBar` (free until allocated, dead once it carries the
  destructed metatable, live otherwise).
- **`ErrorProtocolProofs`** and **`PanicProofs`** hold the TLAPS proofs
  about `ErrorProtocol`: type correctness and panic opacity in the first,
  `PanicReachesHost` in the second, which extends it.
- **`FinaliserProofs`** holds the TLAPS proofs about `Finaliser`.
- **`MCStackGuard`**, **`MCErrorProtocol`** and **`MCFinaliser`** extend
  the models for TLC.

PROJECT.json's `map` names the source lines of every definition.

## 3. Runs

| Run | Bounds | Checks | Shows |
|---|---|---|---|
| `stackguard` | `MaxTop = 3`, `MaxNest = 2`, changes in -1..1, every initial depth 0..3 | `TypeOK`, `GuardBalance` | Every guard that returns, Ok or Err, leaves exactly the depth it declared; a miscounted closure always ends in the internal panic. |
| `errorprotocol` | `MaxDepth = 6` frames, `MaxVals = 3`, messages `m1` and one ending in `<eof>`, two panic payloads | `PanicReachesHost`, `PanicEventuallyReported`, `PanicCarriedDown` | A panic raised anywhere reaches the host as the same payload. No host call that raised a panic ends in Ok or Err. A second panic never starts while one is in flight. Every raised panic is reported. While a panic is in flight, every step moves it to a strictly lower protected call, unchanged, or hands it to the host: no message handler, script or callback runs in between. |
| `errorprotocol_deep` | `MaxDepth = 8`, one message, one payload, `MaxVals = 2` | `PanicNeverScriptVisible`, `PanicEventuallyReported` | No script frame and no user message handler ever holds a `WrappedPanic`, including a panic raised inside `safe_xpcall` inside a host call. Every raised panic is reported, also when it is resumed by a callback's own `lua_pcall` (`RustResume`), which needs seven frames. |
| `finaliser` | 3 userdata slots (symmetric), events `__index`, `__tostring`, `__close` | `TypeOK`, `GcRestored`, `NoShadowing`, `ImplementsLifecycle` | No value is dropped twice; outside an operation the collector runs exactly as the host asked; no finaliser error escapes a `gc_guard`; the model refines `UserdataLifecycle`. |
| `finaliser_panic` (violation) | as `finaliser` | `FinaliserPanicResumed` | A `Drop` that panics inside `userdata_destructor` never reaches the host as a panic (the finding below). |

Why these bounds are enough:

- Three slots let one userdata be finalised and resurrected while a
  second is being allocated by an envelope inside `gc_guard` and a third
  is pending: the pending one is what a collection step inside the guard
  would finalise. The events include one the destructed metatable
  answers, `__tostring` (which also runs `error_tostring`), and one it
  does not (`__close`).
- Two nested guards let an inner guard's miscount or trim be seen by the
  outer one. Depth 3 lets a closure both push residue and pop below the
  expected depth.
- Six frames hold the chain host → `hcall` → script → `pcall` → script →
  callback, which is the shortest path where a panic meets
  `safe_pcall`, and host → `hcall` → script → callback → `hcall` →
  script, where a callback's own `lua_pcall` is open. For that
  `lua_pcall` to return a panic, a callback must panic above it, at
  frame seven. So the `errorprotocol` run never takes `RustResume`'s
  panic branch, and seven frames with these value sets take 11 minutes.
- A panic inside `safe_xpcall` that reaches its handler, and a panic
  resumed by a callback's `lua_pcall`, need seven frames, hence the deep
  run. It cuts the value sets to keep within time and checks
  `PanicEventuallyReported` there too. `PanicReachesHost` and
  `PanicCarriedDown` are proved for every depth (§4), which covers that
  branch as well.
- `MaxVals = 3` is the smallest bound with room for
  `(false, WrappedError)` plus a `tostring` of it.

The mutants in PROJECT.json show each property can fail:

- a guard without its negative-depth assertion;
- `stack_err_guard` without its trim;
- `pop_error` without its panic test;
- `safe_pcall` without its panic re-raise;
- `xpcall_msgh` without its panic short cut;
- `error_traceback` without its panic test, which turns a panic passing
  through a host call into a traceback string;
- a destructed metatable that still has `__gc` (a double drop);
- `take_userdata` without the swap to the destructed metatable;
- `gc_guard` restarting the collector on every return;
- `gc_guard` running its closure without stopping the collector.

**Finding (`finaliser_panic`).** `userdata_destructor` (line 199) runs
the value's `Drop` inside `callback_error`. A panic there is wrapped and
raised from a `__gc` metamethod. Lua 5.3's GCTM turns an error from a
finaliser into `LUA_ERRGCMM` with the message "error in __gc metamethod
(no message)" (the envelope is not a string), which `pop_error` returns
as `GarbageCollectorError` (line 157). In a collection step it is thrown
from the allocation; in a full collection (`collectgarbage("collect")`,
`lua_gc(LUA_GCCOLLECT)`), GCTM propagates it out of the call. Either
way the payload is lost, while spec.md (§5) says a
native panic is never suppressed and is resumed under host control. TLC
finds the six-step trace: a script allocates a Rust value, drops it, and
a full collection finalises it with a panicking `Drop`.
**Fairness.** `Spec` of `ErrorProtocol` has weak fairness on
`ProtocolStep`, the continuations after `lua_pcall` returns (`HostResume`,
`RustResume`, `PcallResume`). These are straight-line C and Rust code that
runs as soon as control returns to it. Nothing in util.rs waits or yields
there. No fairness is assumed for scripts, callbacks or the host's next
call, which may do nothing for ever. `PanicEventuallyReported` holds
because once a panic is raised, only `ProtocolStep` steps are enabled
until it reaches the host: no script or callback frame is on top while
the envelope is in flight.

`Finaliser` states only safety properties and has no fairness.

Deadlock is checked in every run. In `StackGuard` and `ErrorProtocol`
there is always a next step: a push or pop, a new guard, or the host's
next call. In `Finaliser` an operation in progress can always take its
next step, and between operations the host can always call `lua_gc`.

## 4. Proofs (checked by `tlapm`)

### `StackGuardProofs`

The proofs hold for every value of the constants. They assume only
`MaxTopAssumption` (`MaxTop` is a positive natural), `MaxNestAssumption`
(`MaxNest` is a positive natural) and `ChangesAssumption` (the declared
changes are integers).

- **`TypeCorrect`: `Spec => []TypeOK`.** `TypeOK` is inductive as it
  stands. The argument: the depth never exceeds `MaxTop`, because pushes
  are bounded and `ExitErr` trims to `expected <= top`. An open guard's
  expected depth is a natural number, because `Enter` asserts it. The
  internal panic resets to an empty, well-typed state.
- **`GuardBalanceHolds`: `Spec => GuardBalance`.** This is the action
  property. `BalancedStep` shows that every `[Next]_vars` step from a
  `TypeOK` state is a `BalancedReturn`. A step that closes a guard without
  the internal panic is `ExitOk` or `ExitErr`. Both close exactly one
  guard and leave `top` at that guard's `expected`: unchanged when equal,
  trimmed on `stack_err_guard`'s Err path. `TypeCorrect` and PTL give the
  temporal statement.
- **Lemmas:**
  - `CloseInnermost`: `SubSeq(gs, 1, Len(gs)-1)` is a guard sequence one
    shorter, and its last element is a guard.
  - `OpenGuard`: `Append` gives a guard sequence one longer.
  - `PanicTyped`: the panic state is well-typed.
  - `CloseTyped`: closing a guard at a depth within bounds preserves
    `TypeOK`.
  - `NoCloseBalanced`.

### `ErrorProtocolProofs`

These hold for every value of the constants, from `MsgsAssumption`,
`DepthAssumption` (`MaxDepth >= 3`) and `ValsAssumption` (`MaxVals >= 2`).

- **`ProtocolTypeCorrect`: `Spec => []TypeOK`.** This theorem is not checked by a run:
  the values it types are Rust-typed in util.rs, so no plausible bug of
  the code breaks it. It is proved because the other proofs rest on it.
- **`PanicOpacity`: `Spec => []PanicNeverScriptVisible`.** No script
  frame and no user message handler ever holds a `WrappedPanic`, for any
  depth of nesting.

Neither invariant is inductive as it stands. Both follow from `IInv`,
which was first checked by TLC on both `ErrorProtocol` configurations:

- `FramesInv(frames)`: the frames are well typed, and each frame `i`
  satisfies `FrameOK`:
  - frame 1 is the host's root frame and frame 2 a host `hcall`: without
    this, a pop could empty the chain and `NearestBoundary` would have no
    boundary to find;
  - every `bnd` of a frame above the second points below it, and an
    `hcall` sits on a Rust frame: this is what makes `Deliver` land on a
    boundary and makes `HostResume`/`RustResume` return to a Rust frame;
  - a `lua` frame's stack holds no panic (the property itself);
  - a waiting result `res` that is Ok holds no panic, and an error result
    holds exactly one value (`ResOK`). This is the strengthening the
    property needs: `PcallResume` copies an Ok result into a script frame,
    so a panic in it would become visible one step later. An error result
    reaching `safe_pcall` is a panic only when it is re-raised, never
    copied.
- `Len(frames) <= MaxDepth`, `outcome` and `raised` are typed.

`IInvStep` has one case per disjunct of `Next`, each a lemma of its own
(`HostCallInv` ... `PcallResumeInv`). They rest on lemmas about the frame
chain (`PushInv`, `ReplaceInv`, `StkInv`, `DeliverInv`, `RaiseInv`,
`ReturnToCaller`) and about values (`PopErrorPanic`: `pop_error` of a
panic gives no `Error`; `TracebackKeepsPanic`: `error_traceback` returns a
panic unchanged and makes nothing else a panic; `ValueFacts`,
`ErrResultOK`). `IInvImplies` gives both invariants, and PTL the temporal
theorems.

### `PanicProofs`

From the same assumptions as `ErrorProtocolProofs`:

- **`PanicReachesHostHolds`: `Spec => []PanicReachesHost`.** At most
  one panic is raised per host call; an `ok` or `err` outcome means none
  was; a `panic` outcome carries the payload the callback panicked with.
- **`PanicCarriedDownHolds`: `Spec => PanicCarriedDown`**, an action
  property. While a panic `p` is in flight (`InFlight(p)`: the protected
  call on top holds `Err(WrappedPanic(p))`), every step either gives the
  host the outcome `panic p`, or leaves `p` in flight on a strictly lower
  protected call with `raised` unchanged.

`PanicReachesHost` speaks only of `raised` and `outcome`, but whether it
survives a step depends on where the `WrappedPanic` is in `frames`. The
inductive invariant is `PInv == IInv /\ PanicShape`, checked by TLC as an
invariant of the `errorprotocol` run before it was proved. `PanicShape`
adds:

- `Rest(frames)`: every frame above the host's `hcall` has a `bnd` that
  points at a boundary (`BndOK`), the root frame holds no result, and no frame below the top
  holds a result that is a panic. A panic is only ever a result of the
  top frame: frames below it wait in `lua_pcall` and cannot have a
  result yet. Without this, a `Return` or `PcallResume` could expose an
  older panic that `raised` no longer accounts for.
- While a host call runs (`Len(frames) >= 2`) the outcome is
  `NoOutcome`: the host sees an outcome only after its `hcall` returns.
- `Carried`: either no panic was raised, the outcome is not a panic and
  the top result holds none; or exactly one payload `p` was raised and
  it is in flight (`InFlight(p)`: the top frame is a boundary whose
  result is `Err(WrappedPanic(p))`, which is what `RustPanic`'s
  `Raise` leaves), or the call has ended and the host holds `panic p`.
  This is the link between `raised` and the frames: `PcallResume`,
  `RustResume` and `HostResume` each move an in-flight panic one
  boundary down or hand it to the host, and no user code can run in
  between, so no second payload can join `raised`.

`PInvStep` reuses `IInvStep` for `IInv'` and proves `PanicShape'` with
one lemma per action (`HostCallPInv` ... `ScriptReturnPInv`). They rest on
lemmas about the frame chain (`RestPush`, `RestCut`, `RestStk`,
`PushCallRest`, `ReturnRest`, `RaiseRest`: a raise leaves `Rest` true, and a
raised panic becomes, unchanged, the result of the boundary it unwinds
to) and about the two halves of `Carried` (`QuietCarried`,
`InFlightCarried`, `DeepCarried`). `PInvImplies` gives the property
(with `FS_EmptySet`/`FS_Singleton` for the cardinality), and PTL the
theorem.

`PanicCarriedDown` follows from the same invariant. `CarriedDownStep`
shows that under `PInv` with a panic in flight, only the three
continuations are enabled:

- the top frame is a boundary, so no script or callback runs;
- `Len(frames) >= 2`, so the host is waiting, and the outcome is
  `NoOutcome`, so `HostNext` is disabled.

`PcallResumeCarries`, `RustResumeCarries` and `HostResumeCarries` follow
each continuation. For the re-raise, `RaiseRest` has the conjunct that a
raised panic lands below the raising frame: the `xpcall_msgh` short cut
sends it past any user handler, and `error_traceback` passes it
unchanged. Stuttering steps satisfy `[A]_vars` trivially, and PTL
combines the step lemma with `[]PInv`.

### `FinaliserProofs`

These hold for every set of slots and events, from `UdsAssumption`
(`NoUd` is not a slot).

- **`FinaliserTypeCorrect`: `Spec => []TypeOK`**, in particular
  `drops[u] \in 0..1`: no value is dropped twice.
- **`GcGuardRestores`: `Spec => []GcRestored`.**
- **`NoShadowingHolds`: `Spec => []NoShadowing`.**
- **`FinaliserRefinement`: `Spec => ImplementsLifecycle`**, i.e.
  `Finaliser` implements `UserdataLifecycle` under `LifeBar`.

None of the invariants is inductive. `IInv`, checked by TLC on the
`finaliser` instance (21,814 distinct states under symmetry) before it was proved, adds:

- the guard and the collector agree: a closed guard means the collector
  is as the host asked, a `stopped` guard means it is off and the host
  wants it on, `notrunning` means both are off; and the guard is closed
  exactly when no guarded operation is open. This is what makes a
  collection step (which needs `gcRunning`) happen only outside a guard,
  so `NoShadowing`, and what makes `GcGuardExit` restore the host's
  setting, so `GcRestored`;
- the userdata being allocated is reachable and has no metatable yet, and
  the value `pop_error` prints is reachable: so the object a finaliser
  runs on is never the one being built, and `Finish` changes no slot's
  place in the lifecycle;
- per slot (`SlotOK`): a free slot has no metatable; a slot is marked for
  finalisation exactly when its metatable has `__gc`; and it has been
  dropped once exactly when it carries the destructed metatable. The last
  two are why a second `__gc` cannot happen: finalising clears the mark
  and installs a metatable without `__gc`.

`IInvStep` has one lemma per action (`StartWrapInv` ...
`HostPopErrorInv`); `FinaliseFacts` is what `userdata_destructor` does to
the slot it finalises, used by both collection actions. The refinement
proof maps `Init` to the abstract `Init` and every step to a step or a
stutter (`RefineStep`): an allocation is `Create`, a finalisation
`Destroy` (`FinaliseDestroys`), a script event or `pop_error` `Use`, and
everything else leaves `LifeBar`, `drops` and `lastUse` alone
(`LifeBarSame`).

### Only model-checked

- `PanicEventuallyReported` (liveness under weak fairness). TLAPS does
  not handle liveness under fairness or `ENABLED`, so it stays with the
  `errorprotocol` run.

No module with a theorem uses a `RECURSIVE` operator; the modules' pure
helpers are non-recursive, so nothing is left to induction over data.

## 5. Not modelled, and why

- **Stack exhaustion inside callbacks and handlers.** The `ErrorProtocol`
  trampolines and handlers always get the stack space they ask for. The
  paths not reached are:
  - `luaL_checkstack` raising a string error in `callback_error` (line
    216);
  - `RCALL_STACK_ERR` replacing a typed error (line 242);
  - the aborts when no space is left to raise a panic (lines 222, 252);
  - the traceback being skipped in `error_traceback` (lines 267, 269).

  PROJECT.json lists these as hazards.
- **The VM's C-call limit.** The VM calls `xpcall_msgh` or
  `error_traceback` at the current C depth. At `LUAI_MAXCCALLS` that call
  fails, and a panic in flight would be replaced by a string. The limit is
  VM code outside `src/`. It is the first planned extension of `Raise`.
- **`Finaliser` and `ErrorProtocol` are separate models.** A
  `GarbageCollectorError` produced by a finaliser is recorded in
  `gcError`; how it then travels through protected calls and trampolines
  is `ErrorProtocol`'s business, where it is one more recoverable error.
  The collector's algorithm (which object becomes unreachable when,
  incremental steps, generations) is abstracted to "any pending object
  may be finalised at an allocation while the collector runs".
- **`WrappedPanic`'s own `Drop`.** The envelopes' payloads cannot panic
  in `Drop` in the model; only a Rust value's may.
- **The exactly-once payload of `WrappedPanic`.** The model consumes the
  envelope with the single `pop_error` that sees it.
  `PanicNeverScriptVisible` shows that no script can keep an envelope in
  the modelled calls. Coroutines and globals, the other ways to keep one,
  are not modelled.
- **The registry writes of `init_error_metatables`, `push_string`,
  `get_userdata`, `main_state`.** These are one-time setup or single VM
  calls. What the metatables do is modelled (`HasGc`, `DestructedMethods`,
  `error_tostring`); the identity checks they make possible are the
  predicates `IsWrappedError` and `IsWrappedPanic`.

## 6. Plan

In order:

1. `StackGuard` with proofs (done).
2. `ErrorProtocol` (done).
3. `ErrorProtocolProofs`: `ProtocolTypeCorrect` and `PanicOpacity`
   (done), and `PanicProofs`: `PanicReachesHost` from `IInv` plus
   `PanicShape`, which relates `raised` to the panic in flight (done).
4. Stack exhaustion in `ErrorProtocol`. A nondeterministic
   `lua_checkstack` failure in the trampolines and handlers, with
   properties on which error reaches the host.
5. The C-call limit in `Raise`. `PanicReachesHost` is expected to fail
   there; the plan is a violation run and a finding.
6. `Finaliser`, `UserdataLifecycle` and `FinaliserProofs` (done),
   including the refinement proof. Next, composing `Finaliser` with
   `ErrorProtocol`, so that the `GarbageCollectorError` of a finaliser
   travels through the protected calls.
7. An abstract specification of the protected-call contract (a call ends
   in Ok, Err, or the panic raised inside it), with `ErrorProtocol` as its
   refinement.
