# TLA+ models of luisa-compute-rs

This directory holds TLA+ models of the host-side runtime of `luisa_compute`
(`src/luisa_compute/src/runtime.rs`) and of the reverse-mode differentiation
that the kernels in `src/luisa_compute/tests/autodiff.rs` rely on. The models
are checked with TLC. Every module starts with a comment that names the code
it models. `PROJECT.json` maps every definition to the source lines it
translates, lists the runs, mutants, findings and hazards.

## 1. Inventory

### Components

| Component | Source | State it keeps | Operations |
|---|---|---|---|
| Device | runtime.rs 9-24, 77-169 | `Arc<DeviceHandle>` holding the `Arc<dyn Backend>` and the default stream id | `create_buffer`, `create_bindless_array`, `create_tex2d/3d`, `default_stream`, `create_stream`, drop of the last `Arc<DeviceHandle>` (destroys the default stream) |
| Resource handles | runtime.rs 83-149 (handle types are in `resource.rs`, not in this repository) | `Arc<BufferHandle>` etc.: a Device clone and the backend handle; `Buffer::len` | creation; drop of the last Arc frees the backend resource |
| Streams | runtime.rs 150-219 | `Arc<StreamHandle>`, `Default` (shares the device's stream) or `NonDefault` (owns one) | `handle`, `synchronize` (blocks), `command_buffer`, drop (`destroy_stream` for `NonDefault` only) |
| CommandBuffer and Command | runtime.rs 220-258 | the stream Arc and a `Vec<Command>`; each `Command` has the backend descriptor and a `resource_tracker` | `push`, `extend`, `commit` (one `Backend::dispatch`), drop without commit |
| `submit_default_stream_and_sync` | runtime.rs 240-251 | a temporary default Stream and CommandBuffer | extend, commit (`?` returns on Err), synchronize |
| Backend | external (`crate::backend`) | allocations, streams, queued work | create/free, `dispatch`, `synchronize_stream`, `destroy_stream` |
| Differentiation trace | engine outside this repository; used by every test of tests/autodiff.rs | per scope: nodes in creation order, leaf adjoints | `autodiff`, `requires_grad`, node creation, `backward`, `gradient`, `detach` |
| Branch-aware gradient router | same; tests `autodiff_select*`, `autodiff_if_*`, `autodiff_switch`, `autodiff_callable` | per-lane branch predicates | `select`, `if_!`, `switch`, callable boundary |

### How they interact

The program owns a `Device`. Every resource and stream handle carries a clone
of the device (resources: a `Device`; streams: an `Arc<DeviceHandle>`), so the
backend connection and the default stream live until the last of them is
dropped. A `CommandBuffer` holds an `Arc<StreamHandle>`; each `Command` in it
holds its resources through its tracker. `commit` sends the command
descriptors in one `dispatch` call and then drops the buffer, the stream Arc
and all trackers. The backend runs dispatched work asynchronously, in order per
stream; `Stream::synchronize` blocks the calling thread until the stream has
drained. `Device` is `Send + Sync`, so several host threads may use one device.

The differentiation engine runs at kernel-authoring time: the kernel body
records a trace; `backward` walks it in reverse; the gradients become part of
the kernel the runtime later dispatches.

### What is hard

* Drop cascades: the last drop of any holder may free a resource, destroy a
  stream, and destroy the device's default stream, in one step, whichever
  holder happens to go last (the program's value, a CommandBuffer, a tracker).
* Asynchrony: host steps interleave with the backend running queued work;
  another host thread may drop handles while one thread is blocked in a
  synchronize.
* Failure: any backend call may return `Err`; `commit` consumes the buffer
  either way; the helper returns early through `?`.
* Integer width: the byte size of a buffer is computed in `usize`.
* Differentiation: accumulation over shared operands (diamonds), detach,
  per-lane masking of `select`/`if`/`switch` (a NaN computed on an untaken
  branch must not reach a gradient), nesting, and callable boundaries.

### What makes each component correct

* Resource lifecycle: each backend handle is released exactly once, exactly
  when its last owner is gone; the default stream is destroyed only when the
  device is; no live stream handle names a destroyed stream; a buffer never
  claims more elements than were allocated.
* Command execution: a commit is one dispatch of all recorded commands in
  order, or nothing; a queued command never touches a freed resource;
  `submit_default_stream_and_sync` returns `Ok` only when its batch has run.
* Differentiation: the gradient of every leaf equals the derivative of the
  lane's taken path (the reference definition); untaken branches contribute
  exactly zero, never NaN; detached values contribute nothing; the scope's
  state machine rejects misuse.

## 2. Plan

1. `Runtime` (done): Device, resource and stream handles, CommandBuffer,
   commit, synchronize, the submit helper, the backend as an asynchronous FIFO
   per stream. `MCRuntime` instantiates it.
2. `AutodiffTape` (done): one differentiation scope over a per-lane view of
   a shared trace, with the kernel bodies of 34 tests in `AutodiffTests`.
3. `AutodiffScope` (done): the abstract scope contract, refined by
   `AutodiffTape` through `INSTANCE AutodiffScope WITH` a mapping.
4. `AutodiffCallable` (done): the kernel and the callable of
   `autodiff_callable`, composed. The callable's scope is an `AutodiffTape`
   scope, and its gradients return through by-reference parameters.
5. A `ResourceLifetime` abstract spec (each handle goes none -> live ->
   released once) was considered and left out. The actions of `Runtime` only
   ever move a handle forward. `ReleasedExactlyWhenUnreferenced` already pins
   the release count to 0 or 1 in every state. A refinement would restate
   both facts.

## 3. Modules and runs

### Runtime (runtime.rs)

State: the program's holders (`userDevice`, `userRes`, `userStream`), the
command buffers `cb` (state, bound stream handle, recorded commands with their
tracked resources), the handle states (`shState`, `deviceAlive`), the backend
(`resState`, `bStream`, per-stream `queue`, and counters of free and
`destroy_stream` calls), and the threads blocked in a synchronize (`pc`,
`pcStream`, `pcCmds`). `completed` records the commands a submit helper
reported done.

Reference counts are represented by their holders. `Settle` runs, in the same
step as the drop that causes it, every Drop impl the drop triggers: backend
free for unreferenced resources, `StreamHandle::drop` (`StreamHandleDrop`:
destroy only for `NonDefault`), and `DeviceHandle::drop` when no holder of the
device is left (`DeviceReferenced`).

Actions: `CreateBuffer` (size `ElemSize * n` panics on overflow in a debug
build, wraps modulo `2^UsizeBits` in release), `CreateResource` (bindless
array, textures with the format assert), `DefaultStreamCall`, `CreateStream`,
`DropDevice`, `DropResource`, `DropStream`, `NewCommandBuffer`, `Record`
(push/extend), `Commit`, `DropCommandBuffer`, `Synchronize`,
`SubmitDefaultStreamAndSync`, `SyncReturn`, `BackendExecute`. Backend calls
may fail when `CanFail`; a failed dispatch enqueues nothing. Allocation
failures are not modelled: they change no state.

Fairness: none, and no liveness property is checked. Every eventual
property of this runtime would have to come from the backend. For example,
work queued on a destroyed stream still runs, and a synchronize is answered.
Both are up to a backend that is not in this repository, and the weak
fairness that would be assumed of it would decide the outcome, whatever
runtime.rs does. Nothing obliges the program to drop, commit or synchronize.

Runs (all on `MCRuntime`):

* `runtime_safety` (`MCRuntime.cfg`, pass): one buffer, one texture, two
  `default_stream()` handles, one created stream, two command buffers, one
  thread that can block, two commands, batches of up to two, debug build,
  failures on. Checks `ReleasedExactlyWhenUnreferenced`,
  `LiveHandleHasLiveStream`, `SubmitAndSyncWaits`. (`BufferFitsAllocation`
  is checked only in the release build below: in a debug build it restates
  the overflow guard of `CreateBuffer`.) It also checks the action property `DispatchOnlyToLiveStreams`: no step
  appends work to the queue of a destroyed backend stream.
  * This covers a Stream dropped while a CommandBuffer made from it still
    records. Commit then dispatches through the buffer's own
    `Arc<StreamHandle>`.
  * Its mutant lets the buffer only borrow the handle. Dropping the Stream
    then destroys the backend stream, and the later commit hands it work.
  About 760k distinct states, under a minute. Two default handles are what it
  takes to drop one while the other is still in use; two command buffers let
  a user buffer and the helper's buffer coexist. Deadlock checking is off:
  once the bounded ids are used up and everything is dropped the program has
  nothing left to do.
* `release_size_overflow` (`MCRuntimeOverflow.cfg`, violation):
  `BufferFitsAllocation` fails in a release build with `count = 5`,
  `size_of = 4`, 4-bit usize: 20 wraps to 4 bytes for a 5-element buffer.
* `tracker_dropped_at_commit` (`MCRuntimeTracker.cfg`, violation):
  `NoUseAfterFree` fails: after commit (here inside
  `submit_default_stream_and_sync` while its thread waits), the program drops
  its buffer; since commit already dropped the tracker, the backend frees the
  buffer under the queued command.

* `runtime_two_threads` (`MCRuntimeThreads.cfg`, pass, about 270k states): the
  same invariants as `runtime_safety` (except the buffer-size one), but with
  two host threads, which `unsafe impl Sync for Device` allows. Both threads
  can be inside `submit_default_stream_and_sync` at once on the shared default
  stream. Alternatively, one is blocked in `synchronize` while the other
  drops handles.

The `usize` width is abstracted to 4 bits: what matters is that the product
can exceed it, which the count 5 makes happen.

### AutodiffTape, AutodiffScope, AutodiffTests (tests/autodiff.rs)

The differentiation engine is not in this repository: its behaviour is taken
from the spec (sections 4.3, 4.4, 7) and marked spec-modelled in
`PROJECT.json`. What is modelled from the code is what the tests run through
it: `AutodiffTests` writes each test's kernel body as a trace. Node i is the
i-th value the body creates: buffer reads and vars made before
`autodiff(|| ...)` first (`outer` of them), then the scope's operations in
order; float literals are constant nodes, loads of vars and struct or vector
fields are `Copy` nodes. `expect` holds what the test's `assert_eq!` lines
check.

The `autodiff_helper` bodies are written the same way. The intrinsics
`rsqrt`, `abs` and `lerp` are nodes of their own, with their local rules
(`-rsqrt(a) / 2a`, the sign of `a`, and `1 - t`, `t`, `b - a`). The vector
and matrix operations are recorded as the scalar products, sums and square
roots they compute: `length` is `sqrt(v . v)`, `normalize().c` is
`v.c * rsqrt(v . v)`, `distance` is `|a - b|`, a matrix product is one dot
product per output entry, and the determinant is `a . (b x c)`. For the
matrix tests, only the entries that reach the returned component are listed,
and the copies made by `make_float3` are left out (a copy forwards its
adjoint unchanged). Inputs are picked inside each test's range so that every
value is exact: perfect squares under `sqrt` and `rsqrt`, vectors of length
3 for `length`, `normalize` and `distance`, and two varying inputs per
matrix test.

State of `AutodiffTape`: the body `prog`, each lane's inputs, the scope phase
(`idle`, `recording`, `done`, `closed`, `error`) and the misuse error, the
position `pcS` in the body's call sequence (`ScriptOf`: the `requires_grad`
calls, the node-creating operations, `backward`, the `gradient` calls, as
`autodiff_helper` and every test issue them), the recorded node count, the
leaves, and per lane the adjoints and the gradients read. Actions: `Enter`,
`RequiresGrad`, `RecordNode`, `Backward`, `Gradient`, `Exit`. `Backward` is
one step: for every lane it seeds the output's adjoint to one and visits the
nodes in reverse creation order (`BackFrom`); a node propagates only if it is
active in the lane, and only along edges whose mask holds (`select` on its
predicate, a phi on its case predicate; `detach` has no edge). Each
contribution is added to the operand's adjoint. The trace is shared by all
lanes, as the spec requires; what differs per lane is which predicates hold.

Values are exact rationals with a NaN: the chosen inputs make every program
exact (square roots are taken only of perfect squares or of negatives, which
give NaN), and NaN
propagates as in IEEE 754 (0 * NaN = NaN), which is what makes masking by
multiplication wrong. `RefD` is the reference: the forward chain rule along the
lane's taken path, written recursively over the node graph.

`AutodiffScope` is the contract: Idle -> Recording -> BackwardDone -> Closed,
the misuse errors, and `gradient(v)` per lane equal to a parameter `Deriv`.
`AutodiffTape` maps onto it with `Deriv` taken as `RefD` of the body's
output; `RecordNode` is a stuttering step of the contract.

Runs (all on `MCAutodiff`, two lanes with independent inputs, all 34 bodies):

* `autodiff_tests` (`MCAutodiff.cfg`, pass, lane symmetry): `GradientsAsAsserted`
  (every gradient equals the test's asserted value: 4 / 0 / 0.5 for select,
  x*y for detach, 0 and 0.5 where the untaken branch is NaN, 8 or 4 through the
  nested switch, 4 / 2 / 0.5 per switch key).
* `autodiff_refines_scope` (`MCAutodiffRefinement.cfg`, pass): `ScopeRefinement`,
  which also covers the 25 helper-driven bodies, where the tests compare with
  finite differences. Among them:
  * `dot` and `normalize`, where an operand reaches the output along two
    paths;
  * the matrix products and determinant.
  Two failures it cannot show:
  * Backward seeds every adjoint with zero, so a leaf the output never
    reaches reads zero by construction.
  * The nested branches of `if_phi2..4` carry only finite values, so an inner
    phi visited in a lane that skipped the outer branch adds 0 * finite = 0.
* `untracked_value_rule` (`MCAutodiffStrict.cfg`, violation): with
  `StrictUntracked = TRUE` (the spec's rule) `ScopeBodiesLegal` fails at the
  first `requires_grad` of every test, since all of them mark values read
  before the scope. With the default `StrictUntracked = FALSE` the property
  holds whatever the bodies do, so it is checked only here.

Bounds: two lanes are what it takes for lanes of one launch to take different
branches over one trace. Each lane's backward is computed independently over
the shared trace, so the lanes do not interleave. Inputs are two or three values per input, chosen so
each side of every branch is taken (for `if_phi2..4` the value 4 is added
because the test's range [0, 1) never reaches the `x > 3` case). There is
nothing to interleave inside one scope (the trace is single-threaded, spec
section 5), so each run is a single script per choice of inputs. No fairness
is assumed and no liveness is checked here.

### AutodiffCallable (tests/autodiff.rs 1086-1151)

This module composes the caller (the kernel) with the callee (the callable).
Its state is the `AutodiffTape` state of the callee's scope plus the kernel's
position `cpc`, its vars `dx`/`dy` (`vx`, `vy`: the callable's `Var`
parameters refer to them), and the values it writes to its output buffers.

Actions:
* `Call`: the callable is entered and opens its own scope.
* `CalleeStep`: `requires_grad`, the switch, `backward`.
* `CalleeGradient`: `gradient` together with the store through the reference,
  `*vx.get_mut() = gradient(x)`.
* `Return`: the scope ends.
* `CallerWrite`: `buf_dx.write(tid, *dx)`.

Run `autodiff_callable` (`MCAutodiffCallable.cfg`, pass) uses two lanes and
every switch key. `CallerReadsCalleeGradients` checks that the values the
kernel writes are the ones the test asserts. The mutant that passes the vars
by value gives the kernel its inputs back instead.

## 4. Not modelled

* Context bootstrap: commented out in runtime.rs.
* The backend itself and the resource handle types (`resource.rs`), beyond the
  contract above; `DropResource` and `BackendExecute` are modelled from the
  spec.
* The transcendental intrinsics: sin, cos, exp, exp2, ln, log2, log10,
  asin, acos, atan, sinh, cosh, tanh and pow.
  * Their values are irrational on their test ranges, except at a point such
    as 0 or 1.
  * There, the local rule (cos 0 = 1, ...) would be a table that `LocalD`
    and `RefD` share, so the check would compare the table with itself.
* Three tests record the same nodes as bodies that are modelled:
  * `autodiff_vec3_reduce_add` and `_mul` record the same nodes as the manual
    forms;
  * `autodiff_matmul_4` records the same nodes as `autodiff_matmul_2`.
* `autodiff_vec3_cross_y` returns `v.x()`, exactly like `cross_x`, so the y
  component of `cross` is never differentiated by any test. This is a gap in
  the tests: the model has nothing to compare for it.
* Finite-difference statistics of `autodiff_helper`: floating-point error
  distributions are out of TLC's reach.
* `test_layout`: a size comparison of FFI structs.
