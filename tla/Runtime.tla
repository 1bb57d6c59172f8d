------------------------------ MODULE Runtime ------------------------------
(***************************************************************************)
(* The host-side resource and execution runtime of luisa_compute           *)
(* (src/luisa_compute/src/runtime.rs): a Device owning a backend and a     *)
(* default stream, reference-counted resource and stream handles whose     *)
(* drop calls the backend exactly once, command buffers that record        *)
(* commands (each with a resource tracker) and commit them as one backend  *)
(* dispatch, Stream::synchronize and submit_default_stream_and_sync.       *)
(*                                                                         *)
(* The backend runs asynchronously: a dispatched batch is appended to the  *)
(* stream's queue and the backend executes queued commands one at a time   *)
(* in the background (BackendExecute).  Reference counts are not counters  *)
(* here but the holders themselves: a handle is referenced while a user    *)
(* value or a recording command buffer holds it, and every step that drops *)
(* holders also runs the Drop impls that the last drop triggers (Settle).  *)
(***************************************************************************)
EXTENDS Integers, FiniteSets, Sequences

CONSTANTS
  Buffers,          \* ids of Buffer<T> handles the program may create
  Textures,         \* ids of Tex2D/Tex3D handles
  BindlessArrays,   \* ids of BindlessArray handles
  DefaultHandles,   \* ids of StreamHandle::Default values (one per default_stream() call)
  NonDefaultStreams,\* ids of streams made by create_stream (handle id = backend id)
  DefaultStream,    \* the backend id of the device's default stream
  CmdBufs,          \* ids of CommandBuffer values
  Threads,          \* host threads that may block in a synchronize
  MaxCmds,          \* bound: number of Command values the program builds
  MaxBatch,         \* bound: commands passed to one extend
  ElemSize,         \* size_of::<T>() of the buffers' element type
  Counts,           \* element counts passed to create_buffer
  UsizeBits,        \* width of usize (abstracted: overflow is what matters)
  Build,            \* "debug" (overflow panics) or "release" (overflow wraps)
  FormatSupported,  \* BOOLEAN: T::pixel_formats().contains(&format)
  CanFail,          \* BOOLEAN: backend calls may return Err
  NoHandle

ASSUME Build \in {"debug", "release"}
ASSUME DefaultStream \notin NonDefaultStreams
ASSUME NoHandle \notin DefaultHandles \cup NonDefaultStreams
ASSUME MaxCmds \in Nat /\ MaxBatch \in Nat \ {0} /\ UsizeBits \in Nat \ {0}

Resources == Buffers \cup Textures \cup BindlessArrays
Handles == DefaultHandles \cup NonDefaultStreams
BackendStreams == NonDefaultStreams \cup {DefaultStream}
CmdIds == 1..MaxCmds
Command == [id : CmdIds, res : SUBSET Resources]
UsizeMod == 2^UsizeBits

VARIABLES
  userDevice,   \* the program still holds a Device clone of its own
  deviceAlive,  \* the Arc<DeviceHandle> has not been dropped
  userRes,      \* userRes[r]: the program holds the Buffer/Tex/BindlessArray r
  resState,     \* backend resource: "none", "live" or "freed"
  freeCalls,    \* number of backend free calls made for each resource
  bufLen,       \* Buffer::len of each buffer
  bufBytes,     \* bytes the backend allocated for each buffer
  userStream,   \* userStream[h]: a Stream value owning handle h is alive
  shState,      \* Arc<StreamHandle> h: "none", "live" or "dropped"
  bStream,      \* backend stream: "none", "live" or "destroyed"
  destroyCalls, \* number of destroy_stream calls made for each backend stream
  cb,           \* command buffers: state, bound stream handle, recorded commands
  nextCmd,      \* id of the next Command built
  queue,        \* queue[s]: commands dispatched to backend stream s, not yet run
  pc,           \* pc[t]: "idle", "sync" (Stream::synchronize) or "submitSync"
  pcStream,     \* the stream handle a blocked thread waits on
  pcCmds,       \* ids committed by a thread's submit_default_stream_and_sync
  completed     \* ids some submit_default_stream_and_sync reported done with Ok

vars == <<userDevice, deviceAlive, userRes, resState, freeCalls, bufLen,
          bufBytes, userStream, shState, bStream, destroyCalls, cb, nextCmd,
          queue, pc, pcStream, pcCmds, completed>>

-----------------------------------------------------------------------------
(* StreamHandle::handle: the backend stream a handle stands for.           *)
StreamOf(h) == IF h \in DefaultHandles THEN DefaultStream ELSE h

PendingIds == UNION {{queue[s][i].id : i \in DOMAIN queue[s]} : s \in BackendStreams}

(* Holders of Arc<BufferHandle> (and the other resource handles): the      *)
(* program's own value and the resource_tracker of every recorded Command. *)
ResReferenced(r, ur, cbs) ==
  \/ ur[r]
  \/ \E c \in CmdBufs : cbs[c].state = "recording"
                        /\ \E i \in DOMAIN cbs[c].cmds : r \in cbs[c].cmds[i].res

(* Holders of Arc<StreamHandle>: the Stream value and every CommandBuffer  *)
(* bound to it that has not been committed or dropped.                    *)
(* Mutant of HandleReferenced: a CommandBuffer borrowing the handle        *)
(* instead of holding its own Arc clone.                                   *)
HandleReferencedStreamsOnly(h, us, cbs) == us[h]

HandleReferenced(h, us, cbs) ==
  \/ us[h]
  \/ \E c \in CmdBufs : cbs[c].state = "recording" /\ cbs[c].stream = h

(* Mutant of DeviceReferenced: a StreamHandle without its Arc<DeviceHandle>. *)
DeviceReferencedNoStreams(ud, liveRes, liveHandles) ==
  ud \/ liveRes /= {}

(* Holders of Arc<DeviceHandle>: the program's Device clones, the Device  *)
(* clone inside every resource handle, and the Arc<DeviceHandle> inside    *)
(* every StreamHandle (Default and NonDefault).                            *)
DeviceReferenced(ud, liveRes, liveHandles) ==
  ud \/ liveRes /= {} \/ liveHandles /= {}

(***************************************************************************)
(* Settle runs the Drop impls triggered when a step leaves holders         *)
(* sh, ur, us, cbs, ud: every resource handle left unreferenced calls the      *)
(* backend free; every StreamHandle left unreferenced runs                 *)
(* StreamHandle::drop (destroy_stream for NonDefault, nothing for Default) *)
(* and releases its Arc<DeviceHandle>; when no Device clone, resource      *)
(* handle or stream handle is left, DeviceHandle::drop destroys the        *)
(* default stream.                                                         *)
(***************************************************************************)
(* StreamHandle::drop: destroy_stream for a NonDefault handle only.       *)
(* Mutant of StreamHandleDrop: the Default arm destroys the stream too.   *)
StreamHandleDropAll(dropped) == {StreamOf(h) : h \in dropped}

StreamHandleDrop(dropped) == dropped \cap NonDefaultStreams

Settle(sh, ur, us, cbs, ud) ==
  LET freed   == {r \in Resources : resState[r] = "live" /\ ~ResReferenced(r, ur, cbs)}
      dropped == {h \in Handles : sh[h] = "live" /\ ~HandleReferenced(h, us, cbs)}
      devRefd == DeviceReferenced(ud,
                   {r \in Resources : resState[r] = "live"} \ freed,
                   {h \in Handles : sh[h] = "live"} \ dropped)
      devDrop == deviceAlive /\ ~devRefd
      destroyed == StreamHandleDrop(dropped)
                     \cup (IF devDrop THEN {DefaultStream} ELSE {})
  IN /\ userRes' = ur
     /\ userStream' = us
     /\ cb' = cbs
     /\ userDevice' = ud
     /\ resState' = [r \in Resources |-> IF r \in freed THEN "freed" ELSE resState[r]]
     /\ freeCalls' = [r \in Resources |-> freeCalls[r] + IF r \in freed THEN 1 ELSE 0]
     /\ shState' = [h \in Handles |-> IF h \in dropped THEN "dropped" ELSE sh[h]]
     /\ deviceAlive' = (deviceAlive /\ devRefd)
     /\ bStream' = [s \in BackendStreams |->
                      IF s \in destroyed THEN "destroyed" ELSE bStream[s]]
     /\ destroyCalls' = [s \in BackendStreams |->
                           destroyCalls[s] + IF s \in destroyed THEN 1 ELSE 0]

-----------------------------------------------------------------------------
(* The program holds a freshly created Device with a live default stream. *)
Init ==
  /\ userDevice = TRUE
  /\ deviceAlive = TRUE
  /\ userRes = [r \in Resources |-> FALSE]
  /\ resState = [r \in Resources |-> "none"]
  /\ freeCalls = [r \in Resources |-> 0]
  /\ bufLen = [b \in Buffers |-> 0]
  /\ bufBytes = [b \in Buffers |-> 0]
  /\ userStream = [h \in Handles |-> FALSE]
  /\ shState = [h \in Handles |-> "none"]
  /\ bStream = [s \in BackendStreams |-> IF s = DefaultStream THEN "live" ELSE "none"]
  /\ destroyCalls = [s \in BackendStreams |-> 0]
  /\ cb = [c \in CmdBufs |-> [state |-> "none", stream |-> NoHandle, cmds |-> <<>>]]
  /\ nextCmd = 1
  /\ queue = [s \in BackendStreams |-> <<>>]
  /\ pc = [t \in Threads |-> "idle"]
  /\ pcStream = [t \in Threads |-> NoHandle]
  /\ pcCmds = [t \in Threads |-> {}]
  /\ completed = {}

-----------------------------------------------------------------------------
(* Command values the program builds and records: each command's resource *)
(* tracker holds clones of resource handles the program itself holds.      *)
NewCmds(k, res) == [i \in 1..k |-> [id |-> nextCmd + i - 1, res |-> res[i]]]

CmdChoices(k) == [1..k -> SUBSET {r \in Resources : userRes[r]}]

DispatchOutcomes == IF CanFail THEN BOOLEAN ELSE {TRUE}

(* A stream handle is owned by a thread inside submit_default_stream_and_sync *)
HelperOwned(h) == \E t \in Threads : pc[t] = "submitSync" /\ pcStream[t] = h

(* Mutant of CreateBuffer: the size taken unchecked, as if no usize bound *)
(* applied to it.                                                          *)
CreateBufferUnchecked(b, n) ==
  /\ userDevice
  /\ resState[b] = "none"
  /\ resState' = [resState EXCEPT ![b] = "live"]
  /\ userRes' = [userRes EXCEPT ![b] = TRUE]
  /\ bufLen' = [bufLen EXCEPT ![b] = n]
  /\ bufBytes' = [bufBytes EXCEPT ![b] = ElemSize * n]
  /\ UNCHANGED <<userDevice, deviceAlive, freeCalls, userStream, shState,
                 bStream, destroyCalls, cb, nextCmd, queue, pc, pcStream,
                 pcCmds, completed>>

(* Device::create_buffer: size_of::<T>() * count in usize, which panics on *)
(* overflow in a debug build and wraps in a release build.                 *)
CreateBuffer(b, n) ==
  LET bytes == ElemSize * n
  IN /\ userDevice
     /\ resState[b] = "none"
     /\ Build = "debug" => bytes < UsizeMod
     /\ resState' = [resState EXCEPT ![b] = "live"]
     /\ userRes' = [userRes EXCEPT ![b] = TRUE]
     /\ bufLen' = [bufLen EXCEPT ![b] = n]
     /\ bufBytes' = [bufBytes EXCEPT ![b] = bytes % UsizeMod]
     /\ UNCHANGED <<userDevice, deviceAlive, freeCalls, userStream, shState,
                    bStream, destroyCalls, cb, nextCmd, queue, pc, pcStream,
                    pcCmds, completed>>

(* Device::create_bindless_array, create_tex2d and create_tex3d: the       *)
(* texture constructors assert that the pixel format fits the texel type.  *)
CreateResource(r) ==
  /\ userDevice
  /\ resState[r] = "none"
  /\ r \in Textures => FormatSupported
  /\ resState' = [resState EXCEPT ![r] = "live"]
  /\ userRes' = [userRes EXCEPT ![r] = TRUE]
  /\ UNCHANGED <<userDevice, deviceAlive, freeCalls, bufLen, bufBytes,
                 userStream, shState, bStream, destroyCalls, cb, nextCmd,
                 queue, pc, pcStream, pcCmds, completed>>

(* Device::default_stream: a new StreamHandle::Default sharing the        *)
(* device's default backend stream; no backend call.                      *)
DefaultStreamCall(h) ==
  /\ userDevice
  /\ h \in DefaultHandles
  /\ shState[h] = "none"
  /\ shState' = [shState EXCEPT ![h] = "live"]
  /\ userStream' = [userStream EXCEPT ![h] = TRUE]
  /\ UNCHANGED <<userDevice, deviceAlive, userRes, resState, freeCalls, bufLen,
                 bufBytes, bStream, destroyCalls, cb, nextCmd, queue, pc,
                 pcStream, pcCmds, completed>>

(* Device::create_stream: the backend creates a stream owned by a new     *)
(* StreamHandle::NonDefault.                                               *)
CreateStream(s) ==
  /\ userDevice
  /\ bStream[s] = "none"
  /\ bStream' = [bStream EXCEPT ![s] = "live"]
  /\ shState' = [shState EXCEPT ![s] = "live"]
  /\ userStream' = [userStream EXCEPT ![s] = TRUE]
  /\ UNCHANGED <<userDevice, deviceAlive, userRes, resState, freeCalls, bufLen,
                 bufBytes, destroyCalls, cb, nextCmd, queue, pc, pcStream,
                 pcCmds, completed>>

(* The program drops its own Device clone (not while a thread borrows it  *)
(* inside submit_default_stream_and_sync).                                 *)
DropDevice ==
  /\ userDevice
  /\ \A t \in Threads : pc[t] /= "submitSync"
  /\ Settle(shState, userRes, userStream, cb, FALSE)
  /\ UNCHANGED <<bufLen, bufBytes, nextCmd, queue, pc, pcStream, pcCmds, completed>>

(* The program drops a Buffer, texture or bindless array it holds.         *)
DropResource(r) ==
  /\ userRes[r]
  /\ Settle(shState, [userRes EXCEPT ![r] = FALSE], userStream, cb, userDevice)
  /\ UNCHANGED <<bufLen, bufBytes, nextCmd, queue, pc, pcStream, pcCmds, completed>>

(* The program drops a Stream (not one a thread is synchronizing on).      *)
DropStream(h) ==
  /\ userStream[h]
  /\ \A t \in Threads : pcStream[t] /= h
  /\ Settle(shState, userRes, [userStream EXCEPT ![h] = FALSE], cb, userDevice)
  /\ UNCHANGED <<bufLen, bufBytes, nextCmd, queue, pc, pcStream, pcCmds, completed>>

(* Stream::command_buffer: a CommandBuffer holding a clone of the handle.  *)
NewCommandBuffer(h, c) ==
  /\ userStream[h]
  /\ ~HelperOwned(h)
  /\ cb[c].state = "none"
  /\ cb' = [cb EXCEPT ![c] = [state |-> "recording", stream |-> h, cmds |-> <<>>]]
  /\ UNCHANGED <<userDevice, deviceAlive, userRes, resState, freeCalls, bufLen,
                 bufBytes, userStream, shState, bStream, destroyCalls, nextCmd,
                 queue, pc, pcStream, pcCmds, completed>>

(* CommandBuffer::push and ::extend: append k commands in order.           *)
Record(c, k) ==
  /\ cb[c].state = "recording"
  /\ nextCmd + k - 1 <= MaxCmds
  /\ \E res \in CmdChoices(k) :
       cb' = [cb EXCEPT ![c].cmds = @ \o NewCmds(k, res)]
  /\ nextCmd' = nextCmd + k
  /\ UNCHANGED <<userDevice, deviceAlive, userRes, resState, freeCalls, bufLen,
                 bufBytes, userStream, shState, bStream, destroyCalls, queue,
                 pc, pcStream, pcCmds, completed>>

(* CommandBuffer::commit: one backend dispatch of the recorded commands on *)
(* the handle's stream (all of them or, on Err, none); then the consumed   *)
(* CommandBuffer is dropped with its stream Arc and its resource trackers. *)
Commit(c) ==
  LET s == StreamOf(cb[c].stream)
  IN /\ cb[c].state = "recording"
     /\ \E ok \in DispatchOutcomes :
          queue' = IF ok THEN [queue EXCEPT ![s] = @ \o cb[c].cmds] ELSE queue
     /\ Settle(shState, userRes, userStream,
               [cb EXCEPT ![c] = [state |-> "done", stream |-> NoHandle, cmds |-> <<>>]],
               userDevice)
     /\ UNCHANGED <<bufLen, bufBytes, nextCmd, pc, pcStream, pcCmds, completed>>

(* A CommandBuffer dropped without commit: nothing is dispatched.          *)
DropCommandBuffer(c) ==
  /\ cb[c].state = "recording"
  /\ Settle(shState, userRes, userStream,
            [cb EXCEPT ![c] = [state |-> "done", stream |-> NoHandle, cmds |-> <<>>]],
            userDevice)
  /\ UNCHANGED <<bufLen, bufBytes, nextCmd, queue, pc, pcStream, pcCmds, completed>>

(* Stream::synchronize: thread t blocks in synchronize_stream.             *)
Synchronize(t, h) ==
  /\ pc[t] = "idle"
  /\ userStream[h]
  /\ ~HelperOwned(h)
  /\ pc' = [pc EXCEPT ![t] = "sync"]
  /\ pcStream' = [pcStream EXCEPT ![t] = h]
  /\ UNCHANGED <<userDevice, deviceAlive, userRes, resState, freeCalls, bufLen,
                 bufBytes, userStream, shState, bStream, destroyCalls, cb,
                 nextCmd, queue, pcCmds, completed>>

(* Mutant of SubmitDefaultStreamAndSync: Ok returned right after commit,  *)
(* without the synchronize.                                                *)
SubmitDefaultStreamNoSync(t, h, c, k) ==
  LET sh == [shState EXCEPT ![h] = "live"]
      done == [cb EXCEPT ![c] = [state |-> "done", stream |-> NoHandle, cmds |-> <<>>]]
  IN /\ pc[t] = "idle"
     /\ userDevice
     /\ h \in DefaultHandles
     /\ shState[h] = "none"
     /\ cb[c].state = "none"
     /\ nextCmd + k - 1 <= MaxCmds
     /\ nextCmd' = nextCmd + k
     /\ \E res \in CmdChoices(k), ok \in DispatchOutcomes :
          LET cmds == NewCmds(k, res)
          IN /\ queue' = IF ok THEN [queue EXCEPT ![DefaultStream] = @ \o cmds] ELSE queue
             /\ completed' = IF ok THEN completed \cup {cmds[i].id : i \in 1..k} ELSE completed
     /\ Settle(sh, userRes, userStream, done, userDevice)
     /\ UNCHANGED <<bufLen, bufBytes, pc, pcStream, pcCmds>>

(* submit_default_stream_and_sync, up to the synchronize: a new default    *)
(* Stream, a CommandBuffer on it, extend, commit.  On a commit Err the `?` *)
(* returns at once, dropping the default Stream; otherwise the thread      *)
(* blocks in synchronize on the default stream.                            *)
SubmitDefaultStreamAndSync(t, h, c, k) ==
  LET sh == [shState EXCEPT ![h] = "live"]
      done == [cb EXCEPT ![c] = [state |-> "done", stream |-> NoHandle, cmds |-> <<>>]]
  IN /\ pc[t] = "idle"
     /\ userDevice
     /\ h \in DefaultHandles
     /\ shState[h] = "none"
     /\ cb[c].state = "none"
     /\ nextCmd + k - 1 <= MaxCmds
     /\ nextCmd' = nextCmd + k
     /\ \E res \in CmdChoices(k), ok \in DispatchOutcomes :
          LET cmds == NewCmds(k, res)
          IN IF ok
             THEN /\ queue' = [queue EXCEPT ![DefaultStream] = @ \o cmds]
                  /\ pc' = [pc EXCEPT ![t] = "submitSync"]
                  /\ pcStream' = [pcStream EXCEPT ![t] = h]
                  /\ pcCmds' = [pcCmds EXCEPT ![t] = {cmds[i].id : i \in 1..k}]
                  /\ Settle(sh, userRes, [userStream EXCEPT ![h] = TRUE], done, userDevice)
             ELSE /\ Settle(sh, userRes, userStream, done, userDevice)
                  /\ UNCHANGED <<queue, pc, pcStream, pcCmds>>
     /\ UNCHANGED <<bufLen, bufBytes, completed>>

(* synchronize_stream returns: Ok once the backend stream has drained, or  *)
(* Err.  Returning from submit_default_stream_and_sync drops its Stream.   *)
SyncReturn(t) ==
  LET h == pcStream[t]
  IN /\ pc[t] \in {"sync", "submitSync"}
     /\ \E ok \in DispatchOutcomes :
          /\ ok => queue[StreamOf(h)] = <<>>
          /\ completed' = IF ok /\ pc[t] = "submitSync"
                          THEN completed \cup pcCmds[t] ELSE completed
     /\ pc' = [pc EXCEPT ![t] = "idle"]
     /\ pcStream' = [pcStream EXCEPT ![t] = NoHandle]
     /\ pcCmds' = [pcCmds EXCEPT ![t] = {}]
     /\ IF pc[t] = "submitSync"
        THEN Settle(shState, userRes, [userStream EXCEPT ![h] = FALSE], cb, userDevice)
        ELSE UNCHANGED <<userDevice, deviceAlive, userRes, resState, freeCalls,
                         userStream, shState, bStream, destroyCalls, cb>>
     /\ UNCHANGED <<bufLen, bufBytes, nextCmd, queue>>

(* The backend runs the oldest command dispatched to stream s.  A stream  *)
(* destroyed with work pending still completes that work.                  *)
BackendExecute(s) ==
  /\ queue[s] /= <<>>
  /\ queue' = [queue EXCEPT ![s] = Tail(@)]
  /\ UNCHANGED <<userDevice, deviceAlive, userRes, resState, freeCalls, bufLen,
                 bufBytes, userStream, shState, bStream, destroyCalls, cb,
                 nextCmd, pc, pcStream, pcCmds, completed>>

Next ==
  \/ \E b \in Buffers, n \in Counts : CreateBuffer(b, n)
  \/ \E r \in Textures \cup BindlessArrays : CreateResource(r)
  \/ \E h \in DefaultHandles : DefaultStreamCall(h)
  \/ \E s \in NonDefaultStreams : CreateStream(s)
  \/ DropDevice
  \/ \E r \in Resources : DropResource(r)
  \/ \E h \in Handles : DropStream(h)
  \/ \E h \in Handles, c \in CmdBufs : NewCommandBuffer(h, c)
  \/ \E c \in CmdBufs, k \in 1..MaxBatch : Record(c, k)
  \/ \E c \in CmdBufs : Commit(c)
  \/ \E c \in CmdBufs : DropCommandBuffer(c)
  \/ \E t \in Threads, h \in Handles : Synchronize(t, h)
  \/ \E t \in Threads, h \in DefaultHandles, c \in CmdBufs, k \in 1..MaxBatch :
       SubmitDefaultStreamAndSync(t, h, c, k)
  \/ \E t \in Threads : SyncReturn(t)
  \/ \E s \in BackendStreams : BackendExecute(s)

Spec == Init /\ [][Next]_vars

-----------------------------------------------------------------------------
TypeOK ==
  /\ userDevice \in BOOLEAN /\ deviceAlive \in BOOLEAN
  /\ userRes \in [Resources -> BOOLEAN]
  /\ resState \in [Resources -> {"none", "live", "freed"}]
  /\ freeCalls \in [Resources -> Nat]
  /\ bufLen \in [Buffers -> Nat] /\ bufBytes \in [Buffers -> 0..(UsizeMod - 1)]
  /\ userStream \in [Handles -> BOOLEAN]
  /\ shState \in [Handles -> {"none", "live", "dropped"}]
  /\ bStream \in [BackendStreams -> {"none", "live", "destroyed"}]
  /\ destroyCalls \in [BackendStreams -> Nat]
  /\ cb \in [CmdBufs -> [state : {"none", "recording", "done"},
                         stream : Handles \cup {NoHandle}, cmds : Seq(Command)]]
  /\ nextCmd \in 1..(MaxCmds + 1)
  /\ queue \in [BackendStreams -> Seq(Command)]
  /\ pc \in [Threads -> {"idle", "sync", "submitSync"}]
  /\ pcStream \in [Threads -> Handles \cup {NoHandle}]
  /\ pcCmds \in [Threads -> SUBSET CmdIds]
  /\ completed \in SUBSET CmdIds

(***************************************************************************)
(* Every backend handle is released exactly once, exactly when its last   *)
(* owner is gone (the Arc drops of BufferHandle/StreamHandle/DeviceHandle): *)
(* a created resource has had one free call iff neither the program nor a  *)
(* recorded command's tracker holds it; a created non-default stream has  *)
(* had one destroy_stream iff no Stream or CommandBuffer holds its handle; *)
(* the default stream has had one iff nothing holds the device any more.  *)
(***************************************************************************)
ReleasedExactlyWhenUnreferenced ==
  LET liveRes == {r \in Resources : resState[r] /= "none" /\ ResReferenced(r, userRes, cb)}
      liveHs  == {h \in Handles : shState[h] /= "none" /\ HandleReferenced(h, userStream, cb)}
  IN /\ \A r \in Resources :
          freeCalls[r] = IF resState[r] /= "none" /\ r \notin liveRes THEN 1 ELSE 0
     /\ \A s \in NonDefaultStreams :
          destroyCalls[s] = IF bStream[s] /= "none" /\ s \notin liveHs THEN 1 ELSE 0
     /\ destroyCalls[DefaultStream] =
          IF userDevice \/ liveRes /= {} \/ liveHs /= {} THEN 0 ELSE 1

(* Dispatch and synchronize go through a live StreamHandle, so every live *)
(* handle (Default or NonDefault) must still name a live backend stream:   *)
(* the default stream may not be destroyed while a default_stream() handle *)
(* exists, nor a created stream while its Stream or a CommandBuffer lives. *)
LiveHandleHasLiveStream ==
  \A h \in Handles : shState[h] = "live" => bStream[StreamOf(h)] = "live"

(* submit_default_stream_and_sync returns Ok only after every command it  *)
(* submitted has run: commit precedes synchronize on the same stream.     *)
SubmitAndSyncWaits == completed \cap PendingIds = {}

(* A Buffer never claims more elements than the backend allocated:        *)
(* len * size_of::<T>() <= allocated bytes (spec section 3).               *)
BufferFitsAllocation ==
  \A b \in Buffers : resState[b] = "live" => bufLen[b] * ElemSize <= bufBytes[b]

(* No command still waiting to run on the backend touches a resource that *)
(* has been freed: the resource tracker keeps it alive until the backend   *)
(* has processed the command (spec section 4.5).                           *)
NoUseAfterFree ==
  \A s \in BackendStreams : \A i \in DOMAIN queue[s] :
    \A r \in queue[s][i].res : resState[r] /= "freed"

(* A command buffer outlives the Stream it was made from: commit, even   *)
(* after the program dropped that Stream, dispatches through the           *)
(* CommandBuffer's own Arc<StreamHandle>, so the backend is only ever      *)
(* handed work for a stream that has not been destroyed.                   *)
DispatchOnlyToLiveStreams ==
  [][\A s \in BackendStreams : Len(queue'[s]) > Len(queue[s]) => bStream[s] = "live"]_vars

=============================================================================
