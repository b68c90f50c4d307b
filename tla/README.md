# Verification of the WinFuse request multiplexer

This directory holds TLA+ models of the WinFuse kernel driver core
(`src/src/winfuse/fuse.c`, `src/src/winfuse/proto.c`). It also holds TLC
configurations that model-check the models on small instances, and TLAPS
proofs of properties that hold for every instance.

## The system

WinFuse sits between a host file-system framework and a FUSE daemon in user
mode. Its parts are:

- **Provider vtable** (`FuseProvider`, fuse.c 313-335). The framework calls
  `DeviceInit`, `DeviceFini`, `DeviceExpirationRoutine` and `DeviceTransact`
  through it.
- **Transact loop** (`FuseDeviceTransact`, fuse.c 141-311). Every daemon
  worker thread calls it, and many calls run at once. A call has two halves:
  - The *response half* looks up the context the reply's `unique` names
    (`FuseIoqEndProcessing`) and resumes it. It then either re-posts the
    context, deletes it, or forwards its InternalResponse to the host and
    then deletes it.
  - The *request half* pops a pending context. When nothing is pending, it
    waits for INIT and then asks the host for a new internal request, binding
    it to a fresh context. It resumes the context and then does one of four
    things:
    - starts processing it (a request was written);
    - forwards a status-only response;
    - re-posts or deletes a forget context;
    - forwards the response and deletes the context.
- **I/O queue** (ioq.c, not under src/). A pending FIFO and a processing map
  keyed by `unique`, both internally locked.
- **Contexts and the protocol codec** (proto.c, context.c).
  - Each operation is a coroutine that fills a request, yields, and reads
    the reply.
  - `unique` is the context's address (`FuseProtoInitRequest`, proto.c 58).
  - CREATE is a stub that breaks at once.
  - FORGET and BATCH_FORGET drain a forget list. The daemon does not reply
    to them.
- **Cache** (cache.c, not under src/). A successful LOOKUP inserts an inode.
  The expiration routine moves expired items onto a forget list, and
  `FuseProtoPostForget` gives that list to a new forget context.
- **Environment.** The FUSE daemon reads requests and sends replies. The
  fsext provider hands out internal requests and takes responses; forwarding
  a response to it may fail.

## Modules

| Module | What it is |
|---|---|
| `WinFuse.tla` | The model: IOQ, contexts, instance state, one FuseDeviceTransact call per thread, the daemon and the host. |
| `MCWinFuse.tla` | The model values and definitions TLC instantiates `WinFuse` with. |
| `WinFuseProofs.tla` | TLAPS proof of the type invariant. |
| `WinFuseOwnProofs.tla` | TLAPS proof of the IOQ ownership invariant CtxOwnership. |
| `HostRequests.tla` | The host's contract on internal requests (spec 5, 8): handed out once, answered at most once and never after it is freed, freed exactly once. |
| `WinFuseFiniProofs.tla` | TLAPS proof of the FuseDeviceFini order (`TeardownOrder`). |
| `WinFuseReplyProofs.tla` | TLAPS proof that no request in flight is lost (`RepliesReachable`). |
| `WinFuseReqProofs.tla` | TLAPS proofs of the internal-request memory discipline (`RequestsAccounted`) and that `WinFuse` implements `HostRequests` (`HostRefinement`). |
| `WinFuseForgetProofs.tla` | TLAPS proof of the lookup/forget balance (`LookupsPaidBack`). |
| `FuseAttr.tla` | `FuseAttrToFileInfo` (proto.c 268-313) in unsigned Width-bit words, with reference definitions from spec 6. |
| `MCFuseAttr.tla` | The modes and sizes TLC enumerates for `FuseAttr`. |
| `FuseAttrProofs.tla` | TLAPS proofs that the attribute mapping and the in-range rounding are right for every width. |

### State

| Variables | What they model |
|---|---|
| `alloc`, `hint`, `ireq`, `flist` | The live contexts: their kind, the internal request each owns, and the forget list. |
| `pending`, `processing` | The IOQ. |
| `versionMajor`, `initEvent`, `cache` | The instance. |
| `up`, `cacheLive` | The device is initialized and FuseDeviceFini has not started; `Instance->Cache` still exists. |
| `pc`, `inrsp`, `outbuf`, `held`, `local`, `emit` | Each thread's FuseDeviceTransact call: where it is, its reply buffer, whether it has an output buffer, the `Context` and `InternalRequest` locals, and the request it wrote. |
| `owe`, `replied`, `ndup`, `lookups`, `forgot` | The daemon. |
| `hostQ`, `nanswer`, `nfree` | The host: requests not yet handed out, responses delivered, frees. |

### Actions

Each action is one atomic piece of a transact call. It ends where the code
calls into a component that locks on its own (IOQ, host, cache), or where it
reaches a branch.

- **Response half:**
  - `RspMatch` and `RspSpurious` model EndProcessing.
  - `RspProcessSelf` processes the INIT reply, publishes the version and
    signals InitEvent, and deletes the context.
  - `RspProcessHost` runs the second half of a send routine, the cache insert
    on LOOKUP success, the forward, the delete, and the `goto exit` on a
    failed forward.
- **Request half:**
  - `ReqPop` and `ReqEmpty` model NextPending and the VersionMajor test.
  - `ReqWake` and `ReqCancel` model the init wait.
  - `ReqAdmitNone`, `ReqAdmitCtx` and `ReqAdmitStatus` model the host
    request and `FuseContextCreate`, including allocation failure.
  - `ReqStatus` is the status-only path.
  - `ReqExchange` fills a request, yields, and calls StartProcessing.
  - `ReqCreate` is the CREATE stub.
  - `ReqForget` models FillForget or FillBatchForget, then re-posts or
    deletes the context.
  - `Return` frees `InternalRequest`, and the daemon receives the request.
- **Outside a call:**
  - `Expire` models FuseDeviceExpirationRoutine followed by
    FuseProtoPostForget.
  - `DaemonPoll`, `DaemonReply` and `DaemonReplay` make transact calls with
    or without a reply and output buffer. `DaemonReplay` sends a reply
    already sent once; `MaxDup` bounds how many.
- **FuseDeviceFini** (fuse.c 96-126), in its code order:
  - `Fini` is `FuseIoqDelete`. It deletes every pending and processing
    context, with the internal request each owns and its forget list
    (`DeleteQueued`), and the device stops serving. The framework calls it
    only when no transact call is running, so it needs every thread idle.
  - `FiniCache` is `FuseFileInstanceFini` and `FuseCacheDelete`. It is
    enabled only after `Fini`.
  - `Terminated` is the stutter of a torn-down instance.
  - The daemon calls and `Expire` need `up`.

`PROJECT.json` maps every definition to the lines it translates.

### Abstractions

- A reply's error is a Boolean.
- Names, attributes, byte lengths and the wire layout are left out.
- The validation returns (fuse.c 154-170) change no state and are left out.
- The cache insert on LOOKUP success is modelled from spec 4.3, since
  src/ does not show it (`Cacheable`). A new item is created for an inode
  that is not in the cache index. This includes an inode whose old item
  has expired and still waits on a forget list, so an inode can be on
  several lists at once. `MaxLookup` bounds how many times an inode is
  inserted.
- Forget entries are counted as the daemon receives them (`forgot`).
- The INIT reply sets VersionMajor and signals InitEvent, as spec 5, 8
  and scenario 2 say. No line of src/ writes them: `FuseProtoSendInit`
  (proto.c 97-100) only maps the error, so the writer lives outside src/
  and this step is modelled from the spec.

## Runs

| Run | Config | Checks | Result |
|---|---|---|---|
| safety | `MCWinFuse.cfg` | TypeOK, CtxOwnership, RequestAccounting, ReplyReachable, ForgetAccounting, CacheOutlivesContexts; PROPERTY HostContract | pass, about 1.41M distinct states |
| liveness | `MCWinFuseLive.cfg` | RequestsReleased, InodesForgotten, WaitEnds under FairSpec | pass, about 30K distinct states |
| stale_reply | `MCWinFuseStale.cfg` | StaleReplyIgnored | violated |
| attr_mapping | `MCFuseAttr.cfg` | AttributesMatchSpec, AllocationRoundsUpInRange | pass, 3840 distinct states |
| attr_overflow | `MCFuseAttrWrap.cfg` | AllocationCoversSize | violated |

What the safety properties say:

- **CtxOwnership** is how the transact loop uses the IOQ. Every live context is in exactly one
  place: pending (once), processing, or the hands of exactly one call.
  Deleted contexts are nowhere.
- **RequestAccounting** is the memory discipline of spec 5.
  - An internal request that has been handed out is owned by exactly one
    context or one call, or has been freed exactly once.
  - It is answered at most once.
  - It is never answered while a context still owns it.
- **ReplyReachable** says a context in processing can still get its reply:
  a request naming it is in an output buffer, with a worker, or its reply is
  inside a call.
- **ForgetAccounting** says that, per inode, the successful lookups equal
  one if the inode is cached, plus the number of forget lists it is on,
  plus the forgets already sent. Since an inode can be cached again while
  an old item waits, it can be on several lists. An item sent without being
  unlinked, or expired twice, breaks the count. It is stated while the
  device is up: FuseIoqDelete drops queued forget lists with their contexts.
- **CacheOutlivesContexts** is the order FuseDeviceFini's comment demands
  (fuse.c 104-115). Once the cache is gone the device is down and no live
  context has a forget list that references a cache item.
- **HostContract** is `HostRequests!Spec` under the identity mapping
  (`pool <- hostQ`, `answers <- nanswer`, `frees <- nfree`). The host
  hands a request out once. The driver forwards at most one
  InternalResponse for it, never after freeing it, and frees it exactly
  once. Forwarding and freeing may be one step, because the context is
  deleted right after its response goes out. FuseIoqDelete frees several
  requests in one step. HostRequests stands for FspFsextProviderTransact
  and FspFsextProviderFreeExternal, which are not under src/, so it is
  written from the spec.

What the liveness properties say (under `FairSpec`):

- **RequestsReleased**: every internal request admitted is eventually freed.
- **InodesForgotten**: every inode on a forget list is eventually sent in a
  FORGET.
- **WaitEnds**: a call blocked on InitEvent (fuse.c 212-216) eventually
  leaves the wait. This holds because the INIT reply signals the event;
  without the signal the request half blocks until the call is cancelled.

What the attribute properties say (spec 6):

- **AttributesMatchSpec**: the file type bits alone decide the attributes
  and the reparse tag (directory, NFS special file, symlink, or plain).
- **AllocationRoundsUpInRange**: when `FileSize + AllocationUnit - 1` fits
  in the word, AllocationSize is exactly the round-up.
- **AllocationCoversSize** (expected to fail): AllocationSize >= FileSize
  for every size.

Each of these properties is broken by a mutant of the code (`Mut*` in
`WinFuse.tla`, listed in `PROJECT.json`).

### Bounds

- **Safety instance:** 2 threads, 2 context addresses, 3 internal requests
  (two LOOKUP and one CREATE), 2 inodes, `MaxLookup = 2`, `BatchCap = 1`,
  one replayed reply.
  - Two addresses are enough for a context to be deleted and its address
    re-used.
  - Two inodes give a forget list of two, which exercises the re-post path.
  - `MaxLookup = 2` lets an inode be cached again while its first item
    waits on a forget list, so it sits on two lists.
  - Two threads let the response half and the request half of different
    calls interleave.
- **Liveness instance:** it is smaller (2 requests, 1 inode, no replay) so
  that the tableau search ends.
- **Symmetry:** the safety run uses it over threads, inodes and addresses.
- **Attribute instance:** a 6-bit word (all 64 sizes), allocation units
  1, 2, 4 and 8, and modes for every file type, an unknown type (0), and a
  bit above the type field. The 6-bit word keeps every case of the
  64-bit one: aligned and unaligned sizes, sizes whose round-up fits, and
  sizes within one unit of the limit whose round-up wraps. The proofs
  cover every width, 64 included.

### Fairness

`FairSpec` assumes weak fairness of three things, per thread:

- The driver code of a call (`Kernel(t)`). A kernel thread that is not
  blocked runs on.
- `DaemonReply(t)`. A daemon worker answers what it read.
- `DaemonPoll(t)`. A daemon worker calls again.

Cancellation of the init wait is not assumed fair: it comes from outside.
Replays are not assumed to happen.

## Findings

1. **Address-as-unique accepts stale replies** (run stale_reply).
   - A reply to a deleted context whose address was re-used is resumed by
     the new context as its own answer.
   - TLC's trace: the INIT reply is replayed after a LOOKUP context got the
     address.
   - Spec 4.4 says late responses are ignored.
2. **AllocationSize wraps** (run attr_overflow).
   - `(FileSize + AllocationUnit - 1) / AllocationUnit * AllocationUnit`
     (proto.c 304-305) is computed in UINT64.
   - For a FileSize within AllocationUnit - 1 of 2^64 the sum wraps and
     AllocationSize is 0, below FileSize.
   - Spec 6 says AllocationSize is FileSize rounded up. The theorem
     `AllocationCorrect` shows the rounding is exact whenever it fits.

## Proofs

`WinFuseProofs.tla` proves `THEOREM TypeCorrect == Spec => []TypeOK` for
every value of the constants, assuming only `WinFuseAssumption`.

TypeOK alone is not inductive, for two reasons:

- `RspMatch` reads the unique of the call's reply.
- `ReqExchange` stamps the held context into a message.

The proof therefore uses `TypeInv == TypeOK /\ ThreadShape`. ThreadShape
says a call at `rsp`/`rspproc` has a reply, a call at `rspproc`/`reqproc`
holds a context, and a call at `reqstatus` holds an internal request.

The proof has three parts:

- `TypeInvInit` proves the initial states satisfy TypeInv.
- `TypeInvNext` proves every step preserves it. It has one step per action,
  and the actions that delete contexts are split into per-variable steps.
- Lemmas cover the helpers `DeleteCtx` and `Forward`.

`WinFuseOwnProofs.tla` proves `THEOREM OwnershipHolds == Spec => []CtxOwnership`,
again for every value of the constants.

- **Inductive invariant.** It is `OwnInv == TypeInv /\ HeldOnlyInProc /\ CtxOwnership`.
  - `HeldOnlyInProc` says a call holds a context only at `rspproc` or
    `reqproc`.
  - Without it, `RspMatch`, `ReqPop` and `ReqAdmitCtx` could overwrite a
    context a call already holds and lose it.
  - TLC checked `OwnInv` as an invariant of the safety instance before the
    proof was written.
- **The argument.**
  - Steps that move no context carry the facts over (lemma `OwnFrame`).
  - The deleting steps share lemma `OwnDelete`. They are RspProcessSelf,
    RspProcessHost, ReqCreate, and ReqForget when its list is empty.
  - EndProcessing, NextPending, context creation, StartProcessing, the forget
    re-post and Expire each get a step of their own.
  - The FIFO is handled by two lemmas about duplicate-free sequences:
    `TailMembers` for NextPending and `AppendMembers` for PostPending. They
    rest on the library's `HeadTailProperties` and `AppendProperties`.

`WinFuseFiniProofs.tla` proves `THEOREM TeardownOrder == Spec => []CacheOutlivesContexts`.

- The inductive invariant is `FiniInv`: once the device is down no context
  is live and every call is idle; and the cache is gone only if the device
  is down. CacheOutlivesContexts alone is not inductive, because it says
  nothing while the cache is alive about what Fini will leave behind.
- `FiniDeletesAll` shows FuseIoqDelete deletes every live context: with all
  calls idle no call holds one, so by CtxOwnership each is queued. It rests
  on `OwnInv`.
- After Fini no call step, daemon call or expiration is enabled
  (`KernelBusy`), so only FiniCache can change state.

`FuseAttrProofs.tla` proves, from `FuseAttrAssumption` (the width is
positive, sizes fit the word, and SectorSize * SectorsPerAllocationUnit
fits it, as a product of 16 and 32 bits does in 64):

- `THEOREM AttributesCorrect == Spec => []AttributesMatchSpec`, by a case
  split on the file type (`TypeInfoMatches`).
- `THEOREM AllocationCorrect == Spec => []AllocationRoundsUpInRange`. The
  lemma `RoundUpNoWrap` shows that when the sum fits, no intermediate
  result of the unsigned computation wraps; `AllocationUnitExact` that the
  unit product does not wrap either.
- The invariant is `IInv`: `info` is the conversion of `attr` and `vp`.

`WinFuseReplyProofs.tla` proves `THEOREM RepliesReachable == Spec => []ReplyReachable`.

- For a context in processing, the proof names the call or worker that
  carries its request (`Answers(t, c)`): a message the call emits at exit,
  one a worker owes, or a reply a call is handling.
- The inductive invariant is `ReplyInv`: TypeInv, a worker owes nothing
  while its call runs (`OweBetweenCalls`), and a call has a message to emit
  only at `exit` (`EmitAtExit`). Without these, DaemonPoll could overwrite
  an owed request and Return a pending one.
- The frame lemma `ReplyStep` covers every action that changes only one
  thread's message variables. Each action then shows that the carrier
  moves with the message.
- `WinFuseAssumption` states that `NoMsg` is not a message. Otherwise an
  empty output buffer would count as a carried request.

`WinFuseReqProofs.tla` proves `THEOREM RequestsAccounted == Spec => []RequestAccounting`.

- The inductive invariant is `ReqInv`. It is OwnInv, plus
  `FreeOwnsNothing` (a free address owns no request) and
  `LocalOnStatusPath` (a call holds InternalRequest only at `reqstatus`
  or `exit`).
- `ReqPlaced(r)` puts every request in one of four places:
  - `WithHost`;
  - `OwnedByContext`, by exactly one live context and unanswered;
  - `HeldByCall`, by exactly one call, unanswered while at `reqstatus`;
  - `Released`, freed once and answered at most once.
- Each action moves a request between these places:
  - ReqAdmitCtx and ReqAdmitStatus take it from the host;
  - ReqStatus answers it;
  - Return frees the call's request;
  - the deleting actions free the context's request (lemma `DeleteReleases`).
- Fini needs `Queued = alloc`, which follows from CtxOwnership once every
  call is idle. FuseIoqDelete then frees each owned request exactly once:
  the cardinality of a singleton is 1 (`FS_Singleton`).
- `PlacedAccounts` turns the four places into the counts of
  RequestAccounting.

`WinFuseReqProofs.tla` also proves `THEOREM HostRefinement == Spec => HostContract`.

- `HostInit`: the initial state maps to `HostRequests!Init`, with every
  request in the pool and no answers or frees.
- `HostNext`: under ReqInv, every step of `Next` is a HostRequests step or
  leaves `hostQ`, `nanswer` and `nfree` alone:
  - ReqAdmitCtx and ReqAdmitStatus are `Admit`;
  - ReqStatus is `Answer` when forwarding succeeds, else a stutter;
  - Return is `Free({r})` of the call's request, if it holds one;
  - RspProcessHost and ReqCreate are `AnswerFree` or `Free`, and
    RspProcessSelf and ReqForget's last batch are a stutter
    (lemma `DeleteMaps`, with `ForwardMaps` for the answer counts);
  - Fini is `Free(S)`, where S is the set of requests owned by live
    contexts, each counted once because `ContextsOwning(r)` is a singleton.
- The abstract guards come from ReqInv. A request a live context owns is
  in use and unanswered (`OwnedInUse`). A request a call holds is in use,
  and unanswered at `reqstatus` (`HeldInUse`). Without ReqInv, nothing
  would rule out answering or freeing a request twice.

`WinFuseForgetProofs.tla` proves `THEOREM LookupsPaidBack == Spec => []ForgetAccounting`.

- The inductive invariant is `ForgetInv`, with these clauses:
  - `OwnInv`;
  - only live forget contexts have lists (`ListOnlyOnLive`,
    `ListOnlyOnForget`);
  - a forget context owns no request (`ForgetOwnsNoReq`);
  - the count itself, with `QueuedIn(i)`, the set of live contexts whose
    list holds inode i.
- `ForgetInv` is preserved only together with `ReqInv`. Expire takes a free
  address, and `FreeOwnsNothing` says that address owns no request, so the
  new forget context owns none.
- The count moves by one in each step that touches it:
  - Expire adds a new context to `QueuedIn(i)` while i leaves the cache
    (`FS_AddElement`);
  - ReqForget takes its context out of `QueuedIn(i)` for each inode of the
    batch while `forgot[i]` goes up (`FS_RemoveElement`, lemma
    `ForgetTakesOff`);
  - RspProcessHost caches an inode not in the cache and adds one lookup.
- Deleting a context that owns a request never drops a list (lemma
  `DeleteEmptyList`). Fini and FiniCache take the device down.

Before each proof, TLC checked its inductive invariant as an invariant of
the safety instance: `ReqInv` and `ForgetInv` there (MaxLookup 2).

What stays with TLC:

- **Liveness.** `RequestsReleased`, `InodesForgotten` and `WaitEnds` are checked by the
  liveness run only. TLAPS cannot reason about ENABLED and fairness.
- **The violation runs** (stale_reply, attr_overflow) are
  counterexamples that TLC finds. They are findings, not theorems.

## Not modelled, and why

- **Byte arithmetic of `FuseProtoFillBatchForget`** (proto.c 173-192).
  The model keeps the count of entries per batch, not the pointers, so
  an off-by-one in `EndP` or the loop test is not reached by any property.
- **The gap between the VersionMajor test and the wait** (fuse.c 212-216).
  `ReqEmpty` joins them in one step. InitEvent is a notification event that
  stays set, so an INIT completing in between is not lost.
- **The FIFO order of the IOQ.** ioq.c is not under src/; the model uses a
  FIFO as spec 4.4 describes, and the properties are about how the transact
  loop uses it.
- **`FuseDeviceInit` failure paths** (fuse.c 82-91). They undo a partial
  construction before any call can run; the model starts from a
  constructed instance.
- **The shared SystemBuffer** (fuse.c 157-158, 207). The model does not
  hold buffer contents; the response is consumed before the request half
  zeroes the buffer.
- **The times of `FuseAttrToFileInfo`** go through `FuseUnixTimeToFileTime`,
  which is not under src/.
- **The errno map** is not under src/ and is pure. It is reduced to the error
  flag.
