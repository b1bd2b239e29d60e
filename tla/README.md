# A TLA+ model of the Linux implementation of javax.usb

The repository is the Linux part of the javax.usb reference implementation: Java
classes in `src/src/com/ibm/jusb/os/linux/` and native code in `src/jni/`, between
the platform-independent implementation (`com.ibm.jusb`, not in this repository)
and the kernel's usbdevfs. Nearly all that is hard in it is concurrency: Java
threads, a native thread per device that polls, a listener thread, an update
queue, and a kernel that completes transfers and reports hotplug events when it
likes. This project models that part in TLA+, checks it with TLC on small
instances and proves its safety with TLAPS for every instance.

## 1. Inventory

| Component | State it keeps | Operations | Interacts with |
|---|---|---|---|
| Request path: `LinuxRequestProxy.java`, `JavaxUsbDeviceProxy.c`, `JavaxUsbPipeRequest.c` | `readyList`, `cancelList`, the URB and its address in each request, global references | `submit`, `cancel`; the loop of `nativeDeviceProxy`: poll, take and submit, take and cancel, reap and complete | callers through two lists; kernel through ioctls; completion calls back into Java |
| Requests: `LinuxRequest.java` and its subclasses | `completed`, `waitCount`, error, `urbAddress` | `setCompleted`, `waitUntilCompleted`, `setError` | waiting callers, irps of the RI |
| Default control pipe, settings: `LinuxDeviceOsImp.java`, `JavaxUsbDcpRequest.c` | none of their own | `asyncSubmit` (dcp, set configuration, set interface) | request path |
| Pipes: `LinuxPipeOsImp.java` | `inProgressList` | `asyncSubmit`, `abortAllSubmissions`, `linuxPipeRequestCompleted` | request path; every completion calls it |
| Interfaces: `LinuxInterfaceOsImp.java`, `JavaxUsbInterfaceRequest.c` | none (the kernel has the claim) | `claim`, `release`, `isClaimed` | request path, one request each, waited for |
| Proxy start: `LinuxDeviceProxy.java` | `thread`, `startError` | `isRunning`, `start`, `startCompleted`; `getLinuxDeviceProxy` | everyone who submits or cancels; the native thread |
| Topology update: `updateTopology`, `checkUsbDeviceImp`, `JavaxUsbTopologyUpdater.c` | the update queue, the last scan's result, the lists of connected and disconnected devices, the device tree | `topologyChange`, `updateTopology`, one `build_device` after the other, `disconnect`, `attachUsbDeviceImp` | the buses of the kernel; the tree of the RI |
| Topology listener and `getUsbRootHub`: `LinuxUsbServices.java`, `JavaxUsbTopologyListener.c` | the listener thread, its count of errors, its error | `getUsbRootHub`, `startTopologyListener`, poll, `topologyListenerExit` | the updater; applications; event listeners |
| Building one device: `build_device` to `get_descriptor` in `JavaxUsbTopologyUpdater.c`, `JavaxUsbActive.c`, the factories of `JavaxUsb.java` | the position in the device's file; the objects made so far | one read or ioctl at a time | the updater; any process that sets configuration or interfaces |
| Types of transfer: `JavaxUsbControlRequest.c` and its siblings, `LinuxControlPipeImp.java` | the URB's lengths and status | submit and complete, per type of pipe | request path |
| Isochronous requests (`isochronous_request`), error texts, build | none | never run; texts | - |

What makes each hard, and the properties that make it correct:

- **Request path.** Cancels race takes, submissions, reaps and other cancels; the
  URB's address is stored after its submission; memory is reused. Correct if every
  irp ends exactly once and truthfully, the kernel never sees freed memory, nothing
  leaks, nothing is lost or starved, and submissions start in order.
- **Pipes.** A request is listed after it is submitted, taken off by its completion
  and by aborts of several threads. Correct if an abort finds and stops all it must,
  no request is cancelled twice, and every call returns.
- **One request's completion.** A wait loop against a notification that reads the
  number of waiters without the lock. Correct if no wake-up is lost.
- **Proxy start.** Several starters share one error field. Correct if each reads its
  own thread's answer and what it gets is running.
- **Topology.** Devices and buses change while a scan reads them; scans fail; existing
  devices are known by comparison with equal ones, buses by their position in a listing;
  the listener dies; callers wait for the first scan. Correct if the tree converges to the
  bus, stays a tree, leaves bystanders alone, and nobody waits for ever.
- **Claims.** A call may find no proxy thread, start one, or be served by either of
  two, and each thread's file descriptor is an owner of its own for the kernel. Correct
  if every call has one atomic effect on the claim, and its caller is told which.
- **Building a device.** Descriptors are found by adding up lengths the device claims,
  over several configurations, while reads fail and settings change. Correct if the
  objects are those of the file, none below a wrong parent, and what is active in them
  is active in the device.
- **Types of transfer.** A setup packet is or is not counted, depending on where it is.
  Correct if the caller is told the length and error of what happened.

The hazards are listed line by line in `PROJECT.json`.

## 2. Modules

| Module | Models | EXTENDS / INSTANCE |
|---|---|---|
| `LinuxRequestProxy` | the request path, with the kernel's side of URBs | instances `RequestService` |
| `RequestService` | what the request path promises: queue, active, failed, ended | |
| `LinuxPipeOsImp` | the calls of clients on pipes, interfaces and the device, composed with the request path | extends `LinuxRequestProxy` |
| `LinuxInterfaceOsImp` | claims of an interface, composed with the start of the proxy thread | extends `LinuxDeviceProxy`, instances `InterfaceService` |
| `InterfaceService` | what a program may rely on when it claims, releases or asks | |
| `LinuxRequest` | one request's waiters and its completion, field by field | |
| `LinuxDeviceProxy` | start of the native thread | |
| `TopologyUpdater` | how the tree follows the buses: the queue, the scan, the two lists, the two loops | instances `DeviceTree` |
| `DeviceTree` | how the tree an application walks may change | |
| `LinuxUsbServices` | the listener, and the threads that ask for the root hub, around the updates | extends `TopologyUpdater` |
| `DeviceBuilder` | how one device is built from its descriptors, and what is active in it | |
| `DeviceTransfer` | lengths and errors of transfers to a device so built | extends `DeviceBuilder` |
| `MC...` | finite instances and symmetry for TLC | the module of that name |
| `..._proofs` | theorems and proofs (`DeviceTransfer_proofs` those about `DeviceBuilder` too) | the module of that name |

### LinuxRequestProxy

`pc[t]` says where a thread is. A client is `"idle"` outside `LinuxRequestProxy`;
`Submit` and the two outcomes of `Cancel` are its critical sections. A request found
in `readyList` is ended by the canceller itself *inside* `synchronized(readyList)`
(`readyOwner`): error, then `setCompleted`. One not found is put in `cancelList` by
`Defer`, a step of its own because the first monitor has been left.

A proxy thread walks `poll -> ready -> submit -> (address ->) cancel -> discard ->
reap -> poll` as the loop of `nativeDeviceProxy` does. `setUrbAddress` is separate
from the ioctl, since the kernel may complete the URB in between. `complete_urb_request`
finds the URB through the request, as the C code does, not through the reaped
pointer. `setCompleted` takes up to three steps (`Detach`, `CompleteIrp`, `Notify`),
and `resume` says where its caller goes on. The heap is `usercontext`: an address is
free if it has no request, and `malloc` may return any free address, in particular
one whose old value a request still records.

`Unplug` (if `CanUnplug`) takes the device away: every ioctl on its descriptors then
fails with `ENODEV`, which a submission reports, a discard ignores and a reap takes for
"nothing to reap". That the kernel answers so is an assumption about usbdevfs.

Buffers, descriptors and types of pipe are abstracted (they decide nothing here). A
failed `malloc` and a refused ioctl have the same effect, `SubmissionFails`. A
request is cancelled at most once: that is an assumption on the callers here
(`Cancel`). `CancelledOnce` of the next module discharges it: whatever request an abort
has still to cancel was never cancelled before, so the guard takes no step away.

### LinuxPipeOsImp

`call[c]` is the call a client is in. A call's steps are steps of the request path
taken while `pc[c] = "idle"`, so an abort, for instance, is `abortAllSubmissions`
(copy and clear), one `cancelNext` for each request (with `Defer` or a whole
completion inside), `waitForAll`, `callReturns`. `linuxPipeRequestCompleted` refines
`Detach`. `atStart` is a history variable: what had been accepted when the abort
began.

### LinuxInterfaceOsImp and InterfaceService

A call is `Invoke` (a new request; `getLinuxDeviceProxy` begins), the steps of
`LinuxDeviceProxy`, `submit` or the exception, and `Returns`. A request is named by the
client whose call it is. A proxy thread that serves takes it (`getReadyRequest`), does
one ioctl (`submitRequest`) and completes it. The kernel keeps the claim for one
descriptor, that is for one native thread (`owner`), so a release served by another
thread than the claim fails; `release` does not tell its caller, and
`InterfaceService` promises no more. `InterfaceService` knows one owner "us" for the whole
program; `Done` is the refinement's view of how far a call's effect has come.
Several interfaces would be several independent owners; the model has one.

### LinuxRequest

The only module at the level of single field accesses. With `StoreBuffering`, a
store to `completed` or `waitCount` may reach memory after the thread's next load
unless a lock is taken or left first; that is what the Java memory model allows for
two plain fields. The higher modules treat `setCompleted` as one step and waiting as
a guard; this module says when that is justified.

### LinuxDeviceProxy

`startLock` is taken by `start` before the thread is created and left by `wait`, so
one action stands for both; `startCompleted` is one critical section. `Spec` is an
application that does not interrupt its threads; `InterruptSpec` adds interruption.
`Natives` is a set of thread names that are reused when a thread has ended.

### TopologyUpdater and DeviceTree

`phys` is what is plugged in at every port of every bus, `buses` what bus directories
there are. `tree` is what the Java objects say, by places `<<slot, port>>`: the slot is the
port of the virtual root hub that a bus has, which is its position in the sorted directory
listing (`Listing`, `JavaxUsbTopologyUpdater.c:44,62`), so that a bus that comes or goes moves
those after it to other slots. A kind of device stands for all that `UsbDeviceImp.equals`
compares, and any number of devices may be of one kind.

The scan lists the buses once (`buslist`) and then takes places from `toBuild` in the order
of the code's walk; each `build_device` reads the bus *as it is then* (`Built`), or leaves the
place out (`NotBuilt`: the device went away, the bus has none, or any of the failures between
`open` and `build_config`). `unread` remembers that something was left out.
`checkUsbDeviceImp` finds the existing device by its port, but what it takes off the list of
the disconnected is the *first equal* one (`FirstEqual`; `List.remove(Object)`,
`LinuxUsbServices.java:213`). `mistaken` remembers that this was another.

Each of the two loops of `updateTopology` is one action. A disconnect takes a device off its
port and with it, out of reach of the root, all that is attached below. An attach sets the
device of a port whether it is taken or not; a port that is taken after a mistake loses what
it had. `DeviceTree` is what an application that walks the tree may rely on: whole subtrees go
(`Depart`), devices come to free ports of hubs that are there (`Arrive`), nothing turns into
something else, and only after a mistake does a device come to a port that is taken
(`Displace`); it stays a tree then too.

What holds of a scan is stated in three strengths. Whatever changes, and whatever is mistaken
for what, the tree stays a tree (`TopologyInv`, `ImplementsDeviceTree`). If nothing changed
since the scan began, a device that is `Certain`, which means that it and all equal ones before
it are in place, stays (`UndisturbedDevices`). If in addition nothing was mistaken, the tree is
what is plugged in (`Mirrored`), whatever mistakes earlier updates made. The stronger
`ExistingKept`, which the code's comment states, does not hold (`topology_twins`).

External, modelled from how the code uses them: `disconnect` and `attachUsbDeviceImp` of the
RI, `equals` (descriptors, not ports, keys or addresses: line 212 compares a device that has a
port with one that has none yet), and the order in which `fillDeviceList` lists the devices
(by port, a hub before what is below it).

### LinuxUsbServices

The updates of `TopologyUpdater`, with the listener that polls and the threads that call
`getUsbRootHub`. Clients, and the updater thread when an event listener calls back, run it
under its monitor (`owner`) and `topologyLock`. `WaitFounded` lists what a caller that waits
may be waiting for; that one of these is always there is the safety half of
`WaitEndsWithoutCallback`.

External: the kernel's hotplug and poll (the first poll of a newly opened `devices` file
reports a change), and the firing of events, which may call a `UsbServicesListener` on the
updater thread.

### DeviceBuilder

One run of `build_device` for one device. `file` is what the kernel shows: a sequence of
descriptors with the fields that decide something. `end`, `total` and `nth` of a
descriptor say where the *kernel's* block has it; the code is modelled by what it sees,
the lengths, added up in `pos`. `WellFormed` is what is assumed of the kernel: the file
consists of blocks of `wTotalLength` bytes, one per configuration, with
distinct non-zero numbers; it does not assume that what is *in* a block are sensible
descriptors. Lengths 0 and 1 and stray device descriptors happen, and the last descriptor of a
block may claim more bytes than are left in it (`Overruns`). Then `get_descriptor` completes it
with bytes of the next block (`ShortRead` if there are none, or too few), and the next
`build_config` begins inside that block: `build_config_astray` leaves open what it makes of it,
a refusal or any objects at all. `stage` is the place
in the code, one action per read, ioctl or call; `Fails` and `OpenFails` are the ways to
`BUILD_DEVICE_EXIT`, and in `OpenFails` the uninitialised `dev_desc` is freed, which may
end in `"crashed"`. A kernel without the GET ioctls is one where they always fail.
`Kernel` is any process that sets configuration or interfaces meanwhile. External:
`Activate`, by which the RI keeps one active setting of a number in a configuration, and
which makes the first one it is given the default (no property speaks of that default).

### DeviceTransfer

A device that was reported has pipes of the types of its endpoints; one transfer to one
of them, or to the default control pipe, is submitted, fails or is reaped, and completed.
Each `..._pipe_request` and `complete_..._pipe_request` is what that C function puts in
the URB and takes from it. The kernel goes by the URB's type, the code by the pipe's.
Concurrency is left to `LinuxRequestProxy`, for which all types are alike.

## 3. Runs

| Run | Shows |
|---|---|
| `proxy_safety` | safety of the request path (nothing is completed twice, lost on its way, freed under the kernel or leaked) and the refinement of `RequestService`, with two proxy threads and a device that may be unplugged; a cancel served by the right descriptor works |
| `proxy_stale_discard` (violation) | a late cancel discards another request's URB |
| `pipe_safety` | safety of pipe calls and aborts; every request ends truthfully; none is cancelled twice, as the request path assumes |
| `pipe_liveness` | every request is taken, every cancel completes its request, every call returns, unless its URB is on a device that is gone; and what makes it so: no cancel is lost on its way, and no call waits for what nothing will end |
| `wait_ordered` | no lost wake-up if stores arrive in order |
| `wait_buffered` (violation) | a lost wake-up if they need not |
| `interface_claims` | each starter gets its own answer, and a thread that runs; claims implement `InterfaceService`; every call returns |
| `topology_mirror` | the tree converges to the buses, stays a tree and leaves alone what is certain, with equal devices and buses that change their place |
| `topology_twins` (violation) | a device is disconnected because an equal one was unplugged |
| `topology_answers` | nobody waits for ever, or for nothing, and who waited gets a scanned hub or an exception |
| `topology_interrupted` (violation) | after an interruption, a root hub without a scan |
| `device_built` | a device's objects are those of its file, what is active in them is what is active in it, and transfers to it are reported as they went |

Bounds, and why they are enough:

- *Requests, clients, proxies, URBs.* Two pipe requests with two clients give a cancel
  against every stage of its own request and of another; two URB addresses for three
  requests make `malloc` reuse one; two proxies give every race between
  reaper and submitter. The invariants are proved for any number.
- *pipe_safety* has one URB address: the second request waits
  for the first, and reuse, the interesting case, happens at once. It adds
  a claim and a setting request.
- *pipe_liveness* has one pipe request and a claim, two clients and one proxy thread: a
  request is hindered by the lists and the thread, which a claim uses as well as another
  transfer would, and two clients can submit and abort the same request at once. With
  two proxy threads `CancelEffective` is false, for the reason `CancelReachesOwnFd` gives.
- *interface_claims* has two clients and two native threads: starts that race, a second
  thread and its second descriptor, and a claim and a release served by different ones.
- *device_built*: a first configuration of up to three descriptors out of two settings of an
  interface, an endpoint and a class descriptor in every order, or one with a
  malformed descriptor or one that goes past the end of its block, and a second one out of five that have the same interface number,
  an endpoint before any interface, or neither. Two configurations give
  everything one can leave to the next. Lengths 0, 1 and 9 are below and above the 8 of
  a setup packet.
- *topology_mirror*, *topology_twins*: two buses, each with a port for a device behind the one
  on it, and two kinds, both hubs. Equal devices as siblings and as hub and device, a hub
  replaced by another with something behind it, orphans, and a bus that moves to the slot of
  one that goes all happen. `MaxQueue = 1` makes the listener wait instead of queueing a second
  update while one is waiting (the real queue has no bound); a second waiting update repeats
  the first. The proofs are for any buses, any ports behind any hubs, any kinds and any bound.
- *topology_answers* asks about the threads, for which it matters only that a scan may find
  something or nothing: one bus with one port and one kind. `MAX_POLLING_ERRORS = 0` (64 in the
  code) makes the first polling error the fatal one, so the listener dies in every state; one that is
  tolerated changes nothing but the count, for which `ServicesInv` is proved for any bound.
- *LinuxRequest*, *LinuxDeviceProxy.* Three actors each suffice for
  two to race while a third passes through.

Deadlock is checked everywhere but in `wait_ordered` and `device_built`, where the system
really ends: the request has completed and all waiters have returned; the device has
been built or given up and the one transfer is over.

Fairness. Every thread that is inside an operation is scheduled, and system calls
return: weak fairness of each proxy, native, updater and listener thread, and of each
client inside a call. Nothing is assumed of applications (no call need ever be made),
of the device (an URB may stay pending for ever: `UrbCompletes` is not fair, and
neither is `Unplug`), of other programs, of hotplug, polling errors and interruptions. No fairness is assumed of who gets a
monitor beyond weak fairness of the thread that wants it.

### What the violation runs mean

Each states a sentence of the repository's own comments as a property and shows a
behaviour of the code that contradicts it; `PROJECT.json` quotes the sentences.

1. `proxy_stale_discard`: `urbAddress` is never reset, the URB is freed, and a
   cancel that was waiting passes the stale address to `USBDEVFS_DISCARDURB`.
   `OutcomeTruthful` still holds: the request that was hit is told so.
2. `wait_buffered`: on a JVM and machine that delay the store, the waiter sleeps on.
3. `topology_twins`: of two equal devices the first is unplugged. The check of the second takes
   the first off the list of the disconnected; the second, still plugged in, is disconnected,
   and the first stays in the tree. `UndisturbedDevices` says whom this can hit.
4. `topology_interrupted`: trying again, as the exception advises, gives an
   unscanned hub without any wait.

## 4. Proofs

Each `..._proofs` module proves its component's safety for all values of the
constants, from the named assumptions of the component (the kinds of request are
disjoint, threads and null values are distinct, the places form a tree).

- **LinuxRequestProxy**: the invariant `IInv`. None of the safety properties is
  inductive alone: that an irp ends once follows from *where a request is*. `ReadyInv`
  says a waiting request is untouched and waits once; `HeldInv` says a request in a
  thread's hands is in no other's, and what each stage knows of it; `KernelInv` the same
  for URBs in the kernel (in particular: reapable with bad status exactly if not
  performed); `DoneInv` what is left after the end. One lemma per action; the theorems
  are corollaries. `Refinement` shows that every step of the detailed path is a step or a
  stutter of `RequestService`: `getReadyRequest` is `Start`, `CancelReady` is `Withdraw`,
  an error is `Fail`, completing the irp is `End`.
  `NoRequestLost` says where a request that was submitted and has not ended can be: waiting
  in the list, in the hands of a thread, or an URB. It follows from `IInv` step by step: each
  of these places is left only for the next (`Located` and the `...Persists` lemmas).
  `CancelNotLost` is proved for one proxy thread, and only then true: a cancel that missed
  the list is still to be put in `cancelList`, waits there, or is in the thread's hands, until the
  URB is off the device or on its way back. With two threads it may reach the descriptor
  that did not submit, which is what `CancelReachesOwnFd` is about.
- **LinuxPipeOsImp**: a step of the calls is a step of the request path or none of its
  business (the lemma `RequestPathUsed`), so `IInv` holds here too; then `PipeIInv`, whose `PlacesInv` puts each
  request at one place of the calls' book-keeping. `AbortStops` combines both: an abort
  returns when its requests are completed, and completed requests are out of the kernel.
  `PipeKeepsPromises` and `PipeCancelNotLost` carry the theorems of the request path over.
  `NoHopelessWait` (one proxy thread, again) is the safety half of `CallsReturn`: a call that
  waits has, for each request it waits for, a place in the path from which it will be
  ended, or a cancel on its way to it. `AwaitInv` adds what the calls know of the requests they
  wait for.
- **LinuxInterfaceOsImp**: `StartUsed` first (the calls start the thread as
  `LinuxDeviceProxy` says), so `StartInv` holds here too; `ClaimInv` says where the request
  of each call is and that a claim is recorded for a thread that still serves.
  Together they are `InterfaceInv`. From it, `SubmittedIsServed`: a request that was submitted is
  in the list of a thread that serves, or in the hands of one, the safety half of
  `CallsAnswered`. `ClaimsRefinement` then maps `submitRequest` to the one effect of a call,
  a failed start to `Fails`, and all else to a stutter.
- **LinuxRequest**: `OrderedInv`, for any finite set of waiters, under
  `~ StoreBuffering`. Who has seen "not completed" keeps the lock until it waits, and
  `waitCount` counts it before. If stores may be late, `BufferedInv` is what is left: the lock
  is kept, and the count, with the store that is on its way, is exact. So nobody returns
  early (`ReturnsCompletedHolds`), and one notification is enough for ever
  (`NotificationReachesAll`): the wake-up that `wait_buffered` loses is lost by the unlocked
  read of `waitCount` alone, where no notification is sent.
- **LinuxDeviceProxy**: `StartInv`: one client at a time is in `start`, and the only
  native thread on its way is the one it waits for. Interruptions break this, so the
  theorems are about `Spec`.
- **TopologyUpdater**: `TopologyInv`. The lemmas about `Path` come first: it is the least set
  that goes up from a place to the root hub, in the order of the walk. `WalkInv` is what the
  lists are while anything may change: nothing is new before it was scanned, what is new is on
  a hub that is new or existed, and, unless something was mistaken, what is replaced is still
  to be disconnected. `ScanInv` is what they are while nothing changes: what is new is exactly
  what is plugged in and not in place, and the list of the disconnected is right about every
  `Certain` device, and about all if nothing was mistaken. For that, `FirstIsCertain`: the device
  that is taken off the list for a certain one is certain itself, so it was that one.
  `AttachInv` is what the first loop leaves: the devices that arrive hang on hubs, and without
  mistakes on free ports, which makes the first loop a `Depart` and the second an `Arrive`, and
  otherwise a `Displace` (`DeviceTreeRefinement`). `MistakenTwins` says that it takes two equal
  devices, the earlier one not in place, to be mistaken at all.
- **LinuxUsbServices**: `ServicesInv` gives `AnswerEnumerated`: who waits keeps
  the monitor, so no other caller can start a listener and clear its error. `WaitFounded` is
  inductive with it: each of its reasons ends by handing on to the next or by a
  notification after which nobody waits. `UpdaterUsed` carries what is proved of the updates over.
- **DeviceBuilder**: `BuilderInv`. Alignment is its core (`PlaceInv`): `pos` equals the
  kernel's `end` of the last descriptor read, so the loop leaves a block at its end, or past it
  only if the last descriptor claims to be longer.
  From it follow where `config` and `interface` point, that the objects so far are those
  of the file so far (`TreeInv`), and that the active ones are the selected ones among
  them (`ActiveInv`, only while nothing was set and the ioctls worked).
- **DeviceTransfer**: `TransferInv`, what each phase knows of the URB, by cases on the type
  of pipe; `BuildUsed` carries the theorems about the build over (`BuiltHolds`).
  `DeviceTransferInv` joins both with the order of the two: once a device is handed over no step
  of the build is possible (`BuildOver`), so that a transfer goes to a pipe the device has
  and keeps.

Every invariant and every action property that a passing run checks is proved. Only
model-checked: liveness (`CancelEffective`, `RequestsTaken`, `CallsReturn`, `CallsAnswered`,
`WaitersReturn`, `StartReturns`, `WaitEndsWithoutCallback`), which is out of the
prover's reach, as is ENABLED; of most of them the safety half is proved, as said above
(`NoRequestLost`, `CancelNotLost`, `NoHopelessWait`, `SubmittedIsServed`,
`NobodyLeftWaiting`, `WaitFounded`). `CancelNotLost` and `NoHopelessWait` are proved for any
requests, clients and addresses but one proxy thread; all else for any number of threads.
No module declares a RECURSIVE operator.

## 5. What the results do not say

- `Mirrored` is conditional: no change on its way, the last scan read all it
  found, *and* it took no device for an equal one. A scan that fails (`JavaxUsbTopologyUpdater.c:39`, `:120` and others) leaves or
  disconnects devices until another hotplug event; nothing retries it.
- `OutcomeTruthful` is about the request objects. A setting request
  (`LinuxSetInterfaceRequest.java:45`) keeps its error number where nothing reads it, so
  its irp completes without one.
- A call that waits for an URB of a device that is gone waits for ever, because the reap
  error is ignored (`JavaxUsbDeviceProxy.c:90`); `CallsReturn` and `CancelEffective` say
  that nothing else does.
- A start whose caller is interrupted (`LinuxDeviceProxy.java:51`) reads an answer that need
  not be its own. `interface_claims` and the theorems assume no interruption (`Spec`);
  `InterruptSpec` has it, and violates `OwnAnswer` and `GotRunning`.
- Two native threads can be started for one device, because `isRunning` is not asked again
  inside the monitor (`LinuxDeviceOsImp.java:55`). `GotRunning` and `ImplementsClaims` hold with two.
  A cancel taken by the thread that did not submit is then lost; `CancelReachesOwnFd` says that
  no other is.
- The second of two concurrent aborts of a pipe may find the list empty and return while the
  first still waits (`LinuxPipeOsImp.java:93-102`). `AbortStops` says that what it leaves running is in the
  hands of the first.
- A device that stays plugged in may be disconnected and attached again, or stay as the object
  of another, when a bus before its own comes or goes: the ports of the root hub are positions
  in a listing. `Mirrored` is about what is attached then, not about which object it is. Devices
  have no identity but their kind in the model, so that an object with the address of an earlier,
  equal device does not show.
- `ActiveIsDevices` is conditional: nothing set during the build, and ioctls that work.
  Where they fail every configuration counts as active and the last one wins.
- `NoDeviceLost` permits what the code does: one malformed descriptor in any configuration
  loses the whole device.
- `LengthTruthful` takes the kernel to report the failure of an isochronous transfer in its
  packet, the only place the code looks.
- A device that has a descriptor longer than what is left of its block may be lost or reported with
  objects of any kind (`build_config_astray`); `TreeIsFile` and `ActiveIsDevices` are about all others. That
  blocks are as long as `wTotalLength` says is assumed of the kernel that serves the file.
- `WaitEndsWithoutCallback` leaves out a listener that calls `getUsbRootHub` on the
  updater thread while a client waits: if the RI fires events on that thread, both block.
- `InProgressFound` permits what the code does: a request that completed before
  `asyncSubmit` added it stays listed until the next abort.
- Spurious wake-ups of `wait()` are not modelled; only `waitUntilCompleted` has a loop.
- Pointers are not truncated, buffers have no content, debug output is left out.

Not modelled:

- `isochronous_request`, `complete_isochronous_request`, `LinuxIsochronousRequest.java`: no
  Java code creates such a request, so no caller determines what they would be given. Nor
  `cancel_dcp_request`, which nothing calls, nor `config_use_devices_file`, which is not
  compiled (`JavaxUsb.h:173`).
- Error texts, debug macros, directory filters, loading of the library, the build: no
  state that another thread sees, and no decision.
- Values of descriptor fields that are only handed on, and the casts to byte in
  `LinuxDeviceOsImp.java:97-107`.

## 6. Plan

Done: the request path with its refinement and with unplugging, pipe calls, completion,
start, claims on top of it, topology, the building of a device, transfers by type, each
with the proofs above.

What a next step could add: a name and an address for each device of `TopologyUpdater`, so
that an equal device plugged in between two scans shows, and an object kept for another bus;
`DeviceBuilder` as the implementation of `Built` there; and the pipe calls of two interfaces,
whose aborts share one proxy thread.
