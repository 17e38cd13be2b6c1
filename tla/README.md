# A verification project for the RP1 chainloader

The program is a bare-metal AArch64 loader for the Raspberry Pi 5. It brings
up the PCIe link to the RP1 south bridge, fetches an RP1 firmware and a Linux
kernel over the RP1's own Ethernet (DHCP and TFTP), resets the RP1, loads the
new firmware over the I2C boot port, and enters Linux with a device tree that
says which RP1 peripherals the firmware keeps. Other builds of it serve GDB over
a mailbox in RP1 memory, or run proofs of what the RP1 can be made to do.

The modules here model that program, TLC checks them on small instances, and
TLAPS proves the results that matter most for every value of the constants.
Source paths are relative to `src/rp1_chainboot_poc/src/` unless said otherwise;
`README.md:<line>` below is the README of the repository.

## 1. Inventory

One core runs one sequential program. What makes it hard is everything it talks
to: a link that can come up half, a boot ROM that may not answer, servers and a
network that reorder, a firmware that runs at its own pace and is never stopped
while the host looks at its memory. And a dozen Cargo features decide which
steps run in which order.

| Component | State it keeps | Operations | Talks to | What makes it correct |
|---|---|---|---|---|
| Network boot path (`main.rs`, `net_boot.rs`, `linux.rs`) | place in the path, PCIe link, GEM claim, TFTP port counter, downloaded files, policy, observed BAR | link and GEM init, lease, downloads, note policy, release, reset and reload, post-reload observer, DT patch, entry | all below | the nic is never used across a reset of the RP1; Linux only with everything in place; sealed builds fail closed |
| RP1 reload (`rp1_bootstrap.rs`, `bcm2712_aon.rs`) | offset into the image; the RP1's SRAM and boot words | reset into the boot ROM, load, scratch words, start | I2C master, caller's failure handler | proc0 starts on a whole image and is then left alone |
| I2C master (`bcm2712_i2c.rs`) | none between transfers but the controller's FIFO and flags | `transfer_write`, `transfer_read` | BSC controller | Ok means exactly the caller's bytes; a failed write is a prefix, and its rest may land until the next transfer begins |
| DHCP client (`dhcp_boot.rs`) | retransmission count, OFFER taken | DISCOVER, REQUEST, filter, timeouts | servers, through a lossy network | the lease is one that its server granted; only the OFFER taken is committed |
| GDB debug stub (`rp1_debug_stub.rs`) | command counter, mailbox words | smoke test, memory packets, continue | firmware, debugger | answers are true; a command is carried out once |
| Inbound monitor (`rp1_inbound_monitor.rs`) | exception vector, record words, mode list | nine kinds of mode, each with a handshake, probes and a verdict | firmware, abort handler | the old vector comes back; a verdict is about a run that took place |
| Note, config, image policy (`rp1_note.rs`, `rp1_config.rs`, `rp1_dtb_policy.rs`, `rp1_image.rs`, `gzip.rs`) | none | parse and judge | boot path | a refused note never boots |
| DT patch and placement (`dtb_patch.rs`, `placement.rs`, `boot_context.rs`) | none | patch, range checks | boot path | ranges do not overlap; disabled nodes are those of the policy |
| SD boot path (`main.rs`, `boot_files.rs`) | as the network path | file reads | card | unreachable in every feature set of this commit |
| Allocator (`main.rs`) | offset of the first free byte | alloc, dealloc, realloc | everything | live blocks are disjoint |
| Cold SCMI and AMP observers (`rp1_debug_stub.rs`, `scmi_linux_admission.rs`, `amp_*_admission.rs`) | verdict so far, previous sample | readiness wait, 31 samples, seqlock reads, predicates | firmware | a torn record, or a fault seen once, is never admitted |
| Final record and watchdog observers (`rp1_debug_stub.rs`) | polls, request sent | tagged read; request, receipt, acknowledgement | firmware | an accepted record is of one boot; the acknowledgement is the last word and is earned |
| Clock independence (`rp1_clock_independence.rs`) | sequence number | handshake, silence, one read, verdict | firmware | a pass is about the run this boot set off |
| Time anchor (`rp1_time_anchor.rs`) | samples | high/low/high counter read, error classes | RP1 timer, link | a carry between two reads is seen |
| PCIe snapshots, digest, panic, logging (`rp1_pcie_snapshot.rs`, `hash.rs`, `panic.rs`) | none | read and print | UART | no protocol |
| Build and host tools (`xtask`, `tools`, `linker`) | none on the target | image building, offline log checks | - | - |

`PROJECT.json` lists the same components with their status, and under `hazards`
every place, with its line, where this code can go wrong in a way a test would
hardly reach, with the properties that would catch it.

Interactions. `main_flow` calls the network boot path, which calls the DHCP
client once, the TFTP sessions six times at most, the policy code, and the
reload. The reload calls the I2C master for every write; the controller may go on with
a write that the master gave up. Its caller gives each
failure to `handle_rp1_bootstrap_failure`, whose answer depends on the build;
what follows may be Linux, the debug stub, a proof, or a halt. The stub and the
proofs share nothing with the firmware but words of SRAM seen through a PCIe
BAR, without a lock.

## 2. The modules

| Module | Models | Lines of code | Role |
|---|---|---|---|
| `Handoff` | what a boot promises | - | abstract specification |
| `NetBoot` | the boot path, every build | `main.rs`, `net_boot.rs`, policies, `linux.rs` | implements `Handoff` |
| `I2cWrite` | what one I2C write promises its caller | - | abstract specification |
| `Rp1Bootstrap` | the reload write by write | `rp1_bootstrap.rs`, `bcm2712_aon.rs` | implements the four reload actions of `NetBoot` |
| `I2cTransfer` | one transfer against the controller | `bcm2712_i2c.rs` | its writes implement `I2cWrite` |
| `DhcpBoot` | `dhcp_acquire` | `dhcp_boot.rs` | stands alone |
| `DebugMailbox` | smoke test and GDB session | `rp1_debug_stub.rs` | stands alone |
| `InboundMonitor` | `run_after_full_init` | `rp1_inbound_monitor.rs` | stands alone |
| `BumpAllocator` | the global allocator | `main.rs` | the heap of `MemoryMap` |
| `MemoryMap` | placement check and loads | `placement.rs`, `main.rs` | composes the heap with the regions written into |
| `ColdObserver` | the SCMI and AMP admission | `rp1_debug_stub.rs`, `scmi_linux_admission.rs`, `amp_*_admission.rs` | observer of `PostReload` |
| `TimeAnchor` | the counter samples | `rp1_time_anchor.rs` | last step of an admitted boot in `PostReload` |
| `FinalRecord`, `WatchdogQuiescence` | the tagged record; the watchdog request | `rp1_debug_stub.rs` | observers of `PostReload` |
| `ClockIndependence` | the clock proof | `rp1_clock_independence.rs` | observer of `PostReload` |
| `PostReload` | which observer runs, and what follows | `main.rs` | composes the five; implements the observer of `NetBoot` |
| `NetBootProofs`, `Rp1BootstrapProofs`, `MemoryMapProofs`, `PostReloadProofs`, `I2cTransferProofs`, `DhcpBootProofs`, `InboundMonitorProofs`, `DebugMailboxProofs` | - | - | theorems |
| `MC*` | - | - | instances for TLC, and sentences of the documentation that do not hold |

The refinement chain, from the registers of the I2C controller to the promise of the
boot: a write of `I2cTransfer` => `I2cWrite`, whose outcomes, with what lands after an
error, are the steps of `Rp1Bootstrap` => the reload of `NetBoot` => `Handoff`; and on the other side of the
reload the observers of `PostReload` => `Observe` of `NetBoot`. Every link is proved.

### NetBoot

A place of the path is a value of `pc`, an action is one call of the code with
its early returns; every `?` of the code is the disjunct that goes to `"fatal"`.
A build is a record of the features that change control. `AllBuilds` is what
`Cargo.toml` implies and the `compile_error!` guards leave, so that one run
covers every legal build. Seven kinds of post-reload behaviour (`Posts`) stand for
the proof features, grouped by what the code does after the start of proc0.

A file is what the loader's decisions tell apart: a note is valid, conflicting,
missing or malformed; a configuration is parsed or has its first bad line in one
of two sections; a kernel inflates or not, has the ISIZE it says or not, and is
an arm64 image or not. `link` keeps the third state that matters, `"incomplete"`:
a link timeout leaves the root complex half set up. `seen` says which BAR the
loader holds: from before the reload, from after it, or admitted by the sealed
observer. `rp1.owed` is the phase whose last write was given up and may still land
(`LateLanding`, external); nothing in the loader looks at it or waits for it.

`Handoff` says the same without builds and files: the nic is the loader's or
nobody's, the reload happens at most once and never while the nic is held, Linux
is entered at most once with everything `Required` and without the nic, and a
boot that stopped stays stopped. What a stopped boot had under way may still come to
an end (`Settle`): the command that starts proc0 may land after the loader has halted.
`Promise` in `NetBoot` is the mapping.

### Rp1Bootstrap

SRAM is a function from the bytes of the payload to `"old"` or `"new"`; the boot
words likewise. A write that fails lands any prefix (`Landed`), and a command
write that fails may have started proc0: these are the outcomes of `I2cWrite` for
a packet of four address bytes and the data. `owed` is what of the last write, if it
failed, the controller may still land (`LateLanding`), until C_CLEAR of the next write
takes it away (`ClearOwed`). `NetPc` and `NetRp1` map the state to
`NetBoot`: the abstract RP1 changes at the end of each phase. The reset-clear
write and the chip-id probe have their retry loops, with `ClearTries` and
`ProbeTries` for the code's 100 and its like.

### I2cTransfer

Driver and controller interleave at every register access. A transfer starts
with whatever an earlier one left in the FIFO and in the flags, and the earlier one may
still be going on (`Residue`): the driver returns an error without stopping the
controller. For the same reason the controller goes on with this transfer after the
driver has returned (`Transfer`). That C_CLEAR with C_ST ends what was going on is an
assumption about the controller, and the last one this makes of it. `wait_for` is
bounded by `PollLimit`; TXD and RXD follow the FIFO. `I2cWrite` sees of a write
what crossed the bus and what was returned; of a read it sees nothing.

### DhcpBoot

Frames in flight are a set: frames are lost (never received), delayed and
reordered. The transaction id depends on the MAC alone, so the frames of an
earlier boot (`boot` in a frame, which no field of a frame tells the client)
pass the filter. Servers are external: they answer what they get. `commits` is what
each of them leased, and to which boot. An ACK that names no server may leave no
address to load from, and ends the boot (`Selected`).

### DebugMailbox

The host's accesses are byte accesses, so SEQ changes in two steps when its low
byte wraps (`Base`). The smoke test sends more than one command and fewer than a
byte counts (`MailboxAssumption`), so the session's first SEQ never wraps. The firmware latches SEQ, executes, acknowledges, and may
stop anywhere. The host gives a command up after `PollLimit` polls. `before`,
`clean`, `execs` and `ran` are history.

### InboundMonitor

`Plan(b)` is the mode list of each proof feature. The host's probe reads
BLOCK_PHASE, sets what it expects, and reads BAR1, in three steps; the window the
RP1 makes of BAR1 can move between any two. The RP1 program is not in the
repository, and is modelled as far as the host's protocol needs it: it reads MODE
again at GO and refuses if that changed, resets BLOCK_PHASE at ACK, publishes
DISABLED before or after the window moves, mends the window before it publishes
RESTORED, and publishes COMPLETION_SEQ last. It never closes the window the
record itself is in. It may stop at any point. The record's checksum, the UART
write sequence of one proof and the twelve channels of the focused build are
abstracted.

### BumpAllocator and MemoryMap

The allocator's whole state is `offset`; `live` is history, the blocks its callers
hold. `Reclaimed` is dealloc's one decision. `realloc` is not overridden, so it is
the library's alloc, copy, dealloc. The heap is a byte array beside a `usize`, so
its address is a multiple of 8 and no more: `HeapAssumption` keeps to alignments up
to 8, which is what the program asks for. `AllocError` halts.

`MemoryMap` puts the heap where the code has it, inside the program's range
(`MapAssumption`), and lets allocations go on before and after the one placement
check. `ranges` is chosen from `Placements`, because the program's end comes from
the linker and the tree's length from the firmware. `Load` is every copy, inflate
and zero-fill, each of which checks its length.

### PostReload and its observers

Which observer is built in is `kind`. Host and firmware take turns at every access
that can be told apart; the firmware side of each module is external (it is not in
the repository) and does what the host's protocol needs of it, in the order it
needs, and may stop anywhere.

`NetBoot` sees an observation at its end, as the attempt that reached the shared SRAM
(`NetPc`, `NetSeen`); the attempts that do not are `NetBoot`'s own.

- `ColdObserver`: the SCMI record under its sequence counter, two of its 27 words
  told apart (`p`, `q`), and the RTOS record, swept without a lock, as its head and
  its counters. `cold.ok` is `scmi_admitted` together with the admission's `valid`.
  A version of the SCMI record is a request served. `whole` and `wrong` are history:
  what was in memory at the looks the verdict rests on.
- `TimeAnchor`: the counter as a pair of words below `High` and `Radix`. Once the
  link is down it stays down until the samples are taken, and reads are all ones,
  which the counter itself never reaches. `at` is history.
- `FinalRecord`: a retained tag may stand when the host begins. The tag is cleared
  first and published last, and a run of the firmware takes longer than one copy of
  the record (`during`); the code's comment calls the record immutable, and the two
  heads it compares are enough only with that.
- `ClockIndependence`: `Retained` is what an earlier boot may have left, including a
  record that waits for GO under the number this boot will use. The checksum may
  match by chance: a torn result may look good (`Validate`), so the property rests
  on the order of the words alone.
- `WatchdogQuiescence`: the request and the acknowledgement are written over one
  region, payload first. The region is taken to be clear when the host begins
  (the host alone writes it); the firmware's record need not be.

## 3. What is checked

Invariants and temporal properties, with the run that checks them. Each has a
mutant in `PROJECT.json`: a plausible bug in the mapped definition that makes TLC
find the property violated.

| Run | Property | Says |
|---|---|---|
| `net_boot` | `NicOnLiveLink` | a running boot holds the GEM only over a link that is up |
| | `LinuxReady` | Linux has kernel, initramfs, tree, policy, clean caches, and the nic is released, on each of the three orders of steps |
| | `FirmwareMatchesPolicy` | the RP1 runs the whole image the policy came from |
| | `FreshPorts` | no local port is used twice in a boot |
| | `ScmiFailClosed` | the sealed build enters Linux only on admitted firmware and leaves the nic alone after the reload |
| | `LinkTimeoutFinal` | the loader does nothing more after an incomplete link set-up |
| | `KeepsPromise` | the boot path implements `Handoff` |
| `rp1_bootstrap` | `StartsWhole`, `HandsOffProc0`, `Returns` | the reload: complete at the start, no write after it and no late landing of one, always returns |
| | `ImplementsReload` | every write is a step of the reload of `NetBoot` or a stutter, every late landing one there or a stutter |
| `i2c_transfer` | `OkIsExact`, `WriteReturns` | Ok is exact, of a read too; a write returns |
| | `KeepsWrite` | a write implements `I2cWrite`: bytes land in order and once, none of another transfer; Ok means all, and only after Ok does nothing more land |
| `dhcp_boot` | `LeaseIsOffered`, `OneServerCommits`, `Returns` | the address was granted to this board by the server of the ACK, a late one included, and of an ACK to this boot it is that of the OFFER taken; no server commits anything else, and when the OFFER named its server no other commits; the client ends |
| `debug_mailbox` | `CleanAnswers`, `AnswerIsFresh`, `CarriedOutOnce`, `Answers` | true answers from a quiet mailbox; no stale ACK, with one exception; once, with one exception; always an answer |
| `inbound_monitor` | `NoGuardLeft` | the old vector is back, whatever way a mode ends |
| | `OnlyRacyModesPark` | only BLOCK and INTERIOR can park the core |
| | `VerdictIsReal`, `FallbackIsClean` | verdicts and the fallback rest on runs that ended |
| | `AckIsItsOwn` | an ACK is that of the mode, except DONE after an ACK timeout |
| | `Ends` | the proof ends or parks |
| `memory_map` | `LiveDisjoint` | live blocks are disjoint, aligned and below the offset, in any order of calls |
| | `LoadsHitNothing` | what is loaded hits no live block and no other range |
| `post_reload` | `AdmissionIsEarned` | firmware is admitted only if no look of the whole observation found a fault, a torn sample or a served request |
| | `VerdictIsWhole` | an accepted final record, a passed clock proof, a valid time sample: each of one boot and one moment |
| | `AckIsEarned` | the acknowledgement stands whole and only after this boot's receipt and a stopped GEM; no token stands before its payload |
| | `Ends` | no state of the records keeps the host reading for ever |
| | `ImplementsObserver` | an observation is one step of `NetBoot`'s post-reload phase, with the decision `NetBoot` expects of the build |

The exceptions are part of the statements, and each is real: TLC reaches them. A
debug build with `continue-on-rp1-bootstrap-failure` may start proc0 on half an
image; a late ACK of an earlier boot is taken by the DHCP client; the ACK of the
last smoke command can answer a command of the GDB session with its number; when
the low byte of SEQ wraps, the firmware may carry a command out twice; DONE after
an ACK timeout carries the number that timed out.

### Bounds

| Run | Instance | States | Why it is enough |
|---|---|---|---|
| `net_boot` | every legal build, ports 1..7 | 199,648 | a boot sends at most six requests, and the range is the shortest `PortsAssumption` allows |
| `rp1_bootstrap` | payload 5, chunk 2, 3 and 2 attempts | 376 | two whole chunks and a short one; first, middle and last attempt |
| `i2c_transfer` | 4 bytes, FIFO of 2, 3 polls | 648 | the FIFO fills and drains twice, before and after the driver gives up |
| `dhcp_boot` | 2 servers, 2 addresses, 1 retry, 2 boots | 930,592 | two servers race, and a boot meets the frames of the one before |
| `debug_mailbox` | 2 addresses (one in SRAM), 2 values, smoke test of 2, SEQ byte of 4, 2 polls, 4 packets | 260,065 | the session reaches the last smoke number and the wrap of the byte |
| `inbound_monitor` | all six builds, 3 probes, 2 polls | 22,454 | the window can close at one probe, move between reads and be mended at the next |
| `memory_map` | heap of 8 bytes, four layouts, six placements, two loads | 116,806 | four blocks live at once, padding between them, frees in every order; two of the placements pass the check |
| `post_reload` | 2 readiness polls, 4 samples (1 light), 2 attempts, SCMI counter up to 3; 2 tries, 2 anchors, radix 2, high word 3; 3, 3 and 4 polls | 183,446 | a request can be served in any sample, the low word carries at every second tick, a poll comes before, during and after the firmware's run |

`MaxBoots`, `MaxPackets`, `Ops`, `Polls` and `MaxSeq` bound what the environment does or
how long a loop of the code is; the other constants are parameters of the code.

### Fairness

Only the code's own core is fair: `WF(Driver)`, `WF(Step)`, `WF(Host)` (in
`PostReload` too), and in
`DhcpBoot` `WF(Client)` and the clock `WF(Expire)`. The loader is the only program
on its core, has no interrupt handler, and polls. Nothing is assumed of the
controller, the boot ROM, the servers, the network or the firmware: each may stop
for ever. The liveness properties therefore say what the code's own timeouts buy.

## 4. Where code and documentation part

Four runs check one sentence each, and TLC finds it violated.

| Run | The sentence | What the code does |
|---|---|---|
| `isize_verified` | "verifies `ISIZE`" (README.md:637) | when the inflater fails, ISIZE is taken on trust as the length if 64 bytes look like an Image header (`gzip.rs:41`), and a kernel cut short is entered |
| `owner_table_ignored` | the owner table "is ignored" under a valid note (README.md:307) | the table is parsed first, and an error in it ends the boot (`net_boot.rs:665`) |
| `observed_recovery` | "RP1 PCIe recovered; continuing to Linux handoff" (`main.rs:964`) | the BAR read before the reset is still held when no initialisation after it succeeded, so the line is printed of a link that did not recover |
| `bounded_timeouts` | "bounded timeouts" (README.md:653) | the read loop ends only when all bytes are read; DONE with an empty FIFO makes every wait return at once and nothing more is read (`bcm2712_i2c.rs:119`) |

`BoundedTimeouts` is a liveness property and its run has `WF(Driver)`: the driver
polls for ever.

## 5. What is proved

`tlapm` checks every step. The only assumptions are the `ASSUME`s of the modules:
the builds are legal ones, the port range has room, sizes and bounds are positive
numbers. TLC evaluates them in each run.

`NetBootProofs`, for every set of legal builds and every port range:

- `Inductive` (in `NetBoot`) is the invariant. The safety properties speak of
  `"linux"`, `"fatal"` or `"started"` only, and none is inductive: what Linux needs
  was put in place many steps before. So its parts say what each place of the path
  may rely on: `LinkInv` (the link at each place), `GemInv` (released from the
  release on), `ReloadInv` (which builds pass which places, and when the RP1 was
  reset), `FirmwareInv` (what has been loaded at each phase), `ArtInv` (which
  files), `PolicyInv` (the policy is the one the note and the configuration give),
  `ScmiInv` (the sealed build's closing steps follow an admission).
- `InductiveInit` and `InductiveStep` have one step per action; `Invariance`
  concludes. `TypeCorrect`, `NicSafe`, `LinuxIsReady`, `FirmwareMatches`,
  `NeverWild`, `SealedFailsClosed`, `RefusedNeverBoots` and `TimeoutIsFinal` follow
  from it.
- `PortInv` gives `PortsAreFresh`: at each place the requests made so far are
  bounded, by the build's order of downloads, and never exceed six.
- `ImplementsHandoff`: the quiet actions map to `Gather`, `Stop` or a stutter
  (`QuietStep`), the rest each to its action of `Handoff` (`NicSteps`,
  `ReleaseSteps`, `ReloadStep`, `EnterStep`), under `Inductive`. A late landing is a
  stutter, a `Gather`, or, after a stop, `Settle`.

`Rp1BootstrapProofs`, for every payload, chunk size and number of attempts:

- `ReloadInv` says that all bytes below `off` are new, or still owed, whatever failed,
  and that outside the build that continues each later place has all that precedes
  it. `OwedInv` says where a write can be owed: never two at once, and the command
  only after everything else. It rests on `ChunkFits` (a chunk is never empty and ends
  in the payload) and `LandedBytes`. `ReloadTypes`, `ReloadStartsWhole` and `ReloadHandsOff` follow.
- `ReloadImplements`: `FreshInv` adds that nothing was written before its phase,
  which the mapping needs for the abstract RP1 to change once per phase; one lemma
  per phase (`ResetMaps`, `LoadMaps`, `ScratchMaps`, `StartMaps`), `FailureMaps`
  for the failure handler and `LateMaps` for what lands late.
- `WritesOneByOne`: from the load on, the steps of the reload are late landings and
  exactly the transfers with an outcome of `I2cWrite` (`ChunkIsTransfer`, `WordIsTransfer`,
  `CommandIsTransfer`), both ways: no way a write can end is left out, and none
  that the driver excludes is added.

`MemoryMapProofs`, for every heap, set of layouts and placement: the invariant is
`LiveDisjoint` itself with the types (every block ends below the offset, so a block
that ends at it lies above all others and may be taken back), and that a load was
made only after the check, within its region. The alignment arithmetic is proved
for 1, 2, 4 and 8.

`PostReloadProofs`, for every bound on polls, samples, attempts and word sizes. Each
observer has an invariant of its own, kept by its host's and its firmware's steps:
`ColdInv` (the counter the host remembers is not above the memory's; while it is
equal and even, the words read are those that stand there, so an equal second look
means one version), `AnchorInv` (between the reads the counter has not gone back,
so equal high words enclose the low read), `FinalInv` (a copy that began under a
new tag is of the new run; one that began under an old tag sees its head change),
`ClockInv` (a completion word seen after the silence was written by the run this
GO set off), `DogInv` (what stands in the region at each of the host's places).
`Inv` composes them, and the observers that are not built in stand still.
`ObserverImplements` maps an observation to the one step that `NetBoot` makes of it:
looks and samples are stutters, the decision is `OnBar2` of its build
(`DecisionMaps`). With `SealedFailsClosed` and `AdmissionsAreEarned` this says of the
sealed build, from the boot path down to the words of the records, that Linux runs
only beside firmware no look found a fault in.

`I2cTransferProofs`, for every length, FIFO depth and poll limit: `ByteInv` says where
each byte is. What crossed the bus is the first part of the transfer; what a write
has pushed and the bus has not carried, or what a read has received and not taken,
is the next part, in the FIFO (`AppendCounts`, `TailCounts`). `DONE` without an error
means that all bytes of a write crossed; `PlaceInv` adds that a byte is pushed only
where there was room. `TransferTypes`, `OkMeansExact` and `WriteLandsPrefix` follow.
`ImplementsWrite` is the refinement: the driver's accesses are stutters until one
returns (`DriverMaps`, with `FinishedIsWhole` for Ok), and the controller's are
landings of the next byte, before and after an error (`ControllerMaps`). That nothing
lands after Ok is no property of the driver's return: Ok is returned of a transfer that
is whole, and a whole one has no byte left. `WriteOutcomes` hands its caller the
set of outcomes that `WritesOneByOne` uses.

`DhcpBootProofs`, for every set of servers and addresses and every bound: the OFFER
is taken once per boot, before its first REQUEST; every ACK under way confirms what its
server granted, and one to this boot agrees with that OFFER (`FrameInv`); every server
that leased to this boot saw a REQUEST of it (`CommitInv`). What earlier boots left in
flight has a smaller boot number. So of a late ACK `LeaseIsOffered` says that its server
granted the address to this board, and no more, for no more is true; and of an OFFER
without a server identifier `OneServerCommits` says that every server may take it up,
but none with another address.

`InboundMonitorProofs`, for every selection of builds, number of probes and length of
the waits. `MonitorInv` says what the two programs know of each other: `NumberInv`
orders the sequence numbers in the record; `CleanInv` says that the RP1 is idle
until a mode is sent, `ModeInv` that from then on it has this mode under this number
or has not looked; `WindowInv` that only RP1 steps between CHECKED and RESTORED hold
the window; `RunInv` that a value only a moved window gives proves a move. `PlaceInv`
and `GuardInv` say which modes come to which place and where the vector is ours,
`ListInv` that the numbers do not run out, `AckInv` what DONE may be answered with.
Every host step, then every RP1 step, keeps each part (`HostKeeps`, `Rp1Keeps`).

`DebugMailboxProofs`, for any memory, size of a byte, number of polls and length of a
session: `SeqInv` says which values the two-byte write of SEQ shows (`LowByte`),
`QuietInv` that a clean packet finds a firmware that waits, `LatchInv` that it then
latches once, or twice where the byte wraps, and `WordInv` and `MemInv` that the
words it reads are the packet's and what memory holds at each place.

`NeverWild` (`NoWildStart`), `RefusedNeverBoots`, `MapTypes`, `TransferTypes`,
`WriteLandsPrefix` and the invariances are proved for every instance; no run repeats
them.

### The measures

Each liveness property has two halves: that the program's next step is taken, and
that its steps run out. The first needs fairness and `ENABLED`, which the installed
provers cannot reason about, and stays with TLC. The second is safety, and is proved
for every constant. Each module of proofs defines a natural number, what is left to
do, and proves three facts of it: it stays below a bound, it is zero exactly where the
program has ended, and every step of the program makes it smaller while no step of
the environment (controller, servers, firmware, counter) makes it larger.

| Theorem | What is counted | Bound |
|---|---|---|
| `BootIsBounded` | calls of the boot path | 32, in every build; only the observer's four attempts repeat, and a late landing is no call |
| `ReloadIsBounded` | calls of the reload | `Most` (`Rp1BootstrapProofs`): the bytes of the payload, the attempts, and the calls that are made once |
| `WriteIsBounded` | register accesses of a write | `Longest` (`I2cTransferProofs`): two for the start, `PollLimit` polls, a check and a push for a byte, `PollLimit` for the end |
| `AcquireIsBounded` | packets sent and timeouts | `4 * MaxRetries + 6` a boot |
| `HostIsBounded` | accesses to the mailbox | `PollLimit + 7` a packet; `Rounds(SmokeLen)` the smoke test |
| `MonitorIsBounded` | steps of the proof | seven turns of `9 + 2 * Polls + 3 * Ops`, and one |
| `DecisionIsBounded` | accesses of an observer | `Longest` (`PostReloadProofs`), one line for each observer |

A retry that was not counted, an error handler that led back to an earlier phase or a
record whose contents put a decision off would have no such number. The frames that
a DHCP client drops and the bytes that a read of the I2C driver waits for are the two
exceptions, and the theorems leave them out: the client's clock ends the first, and
the second has no end (`bounded_timeouts`).

Only model-checked, then: that the next step is taken, in the liveness properties of
the runs. Fairness, `ENABLED`, and induction over data (what a recursive definition
computes for every input) stay with TLC.

## 6. What is not modelled

- The SD path: without `tftp-boot`, `enforce_default_policy` refuses every boot
  source but the network (`boot_context.rs:55`), which takes the network path; with
  it the path is not compiled. No build reaches it.
- The WDT2 request of `rp1-rtos-watchdog-receipt`, written once in the middle of the
  samples and never acknowledged; the soak and mixed-repeat builds, which sample
  longer and admit nothing.
- The four attempts of `rp1-stock-spi0-wrapper-readonly` to set up the link again
  (`main.rs:999`): it reads two registers and halts in every case, a link timeout
  included, and nothing follows that could rely on what it did.
- What of a reset-clear write or a probe lands late: it sets nothing that the
  loader's later steps read.
- Errors of the time anchor that come from the host's own clock: they only make
  fewer samples valid.
- Alignments above 8: the allocator aligns the offset and not the address, and
  nothing in the program asks for more. (README.md:171 says that the heap has 8 MiB;
  the code has 80, `main.rs:1878`.)
- Byte walks of the parsers, the edits of the device tree: only their outcome and its effect on the boot.
- GDB packet framing, register packets, snapshots, digests, logging, the panic
  handler: no state a property could be about.
- The TFTP client, the GEM driver and the PCIe driver are libraries: external,
  by their results. Packets of a transfer that was given up are inside the TFTP
  library.

## 7. Plan

Done, in this order: `Handoff` and `NetBoot`; `NetBootProofs`; `I2cTransfer`;
`Rp1Bootstrap` with its proofs and refinement; `DhcpBoot`; `DebugMailbox`;
`InboundMonitor`; `BumpAllocator` and `MemoryMap` with their proofs;
`ColdObserver`, `TimeAnchor`, `FinalRecord`, `ClockIndependence` and
`WatchdogQuiescence`, composed in `PostReload`, with their proofs;
`I2cTransferProofs`, `DhcpBootProofs`, `InboundMonitorProofs`, `DebugMailboxProofs`
and `FreshPorts`; `I2cWrite` with the proofs that join `I2cTransfer` to
`Rp1Bootstrap`, and the measures; `PostReload` as the observer of `NetBoot`.

Next, most important first:

1. The map from the policy's bitmap to the nodes of the device tree, as operators
   against a reference definition.
2. The WDT2 request inside the samples.
3. GDB packet framing with its checksums and lost bytes, under `DebugMailbox`.

Theorems to come: with each item above, its safety properties. Those of the present
modules are proved.
