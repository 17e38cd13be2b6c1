------------------------------- MODULE NetBoot -------------------------------
(***************************************************************************)
(* The network boot path of the RP1 chainloader: main_flow() up to the     *)
(* transport, boot_from_tftp_with_dhcp() and everything it calls, and      *)
(* start_rp1_image_with_debug_sram().  One run of the loader is one        *)
(* sequential program; what varies is the build (its Cargo features), the  *)
(* files the server holds, and what the PCIe link, the GEM, the DHCP       *)
(* server and the I2C boot port answer at every step.  The SD path that    *)
(* follows in main_flow is unreachable in every feature set.               *)
(***************************************************************************)
EXTENDS Naturals, Sequences

CONSTANTS
    Builds,             \* the builds under study, a subset of AllBuilds
    FirstPort,          \* TFTP_LOCAL_PORT_BASE
    LastPort            \* u16::MAX, where the port counter wraps

-----------------------------------------------------------------------------
(* The builds.  post names what the build does with the reloaded RP1:      *)
(*   "none"      no rp1-gdb-debug-stub: nothing                            *)
(*   "isolated"  gpio22 / stock-SPI0 proofs: halt right after the start    *)
(*   "serve"     rp1-gdb-debug-stub alone: the GDB loop                    *)
(*   "proof"     rtos-record, clock-independence, inbound-monitor: halt    *)
(*               after the post-reload observer, GDB loop without it       *)
(*   "record"    the *-final-record readers: halt in either case           *)
(*   "observe"   rp1-linux-observe-failure: go on to Linux                 *)
(*   "scmi"      rp1-scmi-linux-preloaded: Linux after cold admission      *)
Posts == {"none", "isolated", "serve", "proof", "record", "observe", "scmi"}

\* What Cargo.toml implies and the compile_error! guards leave.
AllBuilds ==
    {b \in [tftp : BOOLEAN, skip : BOOLEAN, cont : BOOLEAN,
            initrd : BOOLEAN, post : Posts] :
        /\ b.initrd => b.tftp
        /\ b.post = "record" => b.tftp /\ ~b.skip /\ ~b.cont
        /\ b.post = "scmi" => b.tftp /\ b.initrd /\ ~b.skip /\ ~b.cont}

ASSUME BuildsAssumption == Builds \subseteq AllBuilds
ASSUME PortsAssumption ==
    FirstPort \in Nat /\ LastPort \in Nat /\ FirstPort + 6 <= LastPort

Gdb(b)     == b.post \in {"serve", "proof", "record", "observe", "scmi"}
Preload(b) == b.post \in {"observe", "scmi"} /\ ~b.skip

-----------------------------------------------------------------------------
(* The files, reduced to what the loader's decisions tell apart.           *)

\* .note.rp1 of an ELF that passed the seal and inspect_rp1_elf: well formed
\* with a complete bitmap, well formed with a bitmap validate() refuses,
\* absent, or malformed.
Notes == {"valid", "conflicting", "missing", "invalid"}

\* config_rp1.txt.  malformed says in which section the first line the parser
\* refuses stands; owner is the [owner] table after a successful parse.
NoConfig == [malformed |-> "no", force |-> FALSE, owner |-> "absent",
             contract |-> "default"]

ConfigFiles ==
    [malformed : {"no"}, force : BOOLEAN,
     owner : {"absent", "partial", "complete"},
     contract : {"default", "explicit", "unusable"}]
    \cup [malformed : {"root", "owner"}, force : {FALSE}, owner : {"absent"},
          contract : {"default"}]

\* The kernel file as decompress_kernel_if_needed and validate_arm64_image see
\* it: inflates - the deflate stream ends without error; isize - the trailer
\* is the inflated length; image - what lies at the load address passes the
\* arm64 header checks and the size fits.
KernelFiles ==
    {k \in [gzip : BOOLEAN, inflates : BOOLEAN, isize : BOOLEAN,
            image : BOOLEAN] :
        ~k.gzip => k.inflates /\ k.isize}

\* gzip.rs accepts a stream miniz_oxide refuses when ISIZE and the header
\* already written look plausible, and only logs an ISIZE that disagrees.
AcceptsKernel(k) == k.image
Intact(k) == k.inflates /\ k.isize

-----------------------------------------------------------------------------
VARIABLES
    build,      \* the features compiled in; never changes
    pc,         \* the next call of the boot path, or how the boot ended
    link,       \* the PCIe link to the RP1: "down", "up" or "incomplete"
    gem,        \* the GEM driver's claim: "none", "live" or "released"
    port,       \* TftpSessionPorts.next
    rrqs,       \* the local ports of the read requests sent, in order
    rp1,        \* [proc, image, scratch, owed]: what the RP1 holds and runs,
                \* and of which write the I2C controller still owes it a part
    art,        \* [elf, config, kernel, initrd, ldtb]: what was downloaded
    policy,     \* "none", or where the ownership policy came from
    tree,       \* TRUE once the patched DTB is in place and cleaned
    coherent,   \* TRUE once kernel and initrd are cleaned to memory
    seen,       \* shared SRAM BAR: "none", "pre", "post" or "admitted"
    attempt     \* post-reload observer attempts made

vars == <<build, pc, link, gem, port, rrqs, rp1, art, policy, tree, coherent,
          seen, attempt>>

Ended == {"linux", "fatal", "halted", "serving"}

Steps == {"context", "place", "pcie", "gem", "dhcp", "kernel", "initrd",
          "ldtb", "elf", "config", "policy", "flush", "image", "gdbsram",
          "release", "reset", "load", "scratch", "start", "observe", "decide",
          "repcie", "regem", "patch", "handoff", "clean", "jump"}

TypeOK ==
    /\ build \in Builds
    /\ pc \in Steps \cup Ended
    /\ link \in {"down", "up", "incomplete"}
    /\ gem \in {"none", "live", "released"}
    /\ port \in FirstPort..LastPort
    /\ rrqs \in Seq(FirstPort..LastPort)
    /\ rp1 \in [proc : {"factory", "bootrom", "started"},
                image : {"none", "partial", "whole"}, scratch : {"unset", "set"},
                owed : {"none", "image", "scratch", "command"}]
    /\ art \in [elf : {"none"} \cup Notes, config : ConfigFiles,
                kernel : {"none", "intact", "short"},
                initrd : {"none", "empty", "loaded"}, ldtb : {"none", "sealed"}]
    /\ policy \in {"none", "note", "config"}
    /\ tree \in BOOLEAN
    /\ coherent \in BOOLEAN
    /\ seen \in {"none", "pre", "post", "admitted"}
    /\ attempt \in 0..4

Init ==
    /\ build \in Builds
    /\ pc = "context"
    /\ link \in {"down", "up"}
    /\ gem = "none"
    /\ port = FirstPort
    /\ rrqs = <<>>
    /\ rp1 = [proc |-> "factory", image |-> "none", scratch |-> "unset",
              owed |-> "none"]
    /\ art = [elf |-> "none", config |-> NoConfig, kernel |-> "none",
              initrd |-> "none", ldtb |-> "none"]
    /\ policy = "none"
    /\ tree = FALSE
    /\ coherent = FALSE
    /\ seen = "none"
    /\ attempt = 0


net == <<link, gem>>
req == <<port, rrqs>>
out == <<policy, tree, coherent>>
dbg == <<seen, attempt>>

-----------------------------------------------------------------------------
(* Up to the lease.                                                        *)

\* FirmwareBootContext: a tftp-boot build only logs it, every other build
\* enforces enforce_default_policy and takes the network path on "network".
FirmwareContext ==
    /\ pc = "context"
    /\ \E mode \in {"network", "other", "missing"} :
           pc' = IF build.tftp \/ mode = "network" THEN "place" ELSE "fatal"
    /\ UNCHANGED <<build, net, req, rp1, art, out, dbg>>

CheckPlacement ==
    /\ pc = "place"
    /\ pc' \in {"pcie", "fatal"}
    /\ UNCHANGED <<build, net, req, rp1, art, out, dbg>>

\* init_rp1_with_options in Auto mode, strict off.  LinkTimeout leaves root
\* and endpoint half set up; any other error leaves the link as it was.
PcieOk == link' = "up"
PcieLinkTimeout == link' = "incomplete"
PcieOther == UNCHANGED link

InitPcie(step, next) ==
    /\ pc = step
    /\ \/ PcieOk /\ pc' = next
       \/ (PcieLinkTimeout \/ PcieOther) /\ pc' = "fatal"
    /\ UNCHANGED <<build, gem, req, rp1, art, out, dbg>>

InitGem(step, next) ==
    /\ pc = step
    /\ \/ gem' = "live" /\ pc' = next
       \/ UNCHANGED gem /\ pc' = "fatal"
    /\ UNCHANGED <<build, link, req, rp1, art, out, dbg>>

InitTftpGem == InitPcie("pcie", "gem") \/ InitGem("gem", "dhcp")

\* Preloading builds and skip-rp1-reload fetch the kernel before RP1.elf.
AfterLease(b) == IF Preload(b) \/ b.skip THEN "kernel" ELSE "elf"

DhcpAcquire ==
    /\ pc = "dhcp"
    /\ pc' \in {AfterLease(build), "fatal"}
    /\ UNCHANGED <<build, net, req, rp1, art, out, dbg>>

-----------------------------------------------------------------------------
(* Downloads.  Every one takes the next local port for its request.        *)

\* Variant: a session that hands the same port out twice.
StuckPort(p) == p

\* TftpSessionPorts::alloc; the counter wraps to the base.
NextPort(p) == IF p = LastPort THEN FirstPort ELSE p + 1

Rrq ==
    /\ rrqs' = Append(rrqs, port)
    /\ port' = NextPort(port)

AfterInitrd(b) ==
    IF b.post = "scmi" THEN "ldtb"
    ELSE IF Preload(b) \/ b.skip THEN "elf" ELSE "patch"

DownloadKernel ==
    /\ pc = "kernel"
    /\ Rrq
    /\ \/ \E k \in KernelFiles :
             /\ AcceptsKernel(k)
             /\ art' = [art EXCEPT !.kernel = IF Intact(k) THEN "intact"
                                                         ELSE "short"]
             /\ pc' = IF build.initrd THEN "initrd" ELSE AfterInitrd(build)
       \/ pc' = "fatal" /\ UNCHANGED art
    /\ UNCHANGED <<build, net, rp1, out, dbg>>

\* rp1-scmi-linux-preloaded refuses an empty initramfs.
DownloadInitramfs ==
    /\ pc = "initrd"
    /\ Rrq
    /\ \/ \E len \in {"empty", "loaded"} :
             /\ art' = [art EXCEPT !.initrd = len]
             /\ pc' = IF len = "empty" /\ build.post = "scmi" THEN "fatal"
                                                          ELSE AfterInitrd(build)
       \/ pc' = "fatal" /\ UNCHANGED art
    /\ UNCHANGED <<build, net, rp1, out, dbg>>

\* scmi_linux.dtb: the seal, the envelope, the board and the console clock.
DownloadLinuxDtb ==
    /\ pc = "ldtb"
    /\ Rrq
    /\ \/ art' = [art EXCEPT !.ldtb = "sealed"] /\ pc' = "elf"
       \/ pc' = "fatal" /\ UNCHANGED art
    /\ UNCHANGED <<build, net, rp1, out, dbg>>

\* RP1.elf, with log_rp1_elf_file_selection: seal and inspect_rp1_elf.
DownloadElf ==
    /\ pc = "elf"
    /\ Rrq
    /\ \/ \E n \in Notes : art' = [art EXCEPT !.elf = n] /\ pc' = "config"
       \/ pc' = "fatal" /\ UNCHANGED art
    /\ UNCHANGED <<build, net, rp1, out, dbg>>

\* The optional config_rp1.txt; ServerError code 1 reads as no file.
DownloadConfig ==
    /\ pc = "config"
    /\ Rrq
    /\ \/ \E c \in ConfigFiles :
             art' = [art EXCEPT !.config = c] /\ pc' = "policy"
       \/ pc' = "fatal" /\ UNCHANGED art
    /\ UNCHANGED <<build, net, rp1, out, dbg>>

-----------------------------------------------------------------------------
(* parse_optional_config and enforce_rp1_elf_note_policy_with_config.      *)

Parses(c) == c.malformed = "no"

\* Variant: force_boot taken to override a malformed note as well.
ForcedPolicyOf(note, c) ==
    IF note = "valid" THEN "note"
    ELSE IF c.force /\ c.owner = "complete" THEN "config"
    ELSE "none"

PolicyOf(note, c) ==
    IF note = "valid" THEN "note"
    ELSE IF note = "missing" /\ c.force /\ c.owner = "complete" THEN "config"
    ELSE "none"

EnforcePolicy ==
    /\ pc = "policy"
    /\ LET p == IF Parses(art.config) THEN PolicyOf(art.elf, art.config)
                                      ELSE "none"
       IN  /\ policy' = p
           /\ pc' = IF p = "none" THEN "fatal" ELSE "flush"
    /\ UNCHANGED <<build, net, req, rp1, art, tree, coherent, dbg>>

\* flush_tftp_transfer (any answer but an error will do) and drain_rx.
FlushAndDrain ==
    /\ pc = "flush"
    /\ Rrq
    /\ pc' \in {IF build.skip THEN "patch" ELSE "image", "fatal"}
    /\ UNCHANGED <<build, net, rp1, art, out, dbg>>

\* build_from_rp1_elf and apply_rp1_elf_start_contract.
BuildImage ==
    /\ pc = "image"
    /\ \/ /\ art.config.contract # "unusable"
          /\ pc' = IF Gdb(build) THEN "gdbsram" ELSE "release"
       \/ pc' = "fatal"
    /\ UNCHANGED <<build, net, req, rp1, art, out, dbg>>

\* rp1_gdb_shared_sram: a second PCIe init, and its shared SRAM BAR.
GdbSharedSram ==
    /\ pc = "gdbsram"
    /\ \/ PcieOk /\ seen' = "pre" /\ pc' = "release"
       \/ PcieOk /\ UNCHANGED seen /\ pc' = "fatal"
       \/ (PcieLinkTimeout \/ PcieOther) /\ UNCHANGED seen /\ pc' = "fatal"
    /\ UNCHANGED <<build, gem, req, rp1, art, out, attempt>>

-----------------------------------------------------------------------------
(* The reload.                                                             *)

\* Variant: the reset under a live driver.
NotQuiesced == "live"

\* release_after_quiesce.
AfterQuiesce == "released"

ReleaseBeforeReload ==
    /\ pc = "release"
    /\ \/ gem' = AfterQuiesce /\ pc' = "reset"
       \/ UNCHANGED gem /\ pc' = "fatal"
    /\ UNCHANGED <<build, link, req, rp1, art, out, dbg>>

\* Where boot_rp1_from_tftp returns Ok to: the preloading builds go straight
\* to the handoff, the others bring PCIe and GEM up again.
ReturnPc(b) == IF Preload(b) THEN "patch" ELSE "repcie"

\* Variant: the failure is logged and forgotten in every build.
AlwaysContinues(b) == TRUE

\* handle_rp1_bootstrap_failure: Ok only with the continue feature.
Continues(b) == b.cont

\* The failing call returns Ok, so what follows it in the caller runs.
OnFailure(next) == pc' = IF Continues(build) THEN next ELSE "fatal"

\* reset_into_bootrom: RUN low and high always happen; the reset-clear write
\* or the chip-id probe may never succeed.  Err returns from the caller.
ResetIntoBootrom ==
    /\ pc = "reset"
    /\ link' = "down"
    /\ rp1' = [proc |-> "bootrom", image |-> "none", scratch |-> "unset",
               owed |-> "none"]
    /\ pc' = "load" \/ OnFailure(ReturnPc(build))
    /\ UNCHANGED <<build, gem, req, art, out, dbg>>

\* In a debug build each phase's failure is handled on its own, and the next
\* phase follows; otherwise load_and_start returns at the first failure.  The
\* isolated builds end here; the four attempts to set up the link again that
\* rp1-stock-spi0-wrapper-readonly makes before its halt are left out.
AfterStart(b) ==
    IF Gdb(b) THEN "observe"
    ELSE IF b.post = "isolated" THEN "halted" ELSE ReturnPc(b)

OnPhaseFailure(next) == OnFailure(IF Gdb(build) THEN next ELSE AfterStart(build))

\* A write that reports an error may have landed in part or whole, and the
\* controller may land more of it until the next one begins.
LoadImage ==
    /\ pc = "load"
    /\ \/ /\ rp1' = [rp1 EXCEPT !.image = "whole", !.owed = "none"]
          /\ pc' = "scratch"
       \/ /\ \E part \in {"none", "partial", "whole"}, rest \in {"none", "image"} :
                 rp1' = [rp1 EXCEPT !.image = part, !.owed = rest]
          /\ OnPhaseFailure("scratch")
    /\ UNCHANGED <<build, net, req, art, out, dbg>>

ProgramScratch ==
    /\ pc = "scratch"
    /\ \/ /\ rp1' = [rp1 EXCEPT !.scratch = "set", !.owed = "none"]
          /\ pc' = "start"
       \/ /\ \E part \in {"unset", "set"}, rest \in {"none", "scratch"} :
                 rp1' = [rp1 EXCEPT !.scratch = part, !.owed = rest]
          /\ OnPhaseFailure("start")
    /\ UNCHANGED <<build, net, req, art, out, dbg>>

\* A command write that reports an error may have been carried out, or may
\* still be.
StartProc0 ==
    /\ pc = "start"
    /\ \/ /\ rp1' = [rp1 EXCEPT !.proc = "started", !.owed = "none"]
          /\ pc' = AfterStart(build) \/ OnPhaseFailure(AfterStart(build))
       \/ /\ \E rest \in {"none", "command"} : rp1' = [rp1 EXCEPT !.owed = rest]
          /\ OnPhaseFailure(AfterStart(build))
    /\ UNCHANGED <<build, net, req, art, out, dbg>>

\* The controller lands a part of a write that was given up (external), or the
\* C_CLEAR of the next write takes it away.
LateLanding ==
    /\ rp1.owed # "none"
    /\ \/ rp1' = [rp1 EXCEPT !.owed = "none"]
       \/ /\ rp1.owed = "image" /\ rp1.image # "whole"
          /\ \E part \in {"partial", "whole"}, rest \in {"none", "image"} :
                 rp1' = [rp1 EXCEPT !.image = part, !.owed = rest]
       \/ /\ rp1.owed = "scratch"
          /\ rp1' = [rp1 EXCEPT !.scratch = "set", !.owed = "none"]
       \/ /\ rp1.owed = "command"
          /\ rp1' = [rp1 EXCEPT !.proc = "started", !.owed = "none"]
    /\ UNCHANGED <<build, pc, net, req, art, out, dbg>>

-----------------------------------------------------------------------------
(* The post-reload observer of the debug builds: at most four PCIe inits.  *)

\* The observer reached the shared SRAM BAR.  rtos-record builds judge the
\* firmware's record; only the scmi build goes on, and only when admitted.
OnBar2 ==
    \/ build.post = "scmi" /\ seen' = "admitted" /\ pc' = "patch"
    \/ build.post = "scmi" /\ seen' = "post" /\ pc' = "fatal"
    \/ build.post \in {"proof", "record"} /\ seen' = "post" /\ pc' = "halted"
    \/ build.post \in {"serve", "observe"} /\ seen' = "post" /\ pc' = "decide"

\* Variant: a fifth attempt.
LateRetry == pc' = IF attempt + 1 = 5 THEN "decide" ELSE "observe"

Retry == pc' = IF attempt + 1 = 4 THEN "decide" ELSE "observe"

\* Variant: one more attempt after a LinkTimeout.
RetryLinkTimeout == Retry

\* A LinkTimeout is final: Auto cannot resume a partial setup.
AfterLinkTimeout == pc' = "fatal"

Observe ==
    /\ pc = "observe"
    /\ attempt' = attempt + 1
    /\ \/ PcieOk /\ OnBar2
       \/ PcieOk /\ UNCHANGED seen /\ Retry
       \/ PcieOther /\ UNCHANGED seen /\ Retry
       \/ PcieLinkTimeout /\ UNCHANGED seen /\ AfterLinkTimeout
    /\ UNCHANGED <<build, gem, req, rp1, art, out>>

\* Variant: a sealed build that goes on like the observing one.
TrustingScmi == "patch"

\* After the loop: the scmi build fails closed, the others use whatever BAR
\* is known, the one read before the reload included.
DecideScmi == "fatal"

Decide ==
    /\ pc = "decide"
    /\ \/ build.post = "scmi" /\ pc' = DecideScmi
       \/ build.post = "observe" /\ pc' = ReturnPc(build)
       \/ build.post = "record" /\ pc' = IF seen = "none" THEN "fatal" ELSE "halted"
       \/ build.post \in {"serve", "proof"} /\ pc' = IF seen = "none" THEN "fatal" ELSE "serving"
    /\ UNCHANGED <<build, net, req, rp1, art, out, dbg>>

\* The builds that fetch the kernel after the reload bring the nic up anew.
ReinitTftpGem == InitPcie("repcie", "regem") \/ InitGem("regem", "kernel")

-----------------------------------------------------------------------------
(* The handoff.                                                            *)

\* Variant: every build takes the way of those that released before.
AfterPatchNoRelease(b) == "clean"

AfterPatch(b) == IF Preload(b) THEN "clean" ELSE "handoff"

\* patch_dtb_for_linux with apply_rp1_policy, and the cleaning of its output.
PatchDtb ==
    /\ pc = "patch"
    /\ \/ tree' = TRUE /\ pc' = AfterPatch(build)
       \/ UNCHANGED tree /\ pc' = "fatal"
    /\ UNCHANGED <<build, net, req, rp1, art, policy, coherent, dbg>>

ReleaseForLinux ==
    /\ pc = "handoff"
    /\ \/ gem' = "released" /\ pc' = "clean"
       \/ UNCHANGED gem /\ pc' = "fatal"
    /\ UNCHANGED <<build, link, req, rp1, art, out, dbg>>

CleanCaches ==
    /\ pc = "clean"
    /\ coherent' = TRUE
    /\ pc' = "jump"
    /\ UNCHANGED <<build, net, req, rp1, art, policy, tree, dbg>>

JumpToLinux ==
    /\ pc = "jump"
    /\ pc' = "linux"
    /\ UNCHANGED <<build, net, req, rp1, art, out, dbg>>

Finished == pc \in Ended /\ UNCHANGED vars

Next ==
    \/ FirmwareContext \/ CheckPlacement \/ InitTftpGem \/ DhcpAcquire
    \/ DownloadKernel \/ DownloadInitramfs \/ DownloadLinuxDtb
    \/ DownloadElf \/ DownloadConfig \/ EnforcePolicy \/ FlushAndDrain
    \/ BuildImage \/ GdbSharedSram \/ ReleaseBeforeReload
    \/ ResetIntoBootrom \/ LoadImage \/ ProgramScratch \/ StartProc0
    \/ Observe \/ Decide \/ ReinitTftpGem
    \/ PatchDtb \/ ReleaseForLinux \/ CleanCaches \/ JumpToLinux
    \/ LateLanding \/ Finished

Spec == Init /\ [][Next]_vars

-----------------------------------------------------------------------------
(* What must hold.                                                         *)

Reloaded == rp1.proc # "factory"
FirmwareUp == rp1.proc = "started" /\ rp1.image = "whole" /\ rp1.scratch = "set"

\* A boot still running never holds a GEM claim behind a PCIe link that is not
\* up: the reset of the RP1 takes the nic off the bus, so the driver must have
\* been released before it and may only be claimed anew after a new PCIe init
\* (net_boot.rs, boot_rp1_from_tftp and boot_from_tftp_with_dhcp).
NicOnLiveLink == gem = "live" /\ pc # "fatal" => link = "up"

\* Linux is entered with a kernel, with the initramfs the build wants, with
\* the tree and a policy in place and everything cleaned to memory, and with
\* the GEM released, whichever of the three orders of steps was taken.
LinuxReady ==
    pc = "linux" =>
        /\ art.kernel # "none"
        /\ build.initrd => art.initrd # "none"
        /\ build.post = "scmi" => art.initrd = "loaded" /\ art.ldtb = "sealed"
        /\ tree /\ coherent
        /\ policy # "none"
        /\ gem = "released"

\* A build that neither skips the reload nor continues after its failure
\* hands over an RP1 that runs the whole image the policy was read from.
FirmwareMatchesPolicy ==
    pc = "linux" /\ ~build.skip /\ ~build.cont => FirmwareUp

\* proc0 is released only on a completely loaded image with its entry and
\* stack programmed, also by a command that lands late.  A debug build with
\* continue-on-rp1-bootstrap-failure goes from phase to phase in spite of
\* errors: the one exception.
NoWildStart ==
    rp1.proc = "started" =>
        FirmwareUp \/ (Gdb(build) /\ build.cont)

\* No two read requests of a boot use the same local port, across the two GEM
\* sessions of a reload (README "TFTP Client Ports").
FreshPorts ==
    \A i, j \in DOMAIN rrqs : rrqs[i] = rrqs[j] => i = j

\* Once the link setup was left incomplete the boot path takes no further
\* step ("fatal=incomplete-link-init retry=forbidden"); what it wrote before
\* may land.
LinkTimeoutFinal ==
    [][link = "incomplete" => LateLanding \/ UNCHANGED vars]_vars

\* The sealed build enters Linux only on a firmware that the post-cold
\* observer admitted, and touches neither GEM nor server after the reload
\* ("no post-cold GEM initialization"; "Failure cannot continue to Linux").
ScmiFailClosed ==
    build.post = "scmi" =>
        /\ pc = "linux" => seen = "admitted" /\ FirmwareUp
        /\ Reloaded => gem = "released" /\ pc \notin {"repcie", "regem", "kernel"}

\* A malformed note, a note whose bitmap does not validate, and a missing note
\* without force_boot stop the boot before the RP1 is touched, whatever the
\* configuration file says (README "RP1.elf note policy").
Refused ==
    \/ art.elf \in {"invalid", "conflicting"}
    \/ art.elf = "missing" /\ pc \notin {"config", "policy"} /\ ~art.config.force

RefusedNoteNeverBoots ==
    Refused => ~Reloaded /\ ~tree /\ pc # "linux"

-----------------------------------------------------------------------------
(* The boot path implements the abstract handoff.                          *)

Required == {"kernel", "tree", "coherent", "rp1"}

Met ==
    {r \in Required :
        /\ r = "kernel" => art.kernel # "none"
        /\ r = "tree" => tree
        /\ r = "coherent" => coherent
        /\ r = "rp1" => build.skip \/ build.cont \/ FirmwareUp}

Status ==
    IF pc = "linux" THEN "linux"
    ELSE IF pc \in {"fatal", "halted", "serving"} THEN "stopped" ELSE "loading"

Promise == INSTANCE Handoff WITH
    status <- Status,
    nic <- IF gem = "live" THEN "held" ELSE "free",
    reloaded <- Reloaded,
    met <- Met

\* Every behaviour of the boot path is one of the abstract handoff: the nic is
\* free at the reload and at the entry, the RP1 is reloaded once, Linux is
\* entered once with everything required, and nothing happens afterwards.
KeepsPromise == Promise!Spec

-----------------------------------------------------------------------------
(* The inductive invariant: what each place of the path may rely on.       *)

KernelFirst(b) == Preload(b) \/ b.skip

BeforePolicy == {"context", "place", "pcie", "gem", "dhcp", "ldtb", "elf",
                 "config", "policy"}
BeforeReset  == {"flush", "image", "gdbsram", "release", "reset"}
AfterReset   == {"load", "scratch", "start", "observe", "decide", "repcie",
                 "regem"}
Closing      == {"patch", "handoff", "clean", "jump", "linux"}

\* Fetching the kernel, in the builds that do so before or after the reload.
FetchesFirst == pc \in {"kernel", "initrd"} /\ KernelFirst(build)
FetchesLast  == pc \in {"kernel", "initrd"} /\ ~KernelFirst(build)

LinkInv ==
    /\ link = "incomplete" => pc = "fatal"
    /\ pc \in {"gem", "regem"} => link = "up"
    /\ NicOnLiveLink

GemInv ==
    /\ pc \in {"reset", "clean", "jump", "linux"} \cup AfterReset =>
           gem = "released"
    /\ pc = "patch" /\ Preload(build) => gem = "released"
    /\ pc \in {"context", "place", "pcie", "gem"} => gem = "none"

ReloadInv ==
    /\ pc \in BeforePolicy \cup BeforeReset \/ FetchesFirst => ~Reloaded
    /\ pc \in {"load", "scratch", "start"} => rp1.proc = "bootrom"
    /\ pc \in AfterReset => Reloaded
    /\ build.skip => pc \notin (BeforeReset \ {"flush"}) \cup AfterReset
    /\ Preload(build) => pc \notin {"repcie", "regem", "handoff"}
    /\ ~Reloaded \/ pc \in {"load", "scratch", "start"} => attempt = 0
    /\ pc = "observe" => attempt < 4
    /\ ~Reloaded => rp1.owed = "none"

FirmwareInv ==
    /\ NoWildStart
    /\ rp1.owed = "command" =>
         /\ pc \notin {"load", "scratch", "start"}
         /\ \/ rp1.image = "whole" /\ rp1.scratch = "set"
            \/ Gdb(build) /\ build.cont
    /\ pc \in {"scratch", "start"} /\ ~(Gdb(build) /\ build.cont) =>
           rp1.image = "whole"
    /\ pc = "start" /\ ~(Gdb(build) /\ build.cont) =>
           rp1.scratch = "set"
    /\ \/ pc \in {"observe", "decide", "repcie", "regem"} \cup Closing
       \/ FetchesLast
       => build.skip \/ build.cont \/ FirmwareUp

ArtInv ==
    /\ \/ pc \in {"initrd"} \cup Closing
       \/ KernelFirst(build) /\ pc \in {"ldtb", "elf", "config", "policy"}
                                       \cup BeforeReset \cup AfterReset
       => art.kernel # "none"
    /\ \/ pc \in Closing
       \/ KernelFirst(build) /\ pc \in {"ldtb", "elf", "config", "policy"}
                                       \cup BeforeReset \cup AfterReset
       => (build.initrd => art.initrd # "none")
          /\ (build.post = "scmi" => art.initrd = "loaded")
    /\ build.post = "scmi" /\ pc \in {"elf", "config", "policy"} \cup BeforeReset
                                    \cup AfterReset \cup Closing => art.ldtb = "sealed"
    /\ pc \in {"handoff", "clean", "jump", "linux"} => tree
    /\ pc \in {"jump", "linux"} => coherent

PolicyInv ==
    /\ pc \in BeforePolicy \/ FetchesFirst => policy = "none"
    /\ pc \in BeforeReset \cup AfterReset \cup Closing \/ FetchesLast =>
           policy # "none"
    /\ policy # "none" => policy = PolicyOf(art.elf, art.config)
    /\ Reloaded \/ tree => policy # "none"

ScmiInv ==
    build.post = "scmi" =>
        /\ pc \in Closing => seen = "admitted"
        /\ Reloaded => gem = "released" /\ pc # "kernel"
        /\ pc = "initrd" => build.initrd

\* What every step of the path preserves; the safety properties follow.
Inductive ==
    /\ TypeOK
    /\ LinkInv
    /\ GemInv
    /\ ReloadInv
    /\ FirmwareInv
    /\ ArtInv
    /\ PolicyInv
    /\ ScmiInv
=============================================================================
