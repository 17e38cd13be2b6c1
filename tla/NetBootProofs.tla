---------------------------- MODULE NetBootProofs ----------------------------
(***************************************************************************)
(* Proofs about the network boot path, for every set of builds the guards  *)
(* of Cargo.toml and main.rs allow and every port range long enough.  One  *)
(* inductive invariant, Inductive, carries all of them: it says for each   *)
(* place of the path what the steps before it have established.            *)
(***************************************************************************)
EXTENDS NetBoot, TLAPS

USE DEF net, req, out, dbg

-----------------------------------------------------------------------------
(* Type correctness.                                                       *)

\* A read request takes a port of the range and leaves one of the range next.
LEMMA RrqType ==
    ASSUME TypeOK, Rrq
    PROVE  port' \in FirstPort..LastPort /\ rrqs' \in Seq(FirstPort..LastPort)
  BY PortsAssumption DEF TypeOK, Rrq, NextPort

\* What lands late: only the RP1 changes, nothing it holds is lost, and proc0
\* starts only by a command that was still owed.
LEMMA LateLands ==
    ASSUME TypeOK, ~Reloaded => rp1.owed = "none", LateLanding
    PROVE  /\ UNCHANGED <<build, pc, link, gem, port, rrqs, art, policy, tree,
                         coherent, seen, attempt>>
           /\ rp1' \in [proc : {"factory", "bootrom", "started"},
                        image : {"none", "partial", "whole"},
                        scratch : {"unset", "set"},
                        owed : {"none", "image", "scratch", "command"}]
           /\ Reloaded /\ Reloaded' /\ rp1'.owed # "command"
           /\ rp1.image = "whole" => rp1'.image = "whole"
           /\ rp1.scratch = "set" => rp1'.scratch = "set"
           /\ rp1'.proc = rp1.proc \/ (rp1.owed = "command" /\ rp1'.proc = "started")
<1>1. UNCHANGED <<build, pc, link, gem, port, rrqs, art, policy, tree,
                  coherent, seen, attempt>>
  BY DEF LateLanding
<1>2. rp1.owed # "none" /\ Reloaded
  BY DEF LateLanding
<1>3. PICK im \in {"none", "partial", "whole"}, sc \in {"unset", "set"},
           rest \in {"none", "image"}, up \in {rp1.proc, "started"} :
        /\ rp1' = [proc |-> up, image |-> im, scratch |-> sc, owed |-> rest]
        /\ rp1.image = "whole" => im = "whole"
        /\ rp1.scratch = "set" => sc = "set"
        /\ up = rp1.proc \/ (rp1.owed = "command" /\ up = "started")
  <2>1. CASE rp1' = [rp1 EXCEPT !.owed = "none"]
    BY <2>1 DEF TypeOK
  <2>2. CASE rp1.image # "whole" /\ \E im \in {"partial", "whole"}, rest \in {"none", "image"} :
                 rp1' = [rp1 EXCEPT !.image = im, !.owed = rest]
    BY <2>2 DEF TypeOK
  <2>3. CASE rp1' = [rp1 EXCEPT !.scratch = "set", !.owed = "none"]
    BY <2>3 DEF TypeOK
  <2>4. CASE rp1.owed = "command" /\ rp1' = [rp1 EXCEPT !.proc = "started", !.owed = "none"]
    BY <2>4 DEF TypeOK
  <2> QED
    BY <2>1, <2>2, <2>3, <2>4 DEF LateLanding
<1> QED
  BY <1>1, <1>2, <1>3 DEF TypeOK, Reloaded

\* The start command changes neither the image nor the scratch registers.
LEMMA StartChanges ==
    ASSUME TypeOK, StartProc0
    PROVE  /\ UNCHANGED <<build, link, gem, port, rrqs, art, policy, tree,
                         coherent, seen, attempt>>
           /\ rp1' \in [proc : {"factory", "bootrom", "started"},
                        image : {"none", "partial", "whole"},
                        scratch : {"unset", "set"},
                        owed : {"none", "image", "scratch", "command"}]
           /\ rp1'.image = rp1.image /\ rp1'.scratch = rp1.scratch
           /\ rp1'.proc = rp1.proc \/ rp1'.proc = "started"
           /\ pc = "start"
<1>1. /\ UNCHANGED <<build, link, gem, port, rrqs, art, policy, tree,
                     coherent, seen, attempt>>
      /\ pc = "start"
  BY DEF StartProc0
<1>2. PICK rest \in {"none", "command"} :
        \/ rp1' = [rp1 EXCEPT !.owed = rest]
        \/ rp1' = [rp1 EXCEPT !.proc = "started", !.owed = rest]
  BY DEF StartProc0
<1>3. CASE rp1' = [rp1 EXCEPT !.owed = rest]
  BY <1>1, <1>3 DEF TypeOK
<1>4. CASE rp1' = [rp1 EXCEPT !.proc = "started", !.owed = rest]
  BY <1>1, <1>4 DEF TypeOK
<1> QED
  BY <1>2, <1>3, <1>4

\* No step leaves the types; the observer's bound on attempt needs ReloadInv.
LEMMA TypeStep == Inductive /\ [Next]_vars => TypeOK'
<1> SUFFICES ASSUME Inductive, [Next]_vars PROVE TypeOK'
  OBVIOUS
<1>0. TypeOK
  BY DEF Inductive
<1>1. TypeOK'
  <2> USE <1>0 DEF TypeOK, Steps, Ended, Notes, Preload, Gdb
  <2>1. CASE FirmwareContext
    BY <2>1 DEF FirmwareContext
  <2>2. CASE CheckPlacement
    BY <2>2 DEF CheckPlacement
  <2>3. CASE InitTftpGem
    BY <2>3 DEF InitTftpGem, InitPcie, InitGem, PcieOk, PcieLinkTimeout, PcieOther
  <2>4. CASE DhcpAcquire
    BY <2>4 DEF DhcpAcquire, AfterLease
  <2>5. CASE DownloadKernel
    <3>1. pc' \in Steps \cup Ended
      BY <2>5 DEF DownloadKernel, AfterInitrd
    <3>2. \/ art' = art
          \/ \E k \in {"intact", "short"} : art' = [art EXCEPT !.kernel = k]
      BY <2>5 DEF DownloadKernel
    <3> QED
      BY <2>5, <3>1, <3>2, RrqType DEF DownloadKernel
  <2>6. CASE DownloadInitramfs
    <3>1. pc' \in Steps \cup Ended
      BY <2>6 DEF DownloadInitramfs, AfterInitrd
    <3>2. \/ art' = art
          \/ \E n \in {"empty", "loaded"} : art' = [art EXCEPT !.initrd = n]
      BY <2>6 DEF DownloadInitramfs
    <3> QED
      BY <2>6, <3>1, <3>2, RrqType DEF DownloadInitramfs
  <2>7. CASE DownloadLinuxDtb
    <3>1. pc' \in Steps \cup Ended
      BY <2>7 DEF DownloadLinuxDtb
    <3>2. art' = art \/ art' = [art EXCEPT !.ldtb = "sealed"]
      BY <2>7 DEF DownloadLinuxDtb
    <3> QED
      BY <2>7, <3>1, <3>2, RrqType DEF DownloadLinuxDtb
  <2>8. CASE DownloadElf
    BY <2>8, RrqType DEF DownloadElf
  <2>9. CASE DownloadConfig
    BY <2>9, RrqType DEF DownloadConfig
  <2>10. CASE EnforcePolicy
    BY <2>10 DEF EnforcePolicy, PolicyOf, Parses
  <2>11. CASE FlushAndDrain
    BY <2>11, RrqType DEF FlushAndDrain
  <2>12. CASE BuildImage
    BY <2>12 DEF BuildImage
  <2>13. CASE GdbSharedSram
    BY <2>13 DEF GdbSharedSram, PcieOk, PcieLinkTimeout, PcieOther
  <2>14. CASE ReleaseBeforeReload
    BY <2>14 DEF ReleaseBeforeReload, AfterQuiesce
  <2>15. CASE ResetIntoBootrom
    BY <2>15 DEF ResetIntoBootrom, OnFailure, Continues, ReturnPc, Gdb, Preload
  <2>16. CASE LoadImage
    <3>1. PICK part \in {"none", "partial", "whole"}, rest \in {"none", "image"} :
            rp1' = [rp1 EXCEPT !.image = part, !.owed = rest]
      BY <2>16 DEF LoadImage
    <3>2. pc' \in Steps \cup Ended
      BY <2>16 DEF LoadImage, OnPhaseFailure, OnFailure, AfterStart, ReturnPc
    <3>3. UNCHANGED <<build, link, gem, port, rrqs, art, policy, tree,
                     coherent, seen, attempt>>
      BY <2>16 DEF LoadImage
    <3>4. rp1' \in [proc : {"factory", "bootrom", "started"},
                   image : {"none", "partial", "whole"}, scratch : {"unset", "set"},
                   owed : {"none", "image", "scratch", "command"}]
      BY <3>1
    <3> QED
      BY <3>2, <3>3, <3>4
  <2>17. CASE ProgramScratch
    <3>1. PICK part \in {"unset", "set"}, rest \in {"none", "scratch"} :
            rp1' = [rp1 EXCEPT !.scratch = part, !.owed = rest]
      BY <2>17 DEF ProgramScratch
    <3>2. pc' \in Steps \cup Ended
      BY <2>17 DEF ProgramScratch, OnPhaseFailure, OnFailure, AfterStart, ReturnPc
    <3>3. UNCHANGED <<build, link, gem, port, rrqs, art, policy, tree,
                     coherent, seen, attempt>>
      BY <2>17 DEF ProgramScratch
    <3>4. rp1' \in [proc : {"factory", "bootrom", "started"},
                   image : {"none", "partial", "whole"}, scratch : {"unset", "set"},
                   owed : {"none", "image", "scratch", "command"}]
      BY <3>1
    <3> QED
      BY <3>2, <3>3, <3>4
  <2>18. CASE StartProc0
    <3>1. pc' \in Steps \cup Ended
      BY <2>18 DEF StartProc0, OnPhaseFailure, OnFailure, AfterStart, ReturnPc
    <3> QED
      BY <2>18, <3>1, StartChanges
  <2>19. CASE Observe
    BY <2>19 DEF Observe, PcieOk, PcieLinkTimeout, PcieOther, OnBar2, Retry,
                AfterLinkTimeout, Inductive, ReloadInv
  <2>20. CASE Decide
    BY <2>20 DEF Decide, DecideScmi, ReturnPc, Gdb, Preload
  <2>21. CASE ReinitTftpGem
    BY <2>21 DEF ReinitTftpGem, InitPcie, InitGem, PcieOk, PcieLinkTimeout, PcieOther
  <2>22. CASE PatchDtb
    <3>1. tree' \in BOOLEAN
      BY <2>22 DEF PatchDtb
    <3> QED
      BY <2>22, <3>1 DEF PatchDtb, AfterPatch
  <2>23. CASE ReleaseForLinux
    BY <2>23 DEF ReleaseForLinux
  <2>24. CASE CleanCaches
    BY <2>24 DEF CleanCaches
  <2>25. CASE JumpToLinux
    BY <2>25 DEF JumpToLinux
  <2>26. CASE Finished
    BY <2>26 DEF Finished, vars
  <2>27. CASE UNCHANGED vars
    BY <2>27 DEF vars
  <2>28. CASE LateLanding
    <3>1. ~Reloaded => rp1.owed = "none"
      BY DEF Inductive, ReloadInv
    <3> QED
      BY <2>28, <3>1, LateLands
  <2> QED
    BY <2>1, <2>2, <2>3, <2>4, <2>5, <2>6, <2>7, <2>8, <2>9, <2>10, <2>11,
       <2>12, <2>13, <2>14, <2>15, <2>16, <2>17, <2>18, <2>19, <2>20, <2>21,
       <2>22, <2>23, <2>24, <2>25, <2>26, <2>27, <2>28 DEF Next
<1> QED
  BY <1>1

-----------------------------------------------------------------------------
(* The invariant.                                                          *)

\* A boot starts in the invariant.
LEMMA InductiveInit == Init => Inductive
<1> SUFFICES ASSUME Init PROVE Inductive
  OBVIOUS
<1>1. TypeOK
  <2>1. NoConfig \in ConfigFiles
    BY DEF NoConfig, ConfigFiles
  <2>2. FirstPort \in FirstPort..LastPort /\ 0 \in 0..4
    BY PortsAssumption
  <2>3. rrqs \in Seq(FirstPort..LastPort)
    BY DEF Init
  <2>4. art \in [elf : {"none"} \cup Notes, config : ConfigFiles,
                kernel : {"none", "intact", "short"},
                initrd : {"none", "empty", "loaded"}, ldtb : {"none", "sealed"}]
    BY <2>1 DEF Init
  <2> QED
    BY <2>2, <2>3, <2>4 DEF Init, TypeOK, Steps, Ended
<1>2. /\ pc = "context" /\ ~Reloaded /\ attempt = 0
      /\ policy = "none" /\ gem = "none" /\ rp1.owed = "none"
  BY DEF Init, Reloaded
<1>3. link # "incomplete" /\ ~tree
  BY DEF Init
<1>4. LinkInv /\ GemInv
  BY <1>2, <1>3 DEF LinkInv, NicOnLiveLink, GemInv, AfterReset
<1>7. ReloadInv
  BY <1>2 DEF ReloadInv, BeforeReset, AfterReset, FetchesFirst, Reloaded
<1>5. FirmwareInv /\ ScmiInv
  BY <1>2 DEF FirmwareInv, NoWildStart, ScmiInv, FetchesLast, Closing, Reloaded
<1>6. ArtInv /\ PolicyInv
  BY <1>2, <1>3 DEF ArtInv, PolicyInv, BeforePolicy, BeforeReset, AfterReset,
                    FetchesFirst, FetchesLast, Closing
<1> QED
  BY <1>1, <1>4, <1>5, <1>6, <1>7 DEF Inductive

\* Every step of the boot path preserves the invariant.
LEMMA InductiveStep == Inductive /\ [Next]_vars => Inductive'
<1> SUFFICES ASSUME Inductive, [Next]_vars PROVE Inductive'
  OBVIOUS
<1>1. TypeOK'
  BY TypeStep
<1>2. /\ LinkInv' /\ GemInv' /\ ReloadInv' /\ FirmwareInv'
      /\ ArtInv' /\ PolicyInv' /\ ScmiInv'
  <2> USE BuildsAssumption DEF Inductive, TypeOK, LinkInv, GemInv, ReloadInv,
          FirmwareInv, ArtInv, PolicyInv, ScmiInv, NicOnLiveLink, NoWildStart,
          FirmwareUp, Reloaded, KernelFirst, BeforePolicy, BeforeReset,
          AfterReset, Closing, FetchesFirst, FetchesLast, Gdb, Preload,
          AllBuilds, Posts, Steps, Ended, PolicyOf
  <2>1. CASE FirmwareContext
    BY <2>1 DEF FirmwareContext
  <2>2. CASE CheckPlacement
    BY <2>2 DEF CheckPlacement
  <2>3. CASE InitTftpGem
    BY <2>3 DEF InitTftpGem, InitPcie, InitGem, PcieOk, PcieLinkTimeout, PcieOther
  <2>4. CASE DhcpAcquire
    BY <2>4 DEF DhcpAcquire, AfterLease
  <2>5. CASE DownloadKernel
    BY <2>5 DEF DownloadKernel, Rrq, NextPort, AfterInitrd, Preload, AcceptsKernel, Intact, KernelFiles
  <2>6. CASE DownloadInitramfs
    <3>1. \/ art' = art /\ pc' = "fatal"
          \/ \E n \in {"empty", "loaded"} :
                /\ art' = [art EXCEPT !.initrd = n]
                /\ pc' = "fatal" \/ pc' = AfterInitrd(build)
                /\ n = "empty" /\ build.post = "scmi" => pc' = "fatal"
      BY <2>6 DEF DownloadInitramfs
    <3>2. ArtInv'
      BY <2>6, <3>1 DEF DownloadInitramfs, AfterInitrd
    <3> QED
      BY <2>6, <3>1, <3>2 DEF DownloadInitramfs, AfterInitrd, Rrq
  <2>7. CASE DownloadLinuxDtb
    BY <2>7 DEF DownloadLinuxDtb, Rrq, NextPort
  <2>8. CASE DownloadElf
    BY <2>8 DEF DownloadElf, Rrq, NextPort
  <2>9. CASE DownloadConfig
    BY <2>9 DEF DownloadConfig, Rrq, NextPort
  <2>10. CASE EnforcePolicy
    BY <2>10 DEF EnforcePolicy, PolicyOf, Parses
  <2>11. CASE FlushAndDrain
    BY <2>11 DEF FlushAndDrain, Rrq, NextPort
  <2>12. CASE BuildImage
    BY <2>12 DEF BuildImage
  <2>13. CASE GdbSharedSram
    BY <2>13 DEF GdbSharedSram, PcieOk, PcieLinkTimeout, PcieOther
  <2>14. CASE ReleaseBeforeReload
    BY <2>14 DEF ReleaseBeforeReload, AfterQuiesce
  <2>15. CASE ResetIntoBootrom
    BY <2>15 DEF ResetIntoBootrom, OnFailure, Continues, ReturnPc, Gdb, Preload
  <2>16. CASE LoadImage
    <3>1. PICK part \in {"none", "partial", "whole"}, rest \in {"none", "image"} :
            rp1' = [rp1 EXCEPT !.image = part, !.owed = rest]
      BY <2>16 DEF LoadImage
    <3>2. part = "whole" \/ OnPhaseFailure("scratch")
      BY <2>16, <3>1 DEF LoadImage
    <3>3. /\ pc = "load" /\ pc' \in {"scratch", "halted", "repcie", "patch", "fatal"}
          /\ part # "whole" /\ ~(Gdb(build) /\ build.cont) => pc' # "scratch"
          /\ pc' \in {"repcie", "patch"} => build.cont
          /\ pc' = "repcie" => ~Preload(build)
          /\ pc' = "patch" => Preload(build)
      BY <2>16, <3>1, <3>2 DEF LoadImage, OnPhaseFailure, OnFailure, Continues, AfterStart,
                               ReturnPc
    <3>4. FirmwareInv' /\ ReloadInv'
      BY <2>16, <3>1, <3>3 DEF LoadImage
    <3> QED
      BY <2>16, <3>1, <3>3, <3>4 DEF LoadImage
  <2>17. CASE ProgramScratch
    <3>1. PICK part \in {"unset", "set"}, rest \in {"none", "scratch"} :
            rp1' = [rp1 EXCEPT !.scratch = part, !.owed = rest]
      BY <2>17 DEF ProgramScratch
    <3>2. part = "set" \/ OnPhaseFailure("start")
      BY <2>17, <3>1 DEF ProgramScratch
    <3>3. /\ pc = "scratch" /\ pc' \in {"start", "halted", "repcie", "patch", "fatal"}
          /\ part # "set" /\ ~(Gdb(build) /\ build.cont) => pc' # "start"
          /\ pc' \in {"repcie", "patch"} => build.cont
          /\ pc' = "repcie" => ~Preload(build)
          /\ pc' = "patch" => Preload(build)
      BY <2>17, <3>1, <3>2 DEF ProgramScratch, OnPhaseFailure, OnFailure, Continues,
                               AfterStart, ReturnPc
    <3>4. FirmwareInv' /\ ReloadInv'
      BY <2>17, <3>1, <3>3 DEF ProgramScratch
    <3> QED
      BY <2>17, <3>1, <3>3, <3>4 DEF ProgramScratch
  <2>18. CASE StartProc0
    <3>1. /\ UNCHANGED <<build, link, gem, port, rrqs, art, policy, tree,
                         coherent, seen, attempt>>
          /\ rp1'.image = rp1.image /\ rp1'.scratch = rp1.scratch
          /\ rp1'.proc = rp1.proc \/ rp1'.proc = "started"
          /\ pc = "start" /\ rp1.proc = "bootrom"
      BY <2>18, StartChanges
    <3>2. /\ pc' \in {"observe", "halted", "repcie", "patch", "fatal"}
          /\ pc' \in {"repcie", "patch"} => ~Gdb(build)
          /\ pc' = "observe" => Gdb(build)
          /\ pc' = "repcie" => ~Preload(build)
          /\ pc' = "patch" => Preload(build)
      BY <2>18 DEF StartProc0, OnPhaseFailure, OnFailure, AfterStart, ReturnPc
    <3>3. ~build.cont /\ pc' # "fatal" => rp1'.proc = "started"
      BY <2>18 DEF StartProc0, OnPhaseFailure, OnFailure, AfterStart, ReturnPc,
                  Continues
    <3>4. Reloaded /\ Reloaded'
      BY <3>1
    <3>5. FirmwareInv'
      BY <3>1, <3>2, <3>3
    <3>6. ScmiInv'
      BY <3>1, <3>2
    <3>7. LinkInv' /\ GemInv'
      BY <3>1, <3>2
    <3>8. ReloadInv'
      BY <3>1, <3>2, <3>4
    <3>9. ArtInv' /\ PolicyInv'
      BY <3>1, <3>2
    <3> QED
      BY <3>5, <3>6, <3>7, <3>8, <3>9
  <2>19. CASE Observe
    BY <2>19 DEF Observe, PcieOk, PcieLinkTimeout, PcieOther, OnBar2, Retry, AfterLinkTimeout
  <2>20. CASE Decide
    BY <2>20 DEF Decide, DecideScmi, ReturnPc, Gdb, Preload
  <2>21. CASE ReinitTftpGem
    BY <2>21 DEF ReinitTftpGem, InitPcie, InitGem, PcieOk, PcieLinkTimeout, PcieOther
  <2>22. CASE PatchDtb
    BY <2>22 DEF PatchDtb, AfterPatch
  <2>23. CASE ReleaseForLinux
    BY <2>23 DEF ReleaseForLinux
  <2>24. CASE CleanCaches
    BY <2>24 DEF CleanCaches
  <2>25. CASE JumpToLinux
    BY <2>25 DEF JumpToLinux
  <2>26. CASE Finished
    BY <2>26 DEF Finished, vars
  <2>27. CASE UNCHANGED vars
    BY <2>27 DEF vars
  <2>28. CASE LateLanding
    <3>1. /\ UNCHANGED <<build, pc, link, gem, port, rrqs, art, policy, tree,
                         coherent, seen, attempt>>
          /\ Reloaded /\ Reloaded' /\ rp1'.owed # "command"
          /\ rp1.image = "whole" => rp1'.image = "whole"
          /\ rp1.scratch = "set" => rp1'.scratch = "set"
          /\ rp1'.proc = rp1.proc \/ (rp1.owed = "command" /\ rp1'.proc = "started")
      BY <2>28, LateLands
    <3>2. FirmwareUp => FirmwareUp'
      BY <3>1 DEF Reloaded
    <3> QED
      BY <3>1, <3>2 DEF Reloaded
  <2> QED
    BY <2>1, <2>2, <2>3, <2>4, <2>5, <2>6, <2>7, <2>8, <2>9, <2>10, <2>11,
       <2>12, <2>13, <2>14, <2>15, <2>16, <2>17, <2>18, <2>19, <2>20, <2>21,
       <2>22, <2>23, <2>24, <2>25, <2>26, <2>27, <2>28 DEF Next
<1> QED
  BY <1>1, <1>2 DEF Inductive

\* Every place of the boot path may rely on what the invariant says of it.
THEOREM Invariance == Spec => []Inductive
  BY InductiveInit, InductiveStep, PTL DEF Spec

-----------------------------------------------------------------------------
(* The safety properties.                                                  *)

\* Every state of the boot path is well typed.
THEOREM TypeCorrect == Spec => []TypeOK
<1>1. Inductive => TypeOK
  BY DEF Inductive
<1> QED
  BY <1>1, Invariance, PTL

\* The GEM driver is never live behind a PCIe link the reload took down.
THEOREM NicSafe == Spec => []NicOnLiveLink
<1>1. Inductive => NicOnLiveLink
  BY DEF Inductive, LinkInv
<1> QED
  BY <1>1, Invariance, PTL

\* Linux is entered with everything in place, in each of the three orders.
THEOREM LinuxIsReady == Spec => []LinuxReady
<1>1. Inductive => LinuxReady
  BY DEF Inductive, LinuxReady, ArtInv, GemInv, PolicyInv, Closing
<1> QED
  BY <1>1, Invariance, PTL

\* The firmware Linux meets is the one its ownership policy was read from.
THEOREM FirmwareMatches == Spec => []FirmwareMatchesPolicy
<1>1. Inductive => FirmwareMatchesPolicy
  BY DEF Inductive, FirmwareMatchesPolicy, FirmwareInv, Closing
<1> QED
  BY <1>1, Invariance, PTL

\* proc0 never starts on a partial image but in the build that says so.
THEOREM NeverWild == Spec => []NoWildStart
<1>1. Inductive => NoWildStart
  BY DEF Inductive, FirmwareInv
<1> QED
  BY <1>1, Invariance, PTL

\* The sealed build fails closed and leaves the GEM alone after the reload.
THEOREM SealedFailsClosed == Spec => []ScmiFailClosed
<1>1. Inductive => ScmiFailClosed
  <2> SUFFICES ASSUME Inductive, build.post = "scmi" PROVE ScmiFailClosed
    BY DEF ScmiFailClosed
  <2>1. Preload(build) /\ ~build.skip /\ ~build.cont /\ KernelFirst(build)
    BY BuildsAssumption DEF Inductive, TypeOK, AllBuilds, Preload, KernelFirst
  <2> QED
    BY <2>1 DEF Inductive, ScmiFailClosed, ScmiInv, FirmwareInv, ReloadInv,
                Closing
<1> QED
  BY <1>1, Invariance, PTL

\* A refused note never reaches the RP1, the tree or Linux.
THEOREM RefusedNeverBoots == Spec => []RefusedNoteNeverBoots
<1>1. Inductive => RefusedNoteNeverBoots
  BY DEF Inductive, RefusedNoteNeverBoots, Refused, PolicyInv, PolicyOf, Closing,
         BeforePolicy
<1> QED
  BY <1>1, Invariance, PTL

\* The loader does nothing after an incomplete link setup.
THEOREM TimeoutIsFinal == Spec => LinkTimeoutFinal
<1>1. Inductive /\ [Next]_vars =>
          [link = "incomplete" => LateLanding \/ UNCHANGED vars]_vars
  <2> SUFFICES ASSUME Inductive, Next, link = "incomplete"
               PROVE  LateLanding \/ UNCHANGED vars
    OBVIOUS
  <2>1. pc = "fatal"
    BY DEF Inductive, LinkInv
  <2> QED
    BY <2>1 DEF Next, FirmwareContext, CheckPlacement, InitTftpGem, InitPcie,
       InitGem, DhcpAcquire, DownloadKernel, DownloadInitramfs,
       DownloadLinuxDtb, DownloadElf, DownloadConfig, EnforcePolicy,
       FlushAndDrain, BuildImage, GdbSharedSram, ReleaseBeforeReload,
       ResetIntoBootrom, LoadImage, ProgramScratch, StartProc0, Observe,
       Decide, ReinitTftpGem, PatchDtb, ReleaseForLinux, CleanCaches,
       JumpToLinux, Finished
<1> QED
  BY <1>1, Invariance, PTL DEF Spec, LinkTimeoutFinal

-----------------------------------------------------------------------------
(* The local ports: a boot makes at most six requests, so the counter      *)
(* never comes back to the base.                                           *)

\* The requests made before each place, in the builds that fetch the kernel
\* before the reload and in those that fetch it after.
CountInv ==
    /\ Len(rrqs) <= 6
    /\ pc \in {"context", "place", "pcie", "gem", "dhcp"} => Len(rrqs) = 0
    /\ pc = "ldtb" => KernelFirst(build)
    /\ KernelFirst(build) =>
         /\ pc = "kernel" => Len(rrqs) = 0
         /\ pc = "initrd" => Len(rrqs) <= 1
         /\ pc = "ldtb" => Len(rrqs) <= 2
         /\ pc = "elf" => Len(rrqs) <= 3
         /\ pc = "config" => Len(rrqs) <= 4
         /\ pc \in {"policy", "flush"} => Len(rrqs) <= 5
    /\ ~KernelFirst(build) =>
         /\ pc = "elf" => Len(rrqs) = 0
         /\ pc = "config" => Len(rrqs) <= 1
         /\ pc \in {"policy", "flush"} => Len(rrqs) <= 2
         /\ pc \in {"image", "gdbsram", "release", "reset", "kernel"} \cup AfterReset =>
              Len(rrqs) <= 3
         /\ pc = "initrd" => Len(rrqs) <= 4

\* The ports are handed out one after the other.
PortInv ==
    /\ CountInv
    /\ port = FirstPort + Len(rrqs)
    /\ \A i \in 1..Len(rrqs) : rrqs[i] = FirstPort + i - 1

\* A further request gets the next port.
LEMMA NextRequest ==
    ASSUME TypeOK, PortInv, Rrq, Len(rrqs) <= 5
    PROVE  /\ Len(rrqs') = Len(rrqs) + 1 /\ port' = FirstPort + Len(rrqs')
           /\ \A i \in 1..Len(rrqs') : rrqs'[i] = FirstPort + i - 1
<1>1. /\ rrqs \in Seq(FirstPort..LastPort) /\ Len(rrqs) \in Nat
      /\ port \in FirstPort..LastPort /\ rrqs' = Append(rrqs, port)
  BY DEF TypeOK, Rrq
<1>2. Len(rrqs') = Len(rrqs) + 1
  BY <1>1
<1>3. port' = port + 1
  BY <1>1, PortsAssumption DEF Rrq, NextPort, PortInv
<1>4. ASSUME NEW i \in 1..Len(rrqs') PROVE rrqs'[i] = FirstPort + i - 1
  <2>1. CASE i = Len(rrqs) + 1
    <3>1. rrqs'[i] = port
      BY <1>1, <2>1
    <3> QED
      BY <1>1, <2>1, <3>1, PortsAssumption DEF PortInv
  <2>2. CASE i # Len(rrqs) + 1
    <3>1. i \in 1..Len(rrqs)
      BY <1>1, <1>2, <1>4, <2>2
    <3>2. rrqs'[i] = rrqs[i]
      BY <1>1, <3>1
    <3> QED
      BY <3>1, <3>2 DEF PortInv
  <2> QED
    BY <2>1, <2>2
<1> QED
  BY <1>1, <1>2, <1>3, <1>4, PortsAssumption DEF PortInv

\* The two programs' downloads and the steps between them keep the count.
LEMMA PortStep == Inductive /\ PortInv /\ [Next]_vars => PortInv'
<1> SUFFICES ASSUME Inductive, PortInv, [Next]_vars PROVE PortInv'
  OBVIOUS
<1>0. /\ TypeOK /\ CountInv /\ Len(rrqs) \in Nat /\ build \in AllBuilds
      /\ pc \in Steps \cup Ended
  BY BuildsAssumption DEF Inductive, TypeOK, PortInv
<1>1. ASSUME UNCHANGED <<build, port, rrqs>>, CountInv' PROVE PortInv'
  BY <1>1 DEF PortInv
<1>2. ASSUME Rrq, Len(rrqs) <= 5, Len(rrqs') = Len(rrqs) + 1 => CountInv' PROVE PortInv'
  BY <1>0, <1>2, NextRequest DEF PortInv
<1> USE DEF CountInv, KernelFirst, Preload, Gdb, AfterReset
<1>3. CASE FirmwareContext \/ CheckPlacement \/ InitTftpGem \/ DhcpAcquire
  BY <1>0, <1>1, <1>3 DEF FirmwareContext, CheckPlacement, InitTftpGem, InitPcie, InitGem,
                          DhcpAcquire, AfterLease
<1>4. CASE EnforcePolicy \/ BuildImage \/ GdbSharedSram \/ ReleaseBeforeReload
  BY <1>0, <1>1, <1>4 DEF EnforcePolicy, BuildImage, GdbSharedSram, ReleaseBeforeReload
<1>5. CASE ResetIntoBootrom \/ LoadImage \/ ProgramScratch \/ StartProc0
  BY <1>0, <1>1, <1>5 DEF ResetIntoBootrom, LoadImage, ProgramScratch, StartProc0,
                          OnPhaseFailure, OnFailure, AfterStart, ReturnPc
<1>6. CASE Observe \/ Decide
  BY <1>0, <1>1, <1>6 DEF Observe, Decide, OnBar2, Retry, AfterLinkTimeout, DecideScmi,
                          ReturnPc
<1>7. CASE ReinitTftpGem
  BY <1>0, <1>1, <1>7 DEF ReinitTftpGem, InitPcie, InitGem, Inductive, ReloadInv,
                          BeforeReset
<1>8. CASE PatchDtb \/ ReleaseForLinux \/ CleanCaches \/ JumpToLinux
  BY <1>0, <1>1, <1>8 DEF PatchDtb, AfterPatch, ReleaseForLinux, CleanCaches, JumpToLinux
<1>9. CASE Finished \/ UNCHANGED vars
  BY <1>0, <1>1, <1>9 DEF Finished, vars
<1>10. CASE DownloadKernel
  BY <1>0, <1>2, <1>10 DEF DownloadKernel, AfterInitrd
<1>11. CASE DownloadInitramfs
  BY <1>0, <1>2, <1>11 DEF DownloadInitramfs, AfterInitrd
<1>12. CASE DownloadLinuxDtb
  BY <1>0, <1>2, <1>12 DEF DownloadLinuxDtb
<1>13. CASE DownloadElf
  BY <1>0, <1>2, <1>13 DEF DownloadElf
<1>14. CASE DownloadConfig
  BY <1>0, <1>2, <1>14 DEF DownloadConfig
<1>15. CASE FlushAndDrain
  BY <1>0, <1>2, <1>15 DEF FlushAndDrain
<1>16. CASE LateLanding
  BY <1>0, <1>1, <1>16 DEF LateLanding
<1> QED
  BY <1>3, <1>4, <1>5, <1>6, <1>7, <1>8, <1>9, <1>10, <1>11, <1>12, <1>13, <1>14, <1>15,
     <1>16 DEF Next

\* No local port is used twice in a boot, for every range of seven ports or
\* more (net_boot.rs, TftpSessionPorts).
THEOREM PortsAreFresh == Spec => []FreshPorts
<1>1. Init => PortInv
  BY PortsAssumption DEF Init, PortInv, CountInv, AfterReset
<1>2. PortInv /\ TypeOK => FreshPorts
  <2> SUFFICES ASSUME PortInv, TypeOK, NEW i \in DOMAIN rrqs, NEW j \in DOMAIN rrqs,
                      rrqs[i] = rrqs[j]
               PROVE  i = j
    BY DEF FreshPorts
  <2>1. i \in 1..Len(rrqs) /\ j \in 1..Len(rrqs) /\ Len(rrqs) \in Nat
    BY DEF TypeOK
  <2> QED
    BY <2>1, PortsAssumption DEF PortInv
<1>3. Inductive => TypeOK
  BY DEF Inductive
<1> QED
  BY <1>1, <1>2, <1>3, PortStep, Invariance, PTL DEF Spec

-----------------------------------------------------------------------------
(* The boot path implements the abstract handoff.                          *)

\* What is in place is always a part of what is required.
LEMMA MetType == Met \in SUBSET Required /\ Met' \in SUBSET Required
  BY DEF Met

\* A step that leaves the GEM claim and the reset of the RP1 alone and does
\* not enter Linux is a Gather or a Stop of the abstract handoff.
LEMMA QuietStep ==
    ASSUME pc \in Steps, pc' \in (Steps \cup Ended) \ {"linux"},
           gem' = gem, Reloaded' = Reloaded
    PROVE  Promise!Gather \/ Promise!Stop
<1>1. Status = "loading" /\ Status' \in {"loading", "stopped"}
  BY DEF Status, Steps, Ended
<1> QED
  BY <1>1, MetType DEF Promise!Gather, Promise!Stop

\* The steps that are quiet in that sense.
LEMMA QuietActions ==
    ASSUME Inductive, Next, pc \notin Ended,
           ~InitTftpGem, ~ReinitTftpGem, ~ReleaseBeforeReload,
           ~ResetIntoBootrom, ~ReleaseForLinux, ~JumpToLinux
    PROVE  Promise!Gather \/ Promise!Stop
<1>1. /\ TypeOK /\ pc \in Steps
      /\ pc \in {"load", "scratch", "start"} => Reloaded
  BY DEF Inductive, TypeOK, ReloadInv, AfterReset
<1>2. /\ pc' \in (Steps \cup Ended) \ {"linux"}
      /\ gem' = gem
      /\ Reloaded' = Reloaded
  <2> USE DEF Steps, Ended, Reloaded, TypeOK
  <2>1. CASE FirmwareContext
    BY <2>1, <1>1 DEF FirmwareContext
  <2>2. CASE CheckPlacement
    BY <2>2, <1>1 DEF CheckPlacement
  <2>3. CASE DhcpAcquire
    BY <2>3, <1>1 DEF DhcpAcquire, AfterLease
  <2>4. CASE DownloadKernel
    BY <2>4, <1>1 DEF DownloadKernel, AfterInitrd
  <2>5. CASE DownloadInitramfs
    BY <2>5, <1>1 DEF DownloadInitramfs, AfterInitrd
  <2>6. CASE DownloadLinuxDtb
    BY <2>6, <1>1 DEF DownloadLinuxDtb
  <2>7. CASE DownloadElf
    BY <2>7, <1>1 DEF DownloadElf
  <2>8. CASE DownloadConfig
    BY <2>8, <1>1 DEF DownloadConfig
  <2>9. CASE EnforcePolicy
    BY <2>9, <1>1 DEF EnforcePolicy
  <2>10. CASE FlushAndDrain
    BY <2>10, <1>1 DEF FlushAndDrain
  <2>11. CASE BuildImage
    BY <2>11, <1>1 DEF BuildImage
  <2>12. CASE GdbSharedSram
    BY <2>12, <1>1 DEF GdbSharedSram
  <2>13. CASE LoadImage
    BY <2>13, <1>1 DEF LoadImage, OnPhaseFailure, OnFailure, AfterStart, ReturnPc
  <2>14. CASE ProgramScratch
    BY <2>14, <1>1 DEF ProgramScratch, OnPhaseFailure, OnFailure, AfterStart, ReturnPc
  <2>15. CASE StartProc0
    BY <2>15, <1>1 DEF StartProc0, OnPhaseFailure, OnFailure, AfterStart, ReturnPc
  <2>16. CASE Observe
    BY <2>16, <1>1 DEF Observe, OnBar2, Retry, AfterLinkTimeout
  <2>17. CASE Decide
    BY <2>17, <1>1 DEF Decide, DecideScmi, ReturnPc
  <2>18. CASE PatchDtb
    BY <2>18, <1>1 DEF PatchDtb, AfterPatch
  <2>19. CASE CleanCaches
    BY <2>19, <1>1 DEF CleanCaches
  <2>20. CASE LateLanding
    <3>1. UNCHANGED <<pc, gem>> /\ Reloaded /\ Reloaded'
      BY <2>20, LateLands DEF Inductive, ReloadInv
    <3> QED
      BY <3>1, <1>1
  <2> QED
    BY <2>1, <2>2, <2>3, <2>4, <2>5, <2>6, <2>7, <2>8, <2>9, <2>10, <2>11, <2>12, <2>13,
       <2>14, <2>15, <2>16, <2>17, <2>18, <2>19, <2>20
       DEF Next, Finished
<1> QED
  BY <1>1, <1>2, QuietStep

\* A PCIe or GEM initialisation takes the nic, or is a Gather or a Stop.
LEMMA NicSteps ==
    ASSUME Inductive, InitTftpGem \/ ReinitTftpGem
    PROVE  Promise!Take \/ Promise!Gather \/ Promise!Stop
<1>1. /\ pc \in {"pcie", "gem", "repcie", "regem"}
      /\ pc' \in {"gem", "dhcp", "regem", "kernel", "fatal"}
      /\ Reloaded' = Reloaded
      /\ Met' = Met
      /\ gem' = gem \/ (gem' = "live" /\ pc' # "fatal")
  BY DEF InitTftpGem, ReinitTftpGem, InitPcie, InitGem, Reloaded, Met, FirmwareUp
<1>2. Status = "loading" /\ Status' = IF pc' = "fatal" THEN "stopped" ELSE "loading"
  BY <1>1 DEF Status, Ended
<1>3. CASE gem' = gem
  BY <1>1, <1>2, <1>3, MetType DEF Promise!Gather, Promise!Stop
<1>4. CASE gem' = "live" /\ pc' # "fatal"
  BY <1>1, <1>2, <1>4, MetType DEF Promise!Take, Promise!Gather
<1> QED
  BY <1>1, <1>3, <1>4

\* Both releases free the nic or stop.
LEMMA ReleaseSteps ==
    ASSUME Inductive, ReleaseBeforeReload \/ ReleaseForLinux
    PROVE  Promise!Release \/ Promise!Gather \/ Promise!Stop
<1>1. /\ pc \in {"release", "handoff"}
      /\ pc' \in {"reset", "clean", "fatal"}
      /\ Reloaded' = Reloaded
      /\ Met' = Met
      /\ gem' = gem \/ (gem' = "released" /\ pc' # "fatal")
  BY DEF ReleaseBeforeReload, ReleaseForLinux, AfterQuiesce, Reloaded, Met,
         FirmwareUp
<1>2. Status = "loading" /\ Status' = IF pc' = "fatal" THEN "stopped" ELSE "loading"
  BY <1>1 DEF Status, Ended
<1>3. CASE gem' = gem
  BY <1>1, <1>2, <1>3, MetType DEF Promise!Gather, Promise!Stop
<1>4. CASE gem' = "released" /\ pc' # "fatal"
  BY <1>1, <1>2, <1>4, MetType DEF Promise!Release, Promise!Gather
<1> QED
  BY <1>1, <1>3, <1>4

\* The reset finds the nic released and the RP1 not yet reloaded.
LEMMA ReloadStep == ASSUME Inductive, ResetIntoBootrom PROVE Promise!Reload
<1>1. gem = "released" /\ gem' = gem /\ ~Reloaded
  BY DEF Inductive, GemInv, ReloadInv, BeforeReset, ResetIntoBootrom
<1>2. Reloaded'
  BY DEF ResetIntoBootrom, Reloaded
<1>3. Status = "loading" /\ Status' \in {"loading", "stopped"}
  BY DEF ResetIntoBootrom, OnFailure, ReturnPc, Status
<1> QED
  BY <1>1, <1>2, <1>3, MetType DEF Promise!Reload

\* The jump finds everything required in place.
LEMMA EnterStep == ASSUME Inductive, JumpToLinux PROVE Promise!Enter
<1>1. pc = "jump" /\ pc' = "linux" /\ gem' = gem /\ Reloaded' = Reloaded
  BY DEF JumpToLinux, Reloaded
<1>2. gem = "released" /\ art.kernel # "none" /\ tree /\ coherent
  BY <1>1 DEF Inductive, GemInv, ArtInv, Closing
<1>3. build.skip \/ build.cont \/ FirmwareUp
  BY <1>1 DEF Inductive, FirmwareInv, Closing
<1>4. Met = Required /\ Met' = Met
  BY <1>2, <1>3 DEF Met, Required, JumpToLinux, FirmwareUp
<1> QED
  BY <1>1, <1>2, <1>4 DEF Promise!Enter, Status

\* Every behaviour of the boot path is one of the abstract handoff.
THEOREM ImplementsHandoff == Spec => KeepsPromise
<1>1. Init => Promise!Init
  BY MetType DEF Init, Promise!Init, Status, Reloaded
<1>2. Inductive /\ [Next]_vars => [Promise!Next]_(Promise!vars)
  <2> SUFFICES ASSUME Inductive, [Next]_vars
               PROVE  Promise!Next \/ UNCHANGED Promise!vars
    OBVIOUS
  <2>1. CASE UNCHANGED vars \/ Finished
    BY <2>1 DEF vars, Finished, Promise!vars, Status, Reloaded, Met, FirmwareUp
  <2>2. CASE Next /\ pc \notin Ended
    BY <2>2, QuietActions, NicSteps, ReleaseSteps, ReloadStep, EnterStep
       DEF Promise!Next
  <2>3. CASE LateLanding /\ pc \in Ended
    <3>1. Status' = Status /\ Status \in {"linux", "stopped"} /\ gem' = gem
      BY <2>3 DEF LateLanding, Status, Ended
    <3>2. /\ UNCHANGED <<build, pc, art, tree, coherent>>
          /\ Reloaded' = Reloaded
          /\ FirmwareUp => FirmwareUp'
      <4>1. ~Reloaded => rp1.owed = "none"
        BY DEF Inductive, ReloadInv
      <4> QED
        BY <2>3, <4>1, LateLands DEF Inductive, FirmwareUp
    <3>3. CASE pc # "linux"
      BY <3>1, <3>2, <3>3, MetType DEF Promise!Next, Promise!Settle, Status
    <3>4. CASE pc = "linux"
      <4>1. build.skip \/ build.cont \/ FirmwareUp
        BY <3>4 DEF Inductive, FirmwareInv, Closing
      <4>2. Met' = Met
        BY <3>2, <4>1 DEF Met
      <4> QED
        BY <3>1, <3>2, <4>2 DEF Promise!vars
    <3> QED
      BY <3>3, <3>4
  <2>4. CASE Next /\ ~LateLanding /\ pc \in Ended
    <3>1. Finished
      BY <2>4 DEF Ended, Next, FirmwareContext, CheckPlacement, InitTftpGem,
         InitPcie, InitGem, DhcpAcquire, DownloadKernel, DownloadInitramfs,
         DownloadLinuxDtb, DownloadElf, DownloadConfig, EnforcePolicy,
         FlushAndDrain, BuildImage, GdbSharedSram, ReleaseBeforeReload,
         ResetIntoBootrom, LoadImage, ProgramScratch, StartProc0, Observe,
         Decide, ReinitTftpGem, PatchDtb, ReleaseForLinux, CleanCaches,
         JumpToLinux
    <3> QED
      BY <3>1, <2>1
  <2> QED
    BY <2>1, <2>2, <2>3, <2>4
<1> QED
  BY <1>1, <1>2, Invariance, PTL DEF Spec, KeepsPromise, Promise!Spec

-----------------------------------------------------------------------------
(* How long a boot can take.                                               *)

\* The calls still to come at most, when the kernel is fetched before RP1.elf
\* and when it is fetched after the reload; the observer counts its attempts.
EarlyLeft == [kernel |-> 27, initrd |-> 26]
LateLeft == [kernel |-> 6, initrd |-> 5]

PathLeft ==
    [context |-> 32, place |-> 31, pcie |-> 30, gem |-> 29, dhcp |-> 28,
     ldtb |-> 25, elf |-> 24, config |-> 23, policy |-> 22, flush |-> 21,
     image |-> 20, gdbsram |-> 19, release |-> 18, reset |-> 17, load |-> 16,
     scratch |-> 15, start |-> 14, decide |-> 9, repcie |-> 8, regem |-> 7,
     patch |-> 4, handoff |-> 3, clean |-> 2, jump |-> 1]

CallsLeft ==
    IF pc \in Ended THEN 0
    ELSE IF pc = "observe" THEN 13 - attempt
    ELSE IF pc \notin {"kernel", "initrd"} THEN PathLeft[pc]
    ELSE IF KernelFirst(build) THEN EarlyLeft[pc] ELSE LateLeft[pc]

\* boot_from_tftp_with_dhcp and all it calls, and the Linux handoff after it:
\* no build, no answer and no error makes the boot path take a step twice, but
\* for the four attempts of the post-reload observer.  Every call is one fewer
\* to come, at most 32 of them, and none is left exactly where the boot ended;
\* what the I2C controller lands late is no call.
CallsBounded ==
    /\ [](CallsLeft \in 0..32 /\ (CallsLeft = 0 <=> pc \in Ended))
    /\ [][CallsLeft' < CallsLeft \/ (LateLanding /\ CallsLeft' = CallsLeft)]_vars

\* The count, place by place.
LEMMA CallsLeftAt ==
    /\ pc \in Ended => CallsLeft = 0
    /\ pc = "observe" => CallsLeft = 13 - attempt
    /\ pc \in {"kernel", "initrd"} /\ KernelFirst(build) => CallsLeft = EarlyLeft[pc]
    /\ pc \in {"kernel", "initrd"} /\ ~KernelFirst(build) => CallsLeft = LateLeft[pc]
    /\ pc \in Steps \ {"observe", "kernel", "initrd"} => CallsLeft = PathLeft[pc]
  BY DEF CallsLeft, Steps, Ended

\* The count stays within its bounds.
LEMMA CallsRange ==
    ASSUME Inductive
    PROVE  CallsLeft \in 0..32 /\ (CallsLeft = 0 <=> pc \in Ended)
<1>1. pc \in Steps \cup Ended /\ attempt \in 0..4 /\ (pc = "observe" => attempt < 4)
  BY DEF Inductive, TypeOK, ReloadInv
<1>2. CASE pc \in Steps \ {"observe", "kernel", "initrd"}
  BY <1>2, CallsLeftAt DEF PathLeft, Steps, Ended
<1>3. CASE pc \in {"kernel", "initrd"}
  BY <1>3, CallsLeftAt DEF EarlyLeft, LateLeft, Ended
<1>4. CASE pc = "observe" \/ pc \in Ended
  BY <1>1, <1>4, CallsLeftAt DEF Ended
<1> QED
  BY <1>1, <1>2, <1>3, <1>4

\* Every call of the boot path is one fewer to come.
LEMMA CallShortens ==
    ASSUME Inductive, Inductive', Next
    PROVE  \/ CallsLeft' < CallsLeft
           \/ LateLanding /\ CallsLeft' = CallsLeft
           \/ UNCHANGED vars
<1>1. /\ attempt \in 0..4 /\ (pc = "observe" => attempt < 4)
      /\ attempt' \in 0..4 /\ (pc' = "observe" => attempt' < 4)
      /\ pc \in {"load", "scratch", "start"} => attempt = 0
  BY DEF Inductive, TypeOK, ReloadInv
<1>2. /\ pc' \in Ended => CallsLeft' = 0
      /\ pc' = "observe" => CallsLeft' = 13 - attempt'
      /\ pc' \in {"kernel", "initrd"} /\ KernelFirst(build') =>
             CallsLeft' = EarlyLeft[pc']
      /\ pc' \in {"kernel", "initrd"} /\ ~KernelFirst(build') =>
             CallsLeft' = LateLeft[pc']
      /\ pc' \in Steps \ {"observe", "kernel", "initrd"} =>
             CallsLeft' = PathLeft[pc']
  BY DEF CallsLeft, Steps, Ended
<1>3. CASE pc' = "fatal" /\ pc \notin Ended
  BY <1>2, <1>3, CallsRange DEF Ended
<1>4. CASE FirmwareContext \/ CheckPlacement \/ InitTftpGem
  <2>1. \/ pc = "context" /\ pc' = "place"
        \/ pc = "place" /\ pc' = "pcie"
        \/ pc = "pcie" /\ pc' = "gem"
        \/ pc = "gem" /\ pc' = "dhcp"
        \/ pc' = "fatal" /\ pc \notin Ended
    BY <1>4 DEF FirmwareContext, CheckPlacement, InitTftpGem, InitPcie, InitGem, Ended
  <2> QED
    BY <1>2, <1>3, <2>1, CallsLeftAt DEF Steps, PathLeft
<1>5. CASE DhcpAcquire
  <2>1. \/ pc = "dhcp" /\ pc' = "kernel" /\ KernelFirst(build')
        \/ pc = "dhcp" /\ pc' = "elf"
        \/ pc' = "fatal" /\ pc \notin Ended
    BY <1>5 DEF DhcpAcquire, AfterLease, KernelFirst, Ended
  <2> QED
    BY <1>2, <1>3, <2>1, CallsLeftAt DEF Steps, PathLeft, EarlyLeft
<1>6. CASE DownloadKernel \/ DownloadInitramfs
  <2>1. /\ KernelFirst(build') <=> KernelFirst(build)
        /\ build' = build
    BY <1>6 DEF DownloadKernel, DownloadInitramfs
  <2>2. build.post = "scmi" => KernelFirst(build)
    BY BuildsAssumption DEF Inductive, TypeOK, AllBuilds, KernelFirst, Preload
  <2>3. \/ pc = "kernel" /\ pc' = "initrd"
        \/ pc \in {"kernel", "initrd"} /\ pc' = AfterInitrd(build)
        \/ pc' = "fatal" /\ pc \notin Ended
    BY <1>6 DEF DownloadKernel, DownloadInitramfs, Ended
  <2>4. IF KernelFirst(build) THEN AfterInitrd(build) \in {"ldtb", "elf"}
                              ELSE AfterInitrd(build) = "patch"
    BY <2>2 DEF AfterInitrd, KernelFirst
  <2> QED
    BY <1>2, <1>3, <2>1, <2>3, <2>4, CallsLeftAt
       DEF Steps, PathLeft, EarlyLeft, LateLeft
<1>7. CASE \/ DownloadLinuxDtb \/ DownloadElf \/ DownloadConfig \/ EnforcePolicy
           \/ FlushAndDrain \/ BuildImage \/ GdbSharedSram \/ ReleaseBeforeReload
  <2>1. \/ pc = "ldtb" /\ pc' = "elf"
        \/ pc = "elf" /\ pc' = "config"
        \/ pc = "config" /\ pc' = "policy"
        \/ pc = "policy" /\ pc' = "flush"
        \/ pc = "flush" /\ pc' \in {"patch", "image"}
        \/ pc = "image" /\ pc' \in {"gdbsram", "release"}
        \/ pc = "gdbsram" /\ pc' = "release"
        \/ pc = "release" /\ pc' = "reset"
        \/ pc' = "fatal" /\ pc \notin Ended
    BY <1>7 DEF DownloadLinuxDtb, DownloadElf, DownloadConfig, EnforcePolicy,
       FlushAndDrain, BuildImage, GdbSharedSram, ReleaseBeforeReload, Ended
  <2> QED
    BY <1>2, <1>3, <2>1, CallsLeftAt DEF Steps, PathLeft
<1>8. CASE ResetIntoBootrom \/ LoadImage \/ ProgramScratch
  <2>1. \/ pc = "reset" /\ pc' \in {"load", "patch", "repcie"}
        \/ pc = "load" /\ pc' \in {"scratch", "halted", "patch", "repcie"}
        \/ pc = "scratch" /\ pc' \in {"start", "halted", "patch", "repcie"}
        \/ pc' = "fatal" /\ pc \notin Ended
    BY <1>8 DEF ResetIntoBootrom, LoadImage, ProgramScratch, OnPhaseFailure,
       OnFailure, AfterStart, ReturnPc, Ended
  <2> QED
    BY <1>2, <1>3, <2>1, CallsLeftAt DEF Steps, Ended, PathLeft
<1>9. CASE StartProc0
  <2>1. /\ pc = "start" /\ pc' \in {"observe", "halted", "patch", "repcie", "fatal"}
        /\ attempt' = attempt
    BY <1>9 DEF StartProc0, OnPhaseFailure, OnFailure, AfterStart, ReturnPc
  <2>2. CASE pc' = "observe"
    BY <1>1, <1>2, <2>1, <2>2, CallsLeftAt DEF Steps, PathLeft
  <2> QED
    BY <1>2, <2>1, <2>2, CallsLeftAt DEF Steps, Ended, PathLeft
<1>10. CASE Observe
  <2>1. /\ pc = "observe" /\ attempt' = attempt + 1
        /\ pc' \in {"observe", "decide", "patch", "fatal", "halted"}
    BY <1>10 DEF Observe, OnBar2, Retry, AfterLinkTimeout
  <2>2. CallsLeft = 13 - attempt /\ attempt \in 0..3
    BY <1>1, <2>1, CallsLeftAt
  <2>3. CASE pc' = "observe"
    BY <1>2, <2>1, <2>2, <2>3
  <2>4. CASE pc' # "observe"
    <3>1. CallsLeft' \in {0, 4, 9}
      BY <1>2, <2>1, <2>4 DEF Steps, Ended, PathLeft
    <3> QED
      BY <2>2, <3>1
  <2> QED
    BY <2>3, <2>4
<1>11. CASE Decide
  <2>1. pc = "decide" /\ pc' \in {"fatal", "halted", "serving", "patch", "repcie"}
    BY <1>11 DEF Decide, DecideScmi, ReturnPc
  <2> QED
    BY <1>2, <2>1, CallsLeftAt DEF Steps, Ended, PathLeft
<1>12. CASE ReinitTftpGem
  <2>1. \/ pc = "repcie" /\ pc' = "regem"
        \/ pc = "regem" /\ pc' = "kernel" /\ build' = build
        \/ pc' = "fatal" /\ pc \notin Ended
    BY <1>12 DEF ReinitTftpGem, InitPcie, InitGem, Ended
  <2>2. pc = "regem" => ~KernelFirst(build)
    BY DEF KernelFirst, Inductive, ReloadInv, AfterReset
  <2> QED
    BY <1>2, <1>3, <2>1, <2>2, CallsLeftAt DEF Steps, PathLeft, LateLeft
<1>13. CASE PatchDtb \/ ReleaseForLinux \/ CleanCaches \/ JumpToLinux
  <2>1. \/ pc = "patch" /\ pc' \in {"clean", "handoff"}
        \/ pc = "handoff" /\ pc' = "clean"
        \/ pc = "clean" /\ pc' = "jump"
        \/ pc = "jump" /\ pc' = "linux"
        \/ pc' = "fatal" /\ pc \notin Ended
    BY <1>13 DEF PatchDtb, AfterPatch, ReleaseForLinux, CleanCaches,
       JumpToLinux, Ended
  <2> QED
    BY <1>2, <1>3, <2>1, CallsLeftAt DEF Steps, Ended, PathLeft
<1>14. CASE LateLanding
  <2>1. pc' = pc /\ build' = build /\ attempt' = attempt
    BY <1>14 DEF LateLanding
  <2> QED
    BY <1>14, <2>1 DEF CallsLeft
<1> QED
  BY <1>4, <1>5, <1>6, <1>7, <1>8, <1>9, <1>10, <1>11, <1>12, <1>13, <1>14
     DEF Next, Finished

\* Every boot ends within 32 calls, the observer's four attempts included;
\* that each call returns is what the models of the callees show.
THEOREM BootIsBounded == Spec => CallsBounded
<1>1. Inductive => CallsLeft \in 0..32 /\ (CallsLeft = 0 <=> pc \in Ended)
  BY CallsRange
<1>2. ASSUME Inductive, Inductive', [Next]_vars
      PROVE  [CallsLeft' < CallsLeft \/ (LateLanding /\ CallsLeft' = CallsLeft)]_vars
  BY <1>2, CallShortens
<1> QED
  BY <1>1, <1>2, Invariance, PTL DEF Spec, CallsBounded
=============================================================================
