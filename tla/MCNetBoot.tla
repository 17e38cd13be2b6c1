----------------------------- MODULE MCNetBoot -----------------------------
(* Every build of the network boot path, and a port range just long enough *)
(* for the requests of one boot.  Then three sentences of the README, the  *)
(* comments and the log, stated as properties for runs of their own.       *)
EXTENDS NetBoot

EveryBuild == AllBuilds

\* README.md:635-638: a gzip kernel is inflated and its ISIZE verified, so
\* what is entered is the file that was sent.
IsizeVerified == pc = "linux" => art.kernel = "intact"

\* README.md:304-307: under a valid note the owner table of config_rp1.txt is
\* ignored, so a line in it that does not parse does not stop the boot.
OwnerTableIgnored ==
    [][pc = "policy" /\ art.elf = "valid" /\ art.config.malformed = "owner"
       => pc' = "flush"]_vars

\* main.rs "RP1 PCIe recovered; continuing to Linux handoff": the observing
\* build says so only of a BAR that an init after the reload produced.
ObservedRecovery ==
    [][pc = "decide" /\ build.post = "observe" /\ seen # "none"
       => seen = "post"]_vars
=============================================================================
