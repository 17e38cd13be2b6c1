------------------------------- MODULE Handoff -------------------------------
(***************************************************************************)
(* What a boot of the RP1 chainloader promises, without saying how: the    *)
(* network interface (nic) belongs either to the loader or to nobody, the  *)
(* RP1 is reloaded at most once and never while the loader holds the nic,  *)
(* and Linux is entered at most once, with everything it needs in place    *)
(* and with the nic given up.  A boot that stops stays stopped.            *)
(***************************************************************************)
CONSTANT Required       \* what must be in place before Linux is entered

VARIABLES
    status,             \* "loading", "linux" or "stopped"
    nic,                \* "free" or "held" by the loader
    reloaded,           \* TRUE once the RP1 has been reset by the loader
    met                 \* the members of Required in place

vars == <<status, nic, reloaded, met>>

Init ==
    /\ status = "loading"
    /\ nic = "free"
    /\ reloaded = FALSE
    /\ met \in SUBSET Required

Take ==
    /\ status = "loading"
    /\ nic = "free"
    /\ nic' = "held"
    /\ UNCHANGED <<status, reloaded, met>>

Release ==
    /\ status = "loading"
    /\ nic = "held"
    /\ nic' = "free"
    /\ UNCHANGED <<status, reloaded, met>>

\* A reset of the RP1 removes the nic from the bus.
Reload ==
    /\ status = "loading"
    /\ nic = "free"
    /\ ~reloaded
    /\ reloaded' = TRUE
    /\ met' \in SUBSET Required
    /\ status' \in {"loading", "stopped"}
    /\ UNCHANGED nic

\* Anything else the loader does: it gathers what Linux needs.
Gather ==
    /\ status = "loading"
    /\ met' \in SUBSET Required
    /\ UNCHANGED <<status, nic, reloaded>>

Enter ==
    /\ status = "loading"
    /\ nic = "free"
    /\ met = Required
    /\ status' = "linux"
    /\ UNCHANGED <<nic, reloaded, met>>

\* The loader gives up, wherever it is; the artefacts no longer matter.
Stop ==
    /\ status = "loading"
    /\ status' = "stopped"
    /\ met' \in SUBSET Required
    /\ UNCHANGED <<nic, reloaded>>

\* What a boot that stopped has left under way may still come to an end.
Settle ==
    /\ status = "stopped"
    /\ met' \in SUBSET Required
    /\ UNCHANGED <<status, nic, reloaded>>

Next == Take \/ Release \/ Reload \/ Gather \/ Enter \/ Stop \/ Settle

Spec == Init /\ [][Next]_vars
=============================================================================
