--------------------------- MODULE SetupContract ---------------------------
(***************************************************************************)
(* What an installation promises, whatever steps it takes: the machine is  *)
(* changed as one transaction.  A run that was refused has changed         *)
(* nothing, a committed run has installed everything, a run that reports   *)
(* its rollback has put everything back; a failed one says so.  Two things *)
(* release the installer from its promise (meddled): a third party that    *)
(* touches the machine while the run is under way, and a service that the  *)
(* installer could not open and therefore took for absent.                 *)
(***************************************************************************)
CONSTANTS
    Installed(_),       \* Installed(m): all of m is the new installation
    PutBack(_, _)       \* PutBack(b, m): m is b again

VARIABLES phase, machine, before, meddled

cvars == <<phase, machine, before, meddled>>

Ended == {"committed", "refused", "rolled_back", "failed"}

Init == phase = "idle" /\ meddled = FALSE

\* Between two installations anybody may change the machine.
Outside == phase \in {"idle"} \cup Ended /\ phase' = phase

Begin ==
    /\ phase \in {"idle"} \cup Ended
    /\ phase' = "busy" /\ before' = machine /\ machine' = machine
    /\ meddled' = FALSE

\* The steps of the installation and of its rollback, and other programs.
Work == phase = "busy" /\ phase' = "busy" /\ before' = before
        /\ (meddled => meddled')

End(p, promise) ==
    /\ phase = "busy" /\ phase' = p
    /\ meddled \/ promise
    /\ UNCHANGED <<machine, meddled>>

Commit   == End("committed", Installed(machine))
Refuse   == End("refused", machine = before)
RollBack == End("rolled_back", PutBack(before, machine))
Fail     == End("failed", TRUE)

\* The installer is killed: nobody reports anything.
Killed == phase = "busy" /\ phase' = "idle"

\* A run ended or killed may be followed by an uninstallation.
Leave == phase \in Ended /\ phase' = "idle"

Next == Outside \/ Begin \/ Work \/ Commit \/ Refuse \/ RollBack \/ Fail
        \/ Killed \/ Leave

Spec == Init /\ [][Next]_cvars
=============================================================================
