------------------------------ MODULE Watchdog ------------------------------
(***************************************************************************)
(* The wired-session watchdog (src/watchdog.rs, src/backoff.rs) together   *)
(* with the dialer the service gives it (RealDialer in src/runtime.rs and  *)
(* ras::dial in src/ras.rs), and the part of Windows they drive: the       *)
(* PPPoE port, its RAS connection and the Ethernet carrier.                *)
(*                                                                         *)
(* run_once is the only method that waits.  It is split where it waits on  *)
(* the outside world: RunOnce runs it up to the dial or to the probe, and  *)
(* FinishDial / FinishProbe run it from there to its return, so cable,     *)
(* server and other programs may act in between.  The supervisor's shell   *)
(* executes one effect at a time, hence set_eth_link, request_redial and   *)
(* shutdown are only called between two run_once calls (pc = "idle").      *)
(***************************************************************************)
EXTENDS Integers

CONSTANTS
    RedialMin,          \* watchdog_cfg.redial_min (1 s)
    RedialMax,          \* watchdog_cfg.redial_max (300 s)
    ProbeInterval,      \* config dial.probe_interval_secs
    AuthFailDelay,      \* AUTH_FAIL_DELAY (600 s)
    LinkDownRetry,      \* LINK_DOWN_RETRY (5 s)
    StableResetAfter,   \* STABLE_RESET_AFTER (300 s)
    WedgeRestartAfter,  \* WEDGE_RESTART_AFTER (3)
    ShiftCap,           \* the exponent cap of next_delay (20)
    AttemptCap,         \* u32::MAX, where attempt counters saturate
    MaxRestarts         \* bound: service process restarts in one behaviour

ASSUME WatchdogAssumption ==
    /\ RedialMin \in Nat \ {0}
    /\ RedialMax \in Nat
    /\ RedialMin =< RedialMax
    /\ ProbeInterval \in Nat \ {0}
    /\ AuthFailDelay \in Nat
    /\ LinkDownRetry \in Nat
    /\ StableResetAfter \in Nat
    /\ WedgeRestartAfter \in Nat \ {0}
    /\ ShiftCap \in Nat
    /\ AttemptCap \in Nat
    /\ ShiftCap < AttemptCap
    /\ MaxRestarts \in Nat

\* The shift 1u32 << k is a positive integer for every exponent used: the
\* provers know nothing of powers, so TLC evaluates this one.
ASSUME ShiftAssumption == \A k \in 0..ShiftCap : 2^k \in Nat \ {0}

VARIABLES
    \* struct Watchdog
    phase, attempts, backoff_attempt, since, probe_fails, stable_for,
    last_drop_reason, redial_requested, eth_link,
    \* where run_once stands, and the delay it last returned
    pc, delay,
    \* struct RealDialer: session is TRUE when a RAS handle is held
    session, wedge_fails,
    \* Windows: RAS connection on the port, port stuck dialing, carrier
    ras, wedged, carrier,
    \* the service process: stopped after shutdown; restarts so far
    stopped, restarts,
    \* history: bad verdicts in a row that the present session got
    bad_probes

wdVars   == <<phase, attempts, backoff_attempt, since, probe_fails, stable_for,
              last_drop_reason, redial_requested, eth_link, pc, delay>>
dialVars == <<session, wedge_fails>>
osVars   == <<ras, wedged, carrier>>
procVars == <<stopped, restarts>>
vars     == <<wdVars, dialVars, osVars, procVars, bad_probes>>

Phase  == {"Idle", "Dialing", "Connected", "Backoff", "AuthFail"}
Reason == {"None", "ManualRedial", "SessionNotFound", "ProbeFailed",
           "EthernetLinkDown", "AuthFailed", "DialFailed"}
Link   == {"None", "Up", "Down"}   \* Option<bool>

Least(a, b)   == IF a < b THEN a ELSE b
Greatest(a, b) == IF a < b THEN b ELSE a

(***************************************************************************)
(* Backoff.                                                                *)
(***************************************************************************)
SaturatingIncr(n) == Least(n + 1, AttemptCap)

\* Backoff::next_delay as a function of its attempt counter; the counter's
\* own step is SaturatingIncr.
NextDelay(n) ==
    Greatest(Least(RedialMin * 2^Least(n, ShiftCap), RedialMax), RedialMin)

(***************************************************************************)
(* The RAS layer.  ras = "live": a connection whose handle reports         *)
(* Connected; "stale": a connection that occupies the port but is not (or  *)
(* no longer) a live session of ours; "none": the port is free.            *)
(***************************************************************************)
IsConnected == session /\ ras = "live"

\* RealDialer::hangup: the handle is given up whatever RasHangUp answers; a
\* failed hang-up leaves the connection on the port.
Hangup ==
    \/ /\ session /\ session' = FALSE
       /\ ras' \in {"none", IF ras = "none" THEN "none" ELSE "stale"}
    \/ ~session /\ UNCHANGED <<session, ras>>

PortBusy(r) == wedged \/ r # "none"

\* ras::dial_once on a port in state r.  "Busy" stands for errors 756 and 813.
DialOnce(r) ==
    IF PortBusy(r) THEN {"Busy"}
    ELSE IF carrier THEN {"Ok", "Auth", "Other"} ELSE {"Other"}

\* The port when ras::dial makes its last attempt: after a first 756/813 it
\* hangs up every enumerated PPPoE connection, which may or may not free it.
PortAtLastTry == IF PortBusy(ras) THEN {ras, "none"} ELSE {ras}

(***************************************************************************)
(* Watchdog::new, and Windows as the first start of the service finds it:  *)
(* an earlier process or another client may have left a connection.        *)
(***************************************************************************)
Init ==
    /\ phase = "Idle" /\ attempts = 0 /\ backoff_attempt = 0
    /\ since = FALSE /\ probe_fails = 0 /\ stable_for = 0
    /\ last_drop_reason = "None" /\ redial_requested = FALSE
    /\ eth_link = "None" /\ pc = "idle" /\ delay = 0
    /\ session = FALSE /\ wedge_fails = 0
    /\ ras \in {"none", "stale"} /\ wedged = FALSE /\ carrier \in BOOLEAN
    /\ stopped = FALSE /\ restarts = 0 /\ bad_probes = 0

(***************************************************************************)
(* Calls of the shell between two steps.                                   *)
(***************************************************************************)
SetEthLink(up) ==
    /\ pc = "idle" /\ ~stopped /\ eth_link # up
    /\ eth_link' = up
    /\ UNCHANGED <<phase, attempts, backoff_attempt, since, probe_fails,
                   stable_for, last_drop_reason, redial_requested, pc, delay,
                   dialVars, osVars, procVars, bad_probes>>

RequestRedial ==
    /\ pc = "idle" /\ ~stopped /\ ~redial_requested
    /\ redial_requested' = TRUE
    /\ UNCHANGED <<phase, attempts, backoff_attempt, since, probe_fails,
                   stable_for, last_drop_reason, eth_link, pc, delay,
                   dialVars, osVars, procVars, bad_probes>>

Shutdown ==
    /\ pc = "idle" /\ ~stopped
    /\ Hangup
    /\ stopped' = TRUE
    /\ UNCHANGED <<wdVars, wedge_fails, wedged, carrier, restarts, bad_probes>>

(***************************************************************************)
(* run_once.  DoDial(reason) is do_dial up to the dial itself, entered     *)
(* with last_drop_reason = reason.                                         *)
(***************************************************************************)
DoDial(reason) ==
    \/ /\ eth_link = "Down"
       /\ phase' = "Backoff" /\ last_drop_reason' = "EthernetLinkDown"
       /\ pc' = "idle" /\ delay' = LinkDownRetry
    \/ /\ eth_link # "Down"
       /\ phase' = "Dialing" /\ last_drop_reason' = reason
       /\ pc' = "dial" /\ UNCHANGED delay

\* record_drop, hangup and do_dial: every way a session ends.
DropAndRedial(reason) ==
    /\ since' = FALSE /\ probe_fails' = 0 /\ stable_for' = 0
    /\ Hangup
    /\ DoDial(reason)
    /\ UNCHANGED <<attempts, backoff_attempt>>

DialAgain ==
    /\ DoDial(last_drop_reason)
    /\ UNCHANGED <<attempts, backoff_attempt, since, probe_fails, stable_for,
                   session, ras>>

RedialWithoutHangup ==
    /\ redial_requested /\ redial_requested' = FALSE
    /\ DialAgain

\* The one-shot redial flag is consumed first, whatever the phase.
ConsumeRedial ==
    /\ redial_requested /\ redial_requested' = FALSE
    /\ IF phase = "Connected" \/ IsConnected
       THEN DropAndRedial("ManualRedial")
       ELSE DialAgain

StepConnected ==
    /\ ~redial_requested /\ phase = "Connected"
    /\ IF IsConnected
       THEN /\ pc' = "probe"
            /\ UNCHANGED <<phase, attempts, backoff_attempt, since, probe_fails,
                           stable_for, last_drop_reason, delay, session, ras>>
       ELSE DropAndRedial("SessionNotFound")
    /\ UNCHANGED redial_requested

StepNotConnected ==
    /\ ~redial_requested /\ phase # "Connected"
    /\ DialAgain
    /\ UNCHANGED redial_requested

RunOnce ==
    /\ pc = "idle" /\ ~stopped
    /\ ConsumeRedial \/ StepConnected \/ StepNotConnected
    /\ UNCHANGED <<eth_link, wedge_fails, wedged, carrier, procVars, bad_probes>>

(***************************************************************************)
(* do_dial from the answer of Dialer::dial to its return.                  *)
(***************************************************************************)
DialOkResetsBackoff ==
    /\ pc = "dial" /\ \E r \in PortAtLastTry : "Ok" \in DialOnce(r)
    /\ session' = TRUE /\ ras' = "live" /\ wedge_fails' = 0
    /\ phase' = "Connected" /\ since' = TRUE /\ probe_fails' = 0
    /\ stable_for' = 0 /\ delay' = ProbeInterval /\ pc' = "idle"
    /\ attempts' = 0 /\ backoff_attempt' = 0
    /\ UNCHANGED <<last_drop_reason, redial_requested,
                   eth_link, wedged, carrier, procVars>>

DialOk ==
    /\ pc = "dial" /\ \E r \in PortAtLastTry : "Ok" \in DialOnce(r)
    /\ session' = TRUE /\ ras' = "live" /\ wedge_fails' = 0
    /\ phase' = "Connected" /\ since' = TRUE /\ probe_fails' = 0
    /\ stable_for' = 0 /\ delay' = ProbeInterval /\ pc' = "idle"
    /\ UNCHANGED <<attempts, backoff_attempt, last_drop_reason,
                   redial_requested, eth_link, wedged, carrier, procVars>>

DialAuthFailed ==
    /\ pc = "dial"
    /\ \E r \in PortAtLastTry : "Auth" \in DialOnce(r) /\ ras' = r
    /\ wedge_fails' = 0
    /\ phase' = "AuthFail" /\ last_drop_reason' = "AuthFailed"
    /\ delay' = AuthFailDelay /\ pc' = "idle"
    /\ UNCHANGED <<attempts, backoff_attempt, since, probe_fails, stable_for,
                   redial_requested, eth_link, session, wedged, carrier,
                   procVars>>

\* The arm for a transient error: next_delay, one more attempt, Backoff.
EnterBackoff ==
    /\ delay' = NextDelay(backoff_attempt)
    /\ backoff_attempt' = SaturatingIncr(backoff_attempt)
    /\ attempts' = SaturatingIncr(attempts)
    /\ phase' = "Backoff" /\ last_drop_reason' = "DialFailed"
    /\ pc' = "idle"
    /\ UNCHANGED <<since, probe_fails, stable_for, redial_requested, eth_link>>

\* Any error but 691, 756 and 813.  Dialing without carrier leaves the port
\* stuck in the dialing state.
DialOtherError ==
    /\ pc = "dial"
    /\ \E r \in PortAtLastTry : "Other" \in DialOnce(r) /\ ras' = r
    /\ wedged' = (wedged \/ ~carrier)
    /\ wedge_fails' = 0
    /\ EnterBackoff
    /\ UNCHANGED <<session, carrier, procVars>>

DialBusyForgetsCount ==
    /\ pc = "dial"
    /\ \E r \in PortAtLastTry :
          /\ "Busy" \in DialOnce(r)
          /\ ras' = r
    /\ wedge_fails' = 0
    /\ UNCHANGED wedged
    /\ EnterBackoff
    /\ UNCHANGED <<session, carrier, procVars>>

DialBusyOneTooMany ==
    /\ pc = "dial"
    /\ \E r \in PortAtLastTry : "Busy" \in DialOnce(r) /\ ras' = r
    /\ wedge_fails + 1 =< WedgeRestartAfter
    /\ wedge_fails' = wedge_fails + 1
    /\ UNCHANGED wedged
    /\ EnterBackoff
    /\ UNCHANGED <<session, carrier, procVars>>

\* 756 or 813 even after hanging everything up.
DialBusy ==
    /\ pc = "dial"
    /\ \E r \in PortAtLastTry :
          /\ "Busy" \in DialOnce(r)
          /\ ras' = r
    /\ wedge_fails + 1 < WedgeRestartAfter
    /\ wedge_fails' = wedge_fails + 1
    /\ UNCHANGED wedged
    /\ EnterBackoff
    /\ UNCHANGED <<session, carrier, procVars>>

\* The last busy answer in a row: RealDialer restarts RasMan, which frees the
\* port and ends its connection, or fails; the count starts over either way.
RestartRasMan(ok) ==
    /\ pc = "dial"
    /\ \E r \in PortAtLastTry :
          /\ "Busy" \in DialOnce(r)
          /\ ras' = IF ok THEN "none" ELSE r
    /\ wedge_fails + 1 >= WedgeRestartAfter
    /\ wedge_fails' = 0
    /\ wedged' = IF ok THEN FALSE ELSE wedged
    /\ EnterBackoff
    /\ UNCHANGED <<session, carrier, procVars>>

\* Whatever the dial brings, it is no longer the session of the old verdicts.
FinishDial ==
    /\ \/ DialOk
       \/ DialAuthFailed
       \/ DialOtherError
       \/ DialBusy
       \/ \E ok \in BOOLEAN : RestartRasMan(ok)
    /\ bad_probes' = 0

(***************************************************************************)
(* step_connected from the probe's verdict to its return.  stable_for is   *)
(* only compared with StableResetAfter, so it is kept up to that value.    *)
(***************************************************************************)
ProbeAliveKeepsBackoff ==
    /\ pc = "probe" /\ pc' = "idle" /\ delay' = ProbeInterval
    /\ probe_fails' = 0
    /\ stable_for' = Least(stable_for + ProbeInterval, StableResetAfter)
    /\ attempts' = IF stable_for' >= StableResetAfter THEN 0 ELSE attempts
    /\ UNCHANGED <<backoff_attempt, phase, since, last_drop_reason, session,
                   ras>>

\* Mutant: a good probe does not clear the count of bad ones.
ProbeAliveKeepsCount ==
    /\ pc = "probe" /\ pc' = "idle" /\ delay' = ProbeInterval
    /\ stable_for' = Least(stable_for + ProbeInterval, StableResetAfter)
    /\ IF stable_for + ProbeInterval >= StableResetAfter /\ attempts > 0
       THEN attempts' = 0 /\ backoff_attempt' = 0
       ELSE UNCHANGED <<attempts, backoff_attempt>>
    /\ UNCHANGED <<phase, since, probe_fails, last_drop_reason, session, ras>>

ProbeAlive ==
    /\ pc = "probe" /\ pc' = "idle" /\ delay' = ProbeInterval
    /\ probe_fails' = 0
    /\ stable_for' = Least(stable_for + ProbeInterval, StableResetAfter)
    /\ IF stable_for + ProbeInterval >= StableResetAfter /\ attempts > 0
       THEN attempts' = 0 /\ backoff_attempt' = 0
       ELSE UNCHANGED <<attempts, backoff_attempt>>
    /\ UNCHANGED <<phase, since, last_drop_reason, session, ras>>

\* LinkDown and Kicked alike: one bad verdict asks for an early recheck, the
\* second in a row ends the session.
ProbeBad ==
    /\ pc = "probe"
    /\ IF probe_fails + 1 < 2
       THEN /\ probe_fails' = probe_fails + 1
            /\ delay' = ProbeInterval \div 4 /\ pc' = "idle"
            /\ UNCHANGED <<phase, attempts, backoff_attempt, since, stable_for,
                           last_drop_reason, session, ras>>
       ELSE DropAndRedial("ProbeFailed")

FinishProbe ==
    /\ \/ ProbeAlive /\ bad_probes' = 0
       \/ ProbeBad /\ bad_probes' = bad_probes + 1
    /\ UNCHANGED <<redial_requested, eth_link, wedge_fails, wedged, carrier,
                   procVars>>

(***************************************************************************)
(* The world: the cable, the access server, other PPPoE programs, and the  *)
(* service control manager, which starts a new process after a crash or a  *)
(* stop.  RAS connections outlive the process that dialled them.           *)
(***************************************************************************)
CableMoves ==
    /\ carrier' = ~carrier
    /\ UNCHANGED <<wdVars, dialVars, ras, wedged, procVars, bad_probes>>

SessionDies ==
    /\ ras = "live" /\ ras' \in {"none", "stale"}
    /\ UNCHANGED <<wdVars, dialVars, wedged, carrier, procVars, bad_probes>>

OtherProgramDials ==
    /\ ras = "none" /\ carrier /\ ~wedged
    /\ ras' = "stale"
    /\ UNCHANGED <<wdVars, dialVars, wedged, carrier, procVars, bad_probes>>

ProcessRestart ==
    /\ restarts < MaxRestarts
    /\ restarts' = restarts + 1 /\ stopped' = FALSE
    /\ phase' = "Idle" /\ attempts' = 0 /\ backoff_attempt' = 0
    /\ since' = FALSE /\ probe_fails' = 0 /\ stable_for' = 0
    /\ last_drop_reason' = "None" /\ redial_requested' = FALSE
    /\ eth_link' = "None" /\ pc' = "idle" /\ delay' = 0
    /\ session' = FALSE /\ wedge_fails' = 0 /\ bad_probes' = 0
    /\ IF ras = "live" \/ (pc = "dial" /\ carrier /\ ~wedged)
       THEN ras' \in {ras, "stale"} \ {"live"}
       ELSE UNCHANGED ras
    /\ UNCHANGED <<wedged, carrier>>

Next ==
    \/ \E up \in Link : SetEthLink(up)
    \/ RequestRedial
    \/ Shutdown
    \/ RunOnce
    \/ FinishDial
    \/ FinishProbe
    \/ CableMoves
    \/ SessionDies
    \/ OtherProgramDials
    \/ ProcessRestart

Spec == Init /\ [][Next]_vars

\* The supervisor always re-arms the next step, a dial and a probe return
\* (both are bounded by timeouts).  What the outside world owes: a dial that
\* can succeed again and again some day does, and so does a RasMan restart.
Fairness ==
    /\ WF_vars(RunOnce) /\ WF_vars(FinishDial) /\ WF_vars(FinishProbe)
    /\ SF_vars(FinishDial /\ DialOk)
    /\ SF_vars(FinishDial /\ RestartRasMan(TRUE))

FairSpec == Spec /\ Fairness
-----------------------------------------------------------------------------
FlagsOK ==
    /\ since \in BOOLEAN /\ redial_requested \in BOOLEAN
    /\ session \in BOOLEAN /\ wedged \in BOOLEAN /\ carrier \in BOOLEAN
    /\ stopped \in BOOLEAN

DataOK ==
    /\ phase \in Phase /\ last_drop_reason \in Reason /\ eth_link \in Link
    /\ attempts \in 0..AttemptCap /\ backoff_attempt \in 0..AttemptCap
    /\ probe_fails \in 0..1 /\ stable_for \in 0..StableResetAfter
    /\ pc \in {"idle", "dial", "probe"} /\ delay \in Nat
    /\ wedge_fails \in 0..(WedgeRestartAfter - 1)
    /\ ras \in {"none", "live", "stale"}
    /\ restarts \in 0..MaxRestarts /\ bad_probes \in 0..2

\* Types; in particular wedge_fails never stays at its threshold.
TypeOK == FlagsOK /\ DataOK

\* The phase, the start time shown to the user and the RAS handle agree when
\* a step has returned, and no dial ever starts while a handle is still held:
\* the handle would be overwritten and its connection would block the port.
SessionAgreement ==
    /\ pc = "idle" => (phase = "Connected" <=> since)
    /\ pc = "idle" /\ ~stopped => (phase = "Connected" <=> session)
    /\ pc = "dial" => ~session /\ ~since /\ phase = "Dialing"
    /\ pc = "probe" => session /\ since /\ phase = "Connected"

\* The attempt count shown to the user is the exponent the next delay uses,
\* and the delay after a failed dial is the one of that attempt, within the
\* configured bounds, whatever drops, redials and resets came before.
BackoffInStep ==
    /\ attempts = backoff_attempt
    /\ pc = "idle" /\ phase = "Backoff" /\ last_drop_reason = "DialFailed" =>
          /\ delay >= RedialMin /\ delay =< RedialMax
          /\ attempts > 0
          /\ attempts < AttemptCap => delay = NextDelay(attempts - 1)

\* A live session is given up only for a redial request, a dead RAS
\* connection or two bad verdicts in a row of this very session (or the end of
\* the process), and at the second it is given up: a count kept from before a
\* good probe, a drop or a dial would break either.
NoHastyDrop ==
    [][ /\ session /\ ~session' /\ stopped' = stopped /\ restarts' = restarts
           => \/ redial_requested /\ pc = "idle"
              \/ ras # "live"
              \/ pc = "probe" /\ bad_probes' = 2
        /\ bad_probes # 2 /\ bad_probes' = 2 => ~session' ]_vars

\* Within one process the attempt count only falls after the current session
\* has been probed alive for StableResetAfter: a session that keeps dying
\* sooner keeps escalating its backoff.
FlappingKeepsEscalating ==
    [][ attempts' < attempts /\ restarts' = restarts
        => pc = "probe" /\ session' /\ stable_for' >= StableResetAfter ]_vars

\* With cable, link report and process stable, the session keeps coming back,
\* whatever it starts from: a stale connection of a crashed process, another
\* program on the port, or a port stuck in the dialing state.
Reconnects ==
    <>[](carrier /\ eth_link # "Down" /\ ~stopped) => []<>(phase = "Connected")
=============================================================================
