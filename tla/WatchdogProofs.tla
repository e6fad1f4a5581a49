--------------------------- MODULE WatchdogProofs ---------------------------
(***************************************************************************)
(* Proofs about Watchdog for every value of its constants.                 *)
(***************************************************************************)
EXTENDS Watchdog, TLAPS

\* Backoff::next_delay always lies between redial_min and redial_max.
LEMMA NextDelayBounds ==
    ASSUME NEW n \in Nat
    PROVE  /\ NextDelay(n) \in Nat
           /\ RedialMin =< NextDelay(n)
           /\ NextDelay(n) =< RedialMax
<1>1. Least(n, ShiftCap) \in 0..ShiftCap
  BY WatchdogAssumption DEF Least
<1>2. 2^Least(n, ShiftCap) \in Nat
  BY <1>1, ShiftAssumption
<1>3. RedialMin * 2^Least(n, ShiftCap) \in Nat
  BY <1>2, WatchdogAssumption
<1>4. QED
  BY <1>3, WatchdogAssumption DEF NextDelay, Least, Greatest

\* The saturating u32 counter stays in range and never falls.
LEMMA SaturatingIncrRange ==
    ASSUME NEW n \in 0..AttemptCap
    PROVE  /\ SaturatingIncr(n) \in 0..AttemptCap
           /\ n =< SaturatingIncr(n)
           /\ SaturatingIncr(n) < AttemptCap => SaturatingIncr(n) = n + 1
           /\ SaturatingIncr(n) > 0
BY WatchdogAssumption DEF SaturatingIncr, Least

\* The failures the watchdog counts are the bad verdicts in a row that its
\* session really got.
VerdictsCounted == phase = "Connected" => bad_probes = probe_fails

\* The inductive invariant: types, agreement of phase, start time and handle,
\* the backoff counters in step, and the true count of bad verdicts.
IInv == TypeOK /\ SessionAgreement /\ BackoffInStep /\ VerdictsCounted

\* A fresh watchdog on whatever port it finds.
LEMMA InitInv == Init => IInv
<1> SUFFICES ASSUME Init PROVE IInv
  OBVIOUS
<1> USE WatchdogAssumption DEF Init
<1>1. FlagsOK
  BY Zenon DEF FlagsOK
<1>2. DataOK
  BY DEF DataOK, Phase, Reason, Link
<1>3. SessionAgreement
  BY DEF SessionAgreement
<1>4. BackoffInStep
  BY DEF BackoffInStep
<1>5. VerdictsCounted
  BY DEF VerdictsCounted
<1>6. QED
  BY <1>1, <1>2, <1>3, <1>4, <1>5 DEF IInv, TypeOK

\* record_drop, hangup, do_dial: however a session ends, its handle is given
\* up before the next dial starts.
LEMMA DropAndRedialInv ==
    ASSUME IInv, NEW reason \in Reason \ {"DialFailed"},
           DropAndRedial(reason), session,
           UNCHANGED <<eth_link, wedge_fails, wedged, carrier, procVars>>,
           redial_requested' \in BOOLEAN, bad_probes' \in 0..2
    PROVE  IInv'
<1> USE WatchdogAssumption
    DEF IInv, TypeOK, DropAndRedial, Hangup, DoDial, procVars
<1>1. FlagsOK'
  BY Zenon DEF FlagsOK
<1>2. DataOK'
  BY DEF FlagsOK, DataOK, Phase, Reason, Link
<1>3. SessionAgreement'
  BY DEF FlagsOK, DataOK, SessionAgreement
<1>4. BackoffInStep'
  BY DEF DataOK, BackoffInStep
<1>5. VerdictsCounted'
  BY DEF VerdictsCounted
<1>6. QED
  BY <1>1, <1>2, <1>3, <1>4, <1>5

\* do_dial without a session to end: the link gate or a dial on a free handle.
LEMMA DialAgainInv ==
    ASSUME IInv, DialAgain, pc = "idle", phase # "Connected", ~stopped,
           UNCHANGED <<eth_link, wedge_fails, wedged, carrier, procVars>>,
           redial_requested' \in BOOLEAN, bad_probes' \in 0..2
    PROVE  IInv'
<1> USE WatchdogAssumption DEF IInv, TypeOK, DialAgain, DoDial, procVars
<1>1. FlagsOK'
  BY Zenon DEF FlagsOK
<1>2. DataOK'
  BY DEF DataOK, Phase, Reason, Link
<1>3. SessionAgreement'
  BY DEF FlagsOK, DataOK, SessionAgreement
<1>4. BackoffInStep'
  BY DEF DataOK, BackoffInStep
<1>5. VerdictsCounted'
  BY DEF VerdictsCounted
<1>6. QED
  BY <1>1, <1>2, <1>3, <1>4, <1>5

\* run_once up to its dial or probe, in each phase and with a redial request.
LEMMA RunOnceInv == ASSUME IInv, RunOnce PROVE IInv'
<1>1. /\ pc = "idle" /\ ~stopped
      /\ UNCHANGED <<eth_link, wedge_fails, wedged, carrier, procVars>>
      /\ bad_probes' = bad_probes /\ bad_probes \in 0..2
  BY DEF RunOnce, IInv, TypeOK, DataOK
<1>2. CASE ConsumeRedial
  <2>1. redial_requested' \in BOOLEAN
    BY <1>2, Zenon DEF ConsumeRedial
  <2>2. CASE phase = "Connected" \/ IsConnected
    <3>1. session
      BY <1>1, <2>2 DEF IInv, SessionAgreement, IsConnected
    <3>2. DropAndRedial("ManualRedial")
      BY <1>2, <2>2 DEF ConsumeRedial
    <3>3. QED
      BY <1>1, <2>1, <3>1, <3>2, DropAndRedialInv DEF Reason
  <2>3. CASE ~(phase = "Connected" \/ IsConnected)
    BY <1>1, <1>2, <2>1, <2>3, DialAgainInv DEF ConsumeRedial
  <2>4. QED
    BY <2>2, <2>3
<1>3. CASE StepConnected
  <2>1. redial_requested' \in BOOLEAN /\ phase = "Connected" /\ session
    BY <1>1, <1>3 DEF StepConnected, IInv, TypeOK, FlagsOK, SessionAgreement
  <2>2. CASE IsConnected
    <3> USE <1>1, <1>3, <2>1, <2>2
        DEF StepConnected, IInv, TypeOK, procVars
    <3>1. FlagsOK'
      BY Zenon DEF FlagsOK
    <3>2. DataOK'
      BY DEF DataOK, Phase, Reason, Link
    <3>3. SessionAgreement'
      BY DEF FlagsOK, DataOK, SessionAgreement
    <3>4. BackoffInStep'
      BY DEF DataOK, BackoffInStep
    <3>5. VerdictsCounted'
      BY DEF VerdictsCounted
    <3>6. QED
      BY <3>1, <3>2, <3>3, <3>4, <3>5
  <2>3. CASE ~IsConnected
    <3>1. DropAndRedial("SessionNotFound")
      BY <1>3, <2>3 DEF StepConnected
    <3>2. QED
      BY <1>1, <2>1, <3>1, DropAndRedialInv DEF Reason
  <2>4. QED
    BY <2>2, <2>3
<1>4. CASE StepNotConnected
  <2>1. redial_requested' \in BOOLEAN
    BY <1>4, Zenon DEF StepNotConnected, IInv, TypeOK, FlagsOK
  <2>2. QED
    BY <1>1, <1>4, <2>1, DialAgainInv DEF StepNotConnected
<1>5. QED
  BY <1>2, <1>3, <1>4 DEF RunOnce

\* step_connected from the probe's verdict to its return.
LEMMA FinishProbeInv == ASSUME IInv, FinishProbe PROVE IInv'
<1>1. /\ UNCHANGED <<eth_link, wedge_fails, wedged, carrier, procVars>>
      /\ redial_requested' = redial_requested
      /\ \/ ProbeAlive /\ bad_probes' = 0
         \/ ProbeBad /\ bad_probes' = bad_probes + 1
  BY DEF FinishProbe
<1>2. redial_requested' \in BOOLEAN
  BY <1>1, Zenon DEF IInv, TypeOK, FlagsOK
<1>3. pc = "probe"
  BY DEF FinishProbe, ProbeAlive, ProbeBad
<1>4. /\ session /\ since /\ phase = "Connected"
      /\ bad_probes = probe_fails /\ probe_fails \in 0..1
  BY <1>3 DEF IInv, SessionAgreement, VerdictsCounted, TypeOK, DataOK
<1>5. CASE ProbeAlive /\ bad_probes' = 0
  <2> USE <1>1, <1>4, <1>5, WatchdogAssumption
      DEF ProbeAlive, IInv, TypeOK, procVars
  <2>1. FlagsOK'
    BY Zenon DEF FlagsOK
  <2>2. DataOK'
    BY DEF DataOK, Phase, Reason, Link, Least
  <2>3. SessionAgreement'
    BY DEF FlagsOK, DataOK, SessionAgreement
  <2>4. BackoffInStep'
    BY DEF DataOK, BackoffInStep
  <2>5. VerdictsCounted'
    BY DEF VerdictsCounted
  <2>6. QED
    BY <2>1, <2>2, <2>3, <2>4, <2>5
<1>6. CASE /\ ProbeBad /\ probe_fails + 1 < 2
           /\ bad_probes' = bad_probes + 1
  <2> USE <1>1, <1>4, <1>6, WatchdogAssumption
      DEF ProbeBad, IInv, TypeOK, procVars
  <2>1. FlagsOK'
    BY Zenon DEF FlagsOK
  <2>2. DataOK'
    BY DEF DataOK, Phase, Reason, Link
  <2>3. SessionAgreement'
    BY DEF FlagsOK, DataOK, SessionAgreement
  <2>4. BackoffInStep'
    BY DEF DataOK, BackoffInStep
  <2>5. VerdictsCounted'
    BY DEF VerdictsCounted
  <2>6. QED
    BY <2>1, <2>2, <2>3, <2>4, <2>5
<1>7. CASE /\ ProbeBad /\ ~(probe_fails + 1 < 2)
           /\ bad_probes' = bad_probes + 1
  <2>1. DropAndRedial("ProbeFailed")
    BY <1>7 DEF ProbeBad
  <2>2. bad_probes' \in 0..2
    BY <1>4, <1>7
  <2>3. QED
    BY <1>1, <1>2, <1>4, <2>1, <2>2, DropAndRedialInv DEF Reason
<1>8. QED
  BY <1>1, <1>5, <1>6, <1>7

\* A transient dial failure: the delay is the one of the attempt it counts.
LEMMA EnterBackoffInv ==
    ASSUME IInv, pc = "dial", EnterBackoff, session' = session,
           ras' \in {"none", "live", "stale"}, wedged' \in BOOLEAN,
           wedge_fails' \in 0..(WedgeRestartAfter - 1),
           UNCHANGED <<carrier, procVars>>, bad_probes' = 0
    PROVE  IInv'
<1> USE DEF IInv, TypeOK, EnterBackoff, procVars
<1>1. FlagsOK'
  BY Zenon DEF FlagsOK
<1>2. /\ attempts \in 0..AttemptCap /\ attempts \in Nat
      /\ backoff_attempt = attempts
  BY WatchdogAssumption DEF DataOK, BackoffInStep
<1>3. DataOK'
  BY <1>2, NextDelayBounds, SaturatingIncrRange, WatchdogAssumption
     DEF DataOK, Phase, Reason, Link
<1>4. SessionAgreement'
  BY DEF FlagsOK, DataOK, SessionAgreement
<1>5. BackoffInStep'
  <2>1. /\ delay' >= RedialMin /\ delay' =< RedialMax
        /\ delay' = NextDelay(attempts)
    BY <1>2, NextDelayBounds, WatchdogAssumption
  <2>2. /\ attempts' = backoff_attempt' /\ attempts' > 0
        /\ attempts' < AttemptCap => attempts' - 1 = attempts
    BY <1>2, SaturatingIncrRange
  <2>3. QED
    BY <2>1, <2>2 DEF BackoffInStep
<1>6. VerdictsCounted'
  BY DEF VerdictsCounted
<1>7. QED
  BY <1>1, <1>3, <1>4, <1>5, <1>6

\* do_dial from the dialer's answer to its return.
LEMMA FinishDialInv == ASSUME IInv, FinishDial PROVE IInv'
<1>1. pc = "dial" /\ bad_probes' = 0
  BY DEF FinishDial, DialOk, DialAuthFailed, DialOtherError, DialBusy,
         RestartRasMan
<1>2. ~session /\ ~since /\ phase = "Dialing"
  BY <1>1 DEF IInv, SessionAgreement
<1>3. PortAtLastTry \subseteq {"none", "live", "stale"}
  BY DEF PortAtLastTry, IInv, TypeOK, DataOK
<1>4. CASE DialOk
  <2> USE <1>1, <1>2, <1>4, WatchdogAssumption
      DEF DialOk, IInv, TypeOK, procVars
  <2>1. FlagsOK'
    BY Zenon DEF FlagsOK
  <2>2. DataOK'
    BY DEF DataOK, Phase, Reason, Link
  <2>3. SessionAgreement'
    BY DEF FlagsOK, DataOK, SessionAgreement
  <2>4. BackoffInStep'
    BY DEF DataOK, BackoffInStep
  <2>5. VerdictsCounted'
    BY DEF VerdictsCounted
  <2>6. QED
    BY <2>1, <2>2, <2>3, <2>4, <2>5
<1>5. CASE DialAuthFailed
  <2> USE <1>1, <1>2, <1>5, WatchdogAssumption
      DEF DialAuthFailed, IInv, TypeOK, procVars
  <2>1. FlagsOK'
    BY Zenon DEF FlagsOK
  <2>2. DataOK'
    BY <1>3 DEF DataOK, Phase, Reason, Link
  <2>3. SessionAgreement'
    BY DEF FlagsOK, DataOK, SessionAgreement
  <2>4. BackoffInStep'
    BY DEF DataOK, BackoffInStep
  <2>5. VerdictsCounted'
    BY DEF VerdictsCounted
  <2>6. QED
    BY <2>1, <2>2, <2>3, <2>4, <2>5
<1>6. CASE DialOtherError
  <2>1. /\ ras' \in {"none", "live", "stale"}
        /\ EnterBackoff /\ session' = session /\ UNCHANGED <<carrier, procVars>>
    BY <1>3, <1>6 DEF DialOtherError
  <2>2. wedged' \in BOOLEAN
    BY <1>6, Zenon DEF DialOtherError
  <2>3. wedge_fails' \in 0..(WedgeRestartAfter - 1)
    BY <1>6, WatchdogAssumption DEF DialOtherError
  <2>4. QED
    BY <1>1, <2>1, <2>2, <2>3, EnterBackoffInv
<1>7. CASE DialBusy
  <2>1. /\ ras' \in {"none", "live", "stale"}
        /\ EnterBackoff /\ session' = session /\ UNCHANGED <<carrier, procVars>>
    BY <1>3, <1>7 DEF DialBusy
  <2>2. wedged' \in BOOLEAN
    BY <1>7, Zenon DEF DialBusy, IInv, TypeOK, FlagsOK
  <2>3. wedge_fails' \in 0..(WedgeRestartAfter - 1)
    BY <1>7, WatchdogAssumption DEF DialBusy, IInv, TypeOK, DataOK
  <2>4. QED
    BY <1>1, <2>1, <2>2, <2>3, EnterBackoffInv
<1>8. ASSUME NEW ok \in BOOLEAN, RestartRasMan(ok) PROVE IInv'
  <2>1. /\ ras' \in {"none", "live", "stale"}
        /\ EnterBackoff /\ session' = session /\ UNCHANGED <<carrier, procVars>>
    BY <1>3, <1>8 DEF RestartRasMan
  <2>2. wedged' \in BOOLEAN
    BY <1>8, Zenon DEF RestartRasMan, IInv, TypeOK, FlagsOK
  <2>3. wedge_fails' \in 0..(WedgeRestartAfter - 1)
    BY <1>8, WatchdogAssumption DEF RestartRasMan
  <2>4. QED
    BY <1>1, <2>1, <2>2, <2>3, EnterBackoffInv
<1>9. QED
  BY <1>4, <1>5, <1>6, <1>7, <1>8 DEF FinishDial

\* The shell's calls between steps, the outside world and a process restart.
LEMMA OtherStepsInv ==
    ASSUME IInv,
           \/ \E up \in Link : SetEthLink(up)
           \/ RequestRedial \/ Shutdown \/ CableMoves \/ SessionDies
           \/ OtherProgramDials \/ ProcessRestart
    PROVE  IInv'
<1> USE WatchdogAssumption
    DEF IInv, TypeOK, wdVars, dialVars, osVars, procVars, SetEthLink,
        RequestRedial, Shutdown, Hangup, CableMoves, SessionDies,
        OtherProgramDials, ProcessRestart
<1>1. FlagsOK'
  BY Zenon DEF FlagsOK
<1>2. DataOK'
  BY DEF DataOK, Phase, Reason, Link
<1>3. SessionAgreement'
  BY DEF FlagsOK, DataOK, SessionAgreement
<1>4. BackoffInStep'
  BY DEF DataOK, BackoffInStep
<1>5. VerdictsCounted'
  BY DEF VerdictsCounted
<1>6. QED
  BY <1>1, <1>2, <1>3, <1>4, <1>5

\* Nothing changes.
LEMMA StutterInv == ASSUME IInv, UNCHANGED vars PROVE IInv'
BY Zenon DEF vars, wdVars, dialVars, osVars, procVars, IInv, TypeOK, FlagsOK,
       DataOK, SessionAgreement, BackoffInStep, VerdictsCounted

\* Every reachable state of the watchdog satisfies the inductive invariant.
THEOREM Invariance == Spec => []IInv
<1>1. Init => IInv
  BY InitInv
<1>2. IInv /\ [Next]_vars => IInv'
  BY RunOnceInv, FinishDialInv, FinishProbeInv, OtherStepsInv, StutterInv
     DEF Next
<1>3. QED
  BY <1>1, <1>2, PTL DEF Spec

\* Type correctness of the watchdog and its dialer.
THEOREM TypeCorrectness == Spec => []TypeOK
<1>1. IInv => TypeOK
  BY DEF IInv
<1>2. QED
  BY <1>1, Invariance, PTL

\* Phase, start time and RAS handle agree after every step, and no dial
\* starts while a handle is held, for every configuration.
THEOREM SessionAgrees == Spec => []SessionAgreement
<1>1. IInv => SessionAgreement
  BY DEF IInv
<1>2. QED
  BY <1>1, Invariance, PTL

\* The delay after a failed dial is the one of its attempt and within the
\* configured bounds, for every configuration.
THEOREM BackoffStaysInStep == Spec => []BackoffInStep
<1>1. IInv => BackoffInStep
  BY DEF IInv
<1>2. QED
  BY <1>1, Invariance, PTL

\* A live session is given up only for a redial request, a dead connection or
\* two bad verdicts in a row of this session, and always at the second: the
\* verdicts are counted apart from the program.
THEOREM DropsAreJustified == Spec => NoHastyDrop
<1> DEFINE Justified ==
      /\ session /\ ~session' /\ stopped' = stopped /\ restarts' = restarts
         => \/ redial_requested /\ pc = "idle"
            \/ ras # "live"
            \/ pc = "probe" /\ bad_probes' = 2
      /\ bad_probes # 2 /\ bad_probes' = 2 => ~session'
<1>1. IInv /\ [Next]_vars => [Justified]_vars
  <2> SUFFICES ASSUME IInv, Next PROVE Justified
    OBVIOUS
  <2> USE DEF IInv
  <2>1. CASE RunOnce
    BY <2>1, Zenon DEF RunOnce, ConsumeRedial, StepConnected, StepNotConnected,
                DialAgain, IsConnected, SessionAgreement
  <2>2. CASE FinishDial
    <3>1. bad_probes' = 0
      BY <2>2 DEF FinishDial
    <3>2. pc = "dial"
      BY <2>2, Zenon DEF FinishDial, DialOk, DialAuthFailed, DialOtherError,
                  DialBusy, RestartRasMan
    <3>3. ~session
      BY <3>2 DEF SessionAgreement
    <3>4. QED
      BY <3>1, <3>3
  <2>3. CASE FinishProbe
    <3>1. CASE ProbeAlive /\ bad_probes' = 0
      BY <3>1 DEF ProbeAlive
    <3>2. CASE ProbeBad /\ bad_probes' = bad_probes + 1
      <4>1. phase = "Connected" /\ session
        BY <3>2 DEF ProbeBad, SessionAgreement
      <4>2. bad_probes = probe_fails /\ probe_fails \in 0..1 /\ pc = "probe"
        BY <3>2, <4>1 DEF ProbeBad, VerdictsCounted, TypeOK, DataOK
      <4>3. CASE probe_fails + 1 < 2
        <5>1. session' = session /\ bad_probes' # 2
          BY <3>2, <4>2, <4>3 DEF ProbeBad
        <5>2. QED
          BY <5>1
      <4>4. CASE ~(probe_fails + 1 < 2)
        <5>1. bad_probes' = 2
          BY <3>2, <4>2, <4>4
        <5>2. ~session'
          BY <3>2, <4>1, <4>4 DEF ProbeBad, DropAndRedial, Hangup
        <5>3. QED
          BY <4>2, <5>1, <5>2
      <4>5. QED
        BY <4>3, <4>4
    <3>3. QED
      BY <2>3, <3>1, <3>2 DEF FinishProbe
  <2>4. CASE Shutdown
    BY <2>4, Zenon DEF Shutdown
  <2>5. CASE ProcessRestart
    BY <2>5 DEF ProcessRestart, TypeOK, DataOK
  <2>6. CASE \/ \E up \in Link : SetEthLink(up)
             \/ RequestRedial \/ CableMoves \/ SessionDies \/ OtherProgramDials
    <3>1. session' = session /\ bad_probes' = bad_probes
      BY <2>6 DEF SetEthLink, RequestRedial, CableMoves, SessionDies,
                  OtherProgramDials, dialVars
    <3>2. QED
      BY <3>1
  <2>7. QED
    BY <2>1, <2>2, <2>3, <2>4, <2>5, <2>6 DEF Next
<1>2. QED
  BY <1>1, Invariance, PTL DEF Spec, NoHastyDrop

\* Within one process only a session proved stable resets the backoff.
THEOREM BackoffEscalates == Spec => FlappingKeepsEscalating
<1> DEFINE Escalating ==
      attempts' < attempts /\ restarts' = restarts
        => pc = "probe" /\ session' /\ stable_for' >= StableResetAfter
<1>1. IInv /\ [Next]_vars => [Escalating]_vars
  <2> SUFFICES ASSUME IInv, Next PROVE Escalating
    OBVIOUS
  <2> USE WatchdogAssumption DEF IInv
  <2>0. attempts \in 0..AttemptCap /\ restarts \in Nat
    BY DEF TypeOK, DataOK
  <2>1. CASE RunOnce
    <3>1. attempts' = attempts
      BY <2>1 DEF RunOnce, ConsumeRedial, StepConnected, StepNotConnected,
                  DialAgain, DropAndRedial
    <3>2. QED
      BY <2>0, <3>1
  <2>2. CASE FinishDial
    <3>1. attempts' = attempts \/ attempts' = SaturatingIncr(attempts)
      BY <2>2 DEF FinishDial, DialOk, DialAuthFailed, DialOtherError, DialBusy,
                  RestartRasMan, EnterBackoff
    <3>2. QED
      BY <2>0, <3>1, SaturatingIncrRange
  <2>3. CASE FinishProbe
    <3>1. CASE ProbeAlive
      <4>1. session'
        BY <3>1, Zenon DEF ProbeAlive, SessionAgreement
      <4>2. QED
        BY <2>0, <3>1, <4>1 DEF ProbeAlive, Least, TypeOK, DataOK
    <3>2. CASE ProbeBad
      <4>1. attempts' = attempts
        BY <3>2 DEF ProbeBad, DropAndRedial
      <4>2. QED
        BY <2>0, <4>1
    <3>3. QED
      BY <2>3, <3>1, <3>2 DEF FinishProbe
  <2>4. CASE ProcessRestart
    BY <2>0, <2>4 DEF ProcessRestart
  <2>5. CASE \/ \E up \in Link : SetEthLink(up)
             \/ RequestRedial \/ Shutdown \/ CableMoves \/ SessionDies
             \/ OtherProgramDials
    <3>1. attempts' = attempts
      BY <2>5 DEF SetEthLink, RequestRedial, Shutdown, CableMoves,
                  SessionDies, OtherProgramDials, wdVars
    <3>2. QED
      BY <2>0, <3>1
  <2>6. QED
    BY <2>1, <2>2, <2>3, <2>4, <2>5 DEF Next
<1>2. QED
  BY <1>1, Invariance, PTL DEF Spec, FlappingKeepsEscalating
=============================================================================
