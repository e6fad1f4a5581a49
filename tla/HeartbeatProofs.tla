-------------------------- MODULE HeartbeatProofs --------------------------
(***************************************************************************)
(* The heartbeat's counters, status and stopping time, for every timeout,  *)
(* every number of receive slices and every modulus.                       *)
(***************************************************************************)
EXTENDS Heartbeat, TLAPS

\* The flags apart, which Zenon settles; the rest is arithmetic and sets.
FlagOK == stop \in BOOLEAN /\ dropped \in BOOLEAN
DataOK ==
    /\ pc \in Session \cup Task /\ status \in {"Off", "Running", "Error"}
    /\ age \in Nat /\ tries \in 0..RecvTimeoutLimit
    /\ ka1_cnt \in Cnt /\ ka2_cnt \in Cnt
    /\ ka1_cnt = ka2_cnt + 1 /\ ka2_cnt % 2 = 0

\* Time since stop has passed only in the slice during which stop came: none
\* before stop, and none while the thread is still within a wait.
StopClock == age # 0 => stop /\ pc \notin Waits

\* A session that returned by itself was told to stop.
OnlyStopReturns == pc = "returned" => stop

\* The inductive invariant.
IInv == /\ FlagOK /\ DataOK /\ StatusTruthful
        /\ StopClock /\ StopsInTime /\ OnlyStopReturns

-----------------------------------------------------------------------------
\* next_cnt: both counters move by two and wrap together, so they stay one
\* apart, the first odd, the second even.
LEMMA NextCntInStep ==
    ASSUME NEW c \in Cnt, c + 1 \in Cnt, c % 2 = 0
    PROVE  /\ NextCnt(c) \in Cnt /\ NextCnt(c + 1) \in Cnt
           /\ NextCnt(c + 1) = NextCnt(c) + 1 /\ NextCnt(c) % 2 = 0
<1>1. PICK k \in 1..64 : CntModulus = 2 * k
  BY ModulusAssumption
<1>2. c \in Nat /\ c + 2 =< 2 * k
  BY <1>1 DEF Cnt
<1>3. (c + 2) % 256 = c + 2 /\ (c + 3) % 256 = c + 3
  BY <1>2
<1>4. NextCnt(c) = (c + 2) % CntModulus
  BY <1>3 DEF NextCnt
<1>5. NextCnt(c + 1) = (c + 3) % CntModulus
  <2>1. (c + 1) + 2 = c + 3
    BY <1>2
  <2>2. QED
    BY <1>3, <2>1 DEF NextCnt
<1>6. CASE c + 2 < CntModulus
  <2>1. (c + 2) % CntModulus = c + 2
    BY <1>1, <1>2, <1>6
  <2>2. (c + 3) % CntModulus = c + 3
    <3>1. c + 3 < CntModulus
      BY <1>1, <1>2, <1>6
    <3>2. QED
      BY <1>1, <1>2, <3>1
  <2>3. QED
    BY <1>1, <1>2, <1>4, <1>5, <1>6, <2>1, <2>2 DEF Cnt
<1>7. CASE c + 2 = CntModulus
  <2>1. (c + 2) % CntModulus = 0
    BY <1>1, <1>2, <1>7
  <2>2. (c + 3) % CntModulus = 1
    BY <1>1, <1>2, <1>7
  <2>3. QED
    BY <1>1, <1>4, <1>5, <2>1, <2>2 DEF Cnt
<1>8. QED
  BY <1>1, <1>2, <1>6, <1>7

\* A session starts with an odd and an even counter.
LEMMA FirstCnt == 0 \in Cnt /\ 1 \in Cnt /\ 1 = 0 + 1 /\ 0 % 2 = 0
BY ModulusAssumption DEF Cnt

\* The initial state.
LEMMA InitInv == ASSUME Init PROVE IInv
<1>1. FlagOK
  BY Zenon DEF Init, FlagOK
<1>2. DataOK
  BY FirstCnt, TimeoutAssumption DEF Init, DataOK, Session, Task
<1>3. StatusTruthful /\ StopClock /\ StopsInTime /\ OnlyStopReturns
  BY TimeoutAssumption DEF Init, StatusTruthful, StopClock, StopsInTime,
                           OnlyStopReturns, Session, Waits, Sends
<1>4. QED
  BY <1>1, <1>2, <1>3 DEF IInv

\* The assembly task's steps.
LEMMA TaskStepInv == ASSUME IInv, TaskStep PROVE IInv'
<1> USE DEF TaskStep, Top, AdapterFound, NoAdapter, Failed, Returned, Pause,
            Finish, Goto, cntVars, IInv
<1>1. FlagOK'
  BY Zenon DEF FlagOK
<1>2. DataOK'
  BY DEF DataOK, Session, Task, Waits, Sends
<1>3. StatusTruthful'
  BY DEF StatusTruthful, OnlyStopReturns, Session, Waits, Sends
<1>4. StopClock' /\ StopsInTime' /\ OnlyStopReturns'
  BY DEF StopClock, StopsInTime, OnlyStopReturns, Waits
<1>5. QED
  BY <1>1, <1>2, <1>3, <1>4

\* The session's sends: a wait begins only while stop is not set.
LEMMA SendInv ==
    ASSUME IInv, NEW here \in Sends, NEW next \in Waits \cup {"gap"},
           SendTo(here, next), UNCHANGED dropped
    PROVE  IInv'
<1> USE DEF SendTo, SessionError, cntVars, IInv
<1>1. FlagOK'
  BY Zenon DEF FlagOK
<1>2. DataOK'
  BY TimeoutAssumption DEF DataOK, Session, Task, Waits, Sends
<1>3. StatusTruthful'
  BY DEF StatusTruthful, Session, Waits, Sends
<1>4. StopClock' /\ StopsInTime' /\ OnlyStopReturns'
  BY DEF StopClock, StopsInTime, OnlyStopReturns, Waits, Sends
<1>5. QED
  BY <1>1, <1>2, <1>3, <1>4

\* The session's receives: a slice that stop fell into is the last one.
LEMMA ReceiveInv ==
    ASSUME IInv,
           Slice \/ BadAnswer \/ Ka1Answer \/ Ka2Answer \/ FilePacket,
           UNCHANGED dropped
    PROVE  IInv'
<1> USE DEF Slice, BadAnswer, Ka1Answer, Ka2Answer, FilePacket, Answer,
            cntVars, IInv
<1>1. FlagOK'
  BY Zenon DEF FlagOK
<1>2. age = 0 /\ age' \in 0..RecvTimeout /\ (age' # 0 => stop)
  BY TimeoutAssumption DEF SliceTime, StopClock, Waits, DataOK
<1>3. DataOK'
  BY <1>2, TimeoutAssumption DEF DataOK, Session, Task, Waits, Sends
<1>4. StatusTruthful'
  BY DEF StatusTruthful, Session, Waits, Sends
<1>5. StopClock'
  BY <1>2 DEF StopClock, Waits
<1>6. StopsInTime' /\ OnlyStopReturns'
  BY <1>2, TimeoutAssumption DEF StopsInTime, OnlyStopReturns, Waits
<1>7. QED
  BY <1>1, <1>3, <1>4, <1>5, <1>6

\* The rest of the session: its start, its sleeps and its round's end.
LEMMA SessionRestInv ==
    ASSUME IInv, BindOk \/ BindFails \/ Connect \/ Stopped \/ Gap \/ Rest
                 \/ SendKa2Pkt2,
           UNCHANGED dropped
    PROVE  IInv'
<1> USE DEF BindOk, BindFails, Connect, Stopped, Gap, Rest, SendKa2Pkt2,
            SessionError, Exit, Sleep, Goto, cntVars, IInv
<1>1. FlagOK'
  BY Zenon DEF FlagOK
<1>2. \/ UNCHANGED cntVars
      \/ ka1_cnt' = 1 /\ ka2_cnt' = 0
      \/ ka1_cnt' = NextCnt(ka1_cnt) /\ ka2_cnt' = NextCnt(ka2_cnt)
  OBVIOUS
<1>3. /\ ka1_cnt' \in Cnt /\ ka2_cnt' \in Cnt
      /\ ka1_cnt' = ka2_cnt' + 1 /\ ka2_cnt' % 2 = 0
  BY <1>2, FirstCnt, NextCntInStep DEF DataOK
<1>4. DataOK'
  BY <1>3 DEF DataOK, Session, Task, Waits, Sends
<1>5. StatusTruthful'
  BY DEF StatusTruthful, Session, Waits, Sends
<1>6. StopClock' /\ StopsInTime' /\ OnlyStopReturns'
  BY DEF StopClock, StopsInTime, OnlyStopReturns, Waits
<1>7. QED
  BY <1>1, <1>4, <1>5, <1>6

\* The thread panics, the service is told to stop, the task is dropped, or
\* nothing happens.
LEMMA OtherStepsInv ==
    ASSUME IInv, Panic \/ Stop \/ RuntimeDrops \/ UNCHANGED vars PROVE IInv'
<1> USE DEF Panic, Stop, RuntimeDrops, Goto, vars, cntVars, IInv
<1>1. FlagOK'
  BY Zenon DEF FlagOK
<1>2. DataOK'
  BY DEF DataOK, Session, Task, Waits, Sends
<1>3. StatusTruthful'
  BY DEF StatusTruthful, Session, Waits, Sends
<1>4. StopClock' /\ StopsInTime' /\ OnlyStopReturns'
  BY DEF StopClock, StopsInTime, OnlyStopReturns, Waits
<1>5. QED
  BY <1>1, <1>2, <1>3, <1>4

\* Every reachable state of the heartbeat satisfies the inductive invariant.
THEOREM HeartbeatInvariance == Spec => []IInv
<1>1. Init => IInv
  BY InitInv
<1>2. IInv /\ [Next]_vars => IInv'
  <2> SUFFICES ASSUME IInv, [Next]_vars PROVE IInv'
    OBVIOUS
  <2>1. CASE SendKa1Pkt1 /\ UNCHANGED dropped
    BY <2>1, SendInv DEF SendKa1Pkt1, Sends, Waits
  <2>2. CASE SendKa1Pkt2 /\ UNCHANGED dropped
    BY <2>2, SendInv DEF SendKa1Pkt2, Sends
  <2>3. CASE SendKa2Pkt1 /\ UNCHANGED dropped
    BY <2>3, SendInv DEF SendKa2Pkt1, Sends, Waits
  <2>4. CASE ResendKa2Pkt1 /\ UNCHANGED dropped
    BY <2>4, SendInv DEF ResendKa2Pkt1, Sends, Waits
  <2>5. QED
    BY <2>1, <2>2, <2>3, <2>4, TaskStepInv, ReceiveInv, SessionRestInv,
       OtherStepsInv DEF Next, SessionStep
<1>3. QED
  BY <1>1, <1>2, PTL DEF Spec

\* Types, and the two counters are one apart, odd and even, in every round and
\* across every wrap, for every even modulus up to 128.
THEOREM CountersInStep == Spec => []TypeOK
<1>1. IInv => TypeOK
  BY DEF IInv, FlagOK, DataOK, TypeOK
<1>2. QED
  BY <1>1, HeartbeatInvariance, PTL

\* The status that two writers keep is never silent about a heartbeat that
\* does not run.
THEOREM StatusNeverLies == Spec => []StatusTruthful
<1>1. IInv => StatusTruthful
  BY DEF IInv
<1>2. QED
  BY <1>1, HeartbeatInvariance, PTL

\* Whatever the thread was waiting for, it begins no further wait after stop:
\* the time it goes on is one receive slice at most.
THEOREM StopIsPrompt == Spec => []StopsInTime
<1>1. IInv => StopsInTime
  BY DEF IInv
<1>2. QED
  BY <1>1, HeartbeatInvariance, PTL
=============================================================================
