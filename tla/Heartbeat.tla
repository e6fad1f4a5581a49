----------------------------- MODULE Heartbeat -----------------------------
(***************************************************************************)
(* The Dr.COM heartbeat: run_blocking of heartbeat/session.rs on a         *)
(* blocking thread, and the task of runtime.rs that starts it again after  *)
(* every failure.  Both write the status that the tray shows.  The server, *)
(* the network and the socket decide each receive: an answer that parses,  *)
(* a file packet, one that does not parse, a timeout or an error; answers  *)
(* carry no tag that the code checks, so a late one counts like any other. *)
(*                                                                         *)
(* Time is kept only where a property needs it: the time since stop, which *)
(* passes in the receive's slices (the sleeps look at stop every 100 ms).  *)
(***************************************************************************)
EXTENDS Naturals

CONSTANTS
    RecvTimeout,        \* RECV_TIMEOUT, in seconds
    RecvTimeoutLimit,   \* RECV_TIMEOUT_LIMIT
    CntModulus          \* 128

ASSUME TimeoutAssumption == RecvTimeout \in Nat /\ RecvTimeoutLimit \in Nat \ {0}
ASSUME ModulusAssumption == CntModulus \in {2 * k : k \in 1..64}

VARIABLES
    pc,         \* where the assembly task or the session loop stands
    status,     \* HeartbeatStatus
    stop,       \* the cancellation token
    dropped,    \* the runtime has dropped the assembly task
    age,        \* seconds since stop while the session has not noticed
    tries,      \* receive slices used up
    ka1_cnt, ka2_cnt

cntVars == <<ka1_cnt, ka2_cnt>>
vars == <<pc, status, stop, dropped, age, tries, cntVars>>

Waits   == {"ka1_wait", "ka2_wait", "retry_wait"}
Sends   == {"ka1_pkt1", "ka1_pkt2", "ka2_pkt1", "ka2_retry", "ka2_pkt2"}
Session == Waits \cup Sends \cup {"connect", "gap", "rest"}
Task    == {"top", "bind", "failed", "returned", "pause", "ended"}
Cnt     == 0..(CntModulus - 1)

\* Mutant: modulus 127, which the comment of next_cnt rejects.
NextCntOdd(cnt) == ((cnt + 2) % 256) % (CntModulus - 1)

\* next_cnt, in u8.
NextCnt(cnt) == ((cnt + 2) % 256) % CntModulus

Init ==
    /\ pc = "top" /\ status = "Off" /\ stop = FALSE /\ dropped = FALSE
    /\ age = 0 /\ tries = 0 /\ ka1_cnt = 1 /\ ka2_cnt = 0

Goto(p) == pc' = p /\ UNCHANGED <<status, age, tries, cntVars>>

-----------------------------------------------------------------------------
(***************************************************************************)
(* The assembly task of runtime.rs                                         *)
(***************************************************************************)
\* A cancelled token ends the task.
Finish == pc' = "ended" /\ status' = "Off" /\ UNCHANGED <<age, tries, cntVars>>

\* The top of the loop, then the adapter on the blocking thread.
Top         == pc = "top" /\ stop /\ Finish /\ UNCHANGED stop
AdapterFound == pc = "top" /\ ~stop /\ Goto("bind") /\ UNCHANGED stop
NoAdapter   == pc = "top" /\ ~stop /\ Goto("failed") /\ UNCHANGED stop

\* Mutant: the task only logs a failed attempt.
FailedSilent ==
    /\ pc = "failed" /\ pc' = "pause"
    /\ UNCHANGED <<status, stop, age, tries, cntVars>>

\* An attempt that failed, or whose thread panicked, is an error to be shown;
\* one that returned Ok leaves the status as it is.
Failed ==
    /\ pc = "failed" /\ pc' = "pause" /\ status' = "Error"
    /\ UNCHANGED <<stop, age, tries, cntVars>>

Returned == pc = "returned" /\ Goto("pause") /\ UNCHANGED stop

\* Mutant: a heartbeat that failed is not tried again.
PauseForGood == pc = "pause" /\ stop /\ Finish /\ UNCHANGED stop

\* HEARTBEAT_RETRY_DELAY, cut short by stop.
Pause ==
    /\ pc = "pause"
    /\ \/ stop /\ Finish
       \/ ~stop /\ Goto("top")
    /\ UNCHANGED stop

-----------------------------------------------------------------------------
(***************************************************************************)
(* The session                                                             *)
(***************************************************************************)
\* Port 61440 may be taken by the official client.
BindOk ==
    /\ pc = "bind" /\ pc' = "connect" /\ status' = "Running"
    /\ ka1_cnt' = 1 /\ ka2_cnt' = 0
    /\ UNCHANGED <<stop, age, tries>>

BindFails ==
    /\ pc = "bind" /\ pc' = "failed" /\ status' = "Error"
    /\ UNCHANGED <<stop, age, tries, cntVars>>

\* A failing call is reported, and reported again by the task.
SessionError ==
    pc' = "failed" /\ status' = "Error" /\ UNCHANGED <<age, tries, cntVars>>

\* connect and set_read_timeout.
Connect == pc = "connect" /\ (Goto("ka1_pkt1") \/ SessionError) /\ UNCHANGED stop

Exit == Goto("returned")

\* sock.send, followed by a wait that does not begin once stop is set.
SendTo(here, next) ==
    /\ pc = here
    /\ \/ /\ tries' = 1 /\ pc' = IF stop /\ next \in Waits THEN "ka1_pkt1" ELSE next
          /\ UNCHANGED <<status, age, cntVars>>
       \/ SessionError
    /\ UNCHANGED stop

\* The head of the loop looks at stop first.
SendKa1Pkt1 == ~stop /\ SendTo("ka1_pkt1", "ka1_wait")
Stopped     == stop /\ pc = "ka1_pkt1" /\ Exit /\ UNCHANGED stop
SendKa1Pkt2 == SendTo("ka1_pkt2", "gap")
SendKa2Pkt1 == SendTo("ka2_pkt1", "ka2_wait")
ResendKa2Pkt1 == SendTo("ka2_retry", "retry_wait")

\* stop may have come anywhere within the slice that now ends.
SliceTime == age' \in IF stop THEN age .. (age + RecvTimeout) ELSE {age}

\* Mutant: recv_retry looks at stop only before its first slice.
SliceDeaf ==
    /\ pc \in Waits /\ SliceTime
    /\ IF tries < RecvTimeoutLimit
       THEN tries' = tries + 1 /\ pc' = pc
       ELSE tries' = tries /\ pc' = "ka1_pkt1"
    /\ UNCHANGED <<status, stop, cntVars>>

\* recv_retry: a slice times out; the next one begins unless they are used up
\* or stop is set.
Slice ==
    /\ pc \in Waits /\ SliceTime
    /\ IF tries < RecvTimeoutLimit /\ ~stop
       THEN tries' = tries + 1 /\ pc' = pc
       ELSE tries' = tries /\ pc' = "ka1_pkt1"
    /\ UNCHANGED <<status, stop, cntVars>>

Answer(here, next) ==
    /\ pc \in here /\ pc' = next /\ SliceTime
    /\ UNCHANGED <<status, stop, tries, cntVars>>

\* A receive error, or an answer that does not parse: the round starts over
\* with the same counters.
BadAnswer == Answer(Waits, "ka1_pkt1")
Ka1Answer == Answer({"ka1_wait"}, "ka1_pkt2")
Ka2Answer == Answer({"ka2_wait", "retry_wait"}, "ka2_pkt2")

\* A file packet teaches the flag and has the packet sent once more.
FilePacket == Answer({"ka2_wait"}, "ka2_retry")

\* KA1_TO_KA2_DELAY and the rest of the interval: interruptible.
Sleep(here, next) ==
    /\ pc = here
    /\ \/ stop /\ Exit
       \/ ~stop /\ Goto(next)
    /\ UNCHANGED stop

Gap  == Sleep("gap", "ka2_pkt1")
Rest == Sleep("rest", "ka1_pkt1")

\* The last packet of a round; both counters move on.
SendKa2Pkt2 ==
    /\ pc = "ka2_pkt2"
    /\ \/ /\ pc' = "rest" /\ ka1_cnt' = NextCnt(ka1_cnt)
          /\ ka2_cnt' = NextCnt(ka2_cnt) /\ UNCHANGED <<status, age, tries>>
       \/ SessionError
    /\ UNCHANGED stop

\* The blocking thread panics: the join error is shown like any other.
Panic == pc \in Session /\ Goto("failed") /\ UNCHANGED <<stop, dropped>>

\* The service is told to stop.
Stop ==
    /\ ~stop /\ stop' = TRUE
    /\ UNCHANGED <<pc, status, dropped, age, tries, cntVars>>

\* run has returned, and shutdown_timeout drops the assembly task at its await,
\* perhaps before it says Off; the blocking thread runs on.
RuntimeDrops ==
    /\ stop /\ ~dropped /\ dropped' = TRUE
    /\ UNCHANGED <<pc, status, stop, age, tries, cntVars>>

TaskStep ==
    /\ ~dropped /\ UNCHANGED dropped
    /\ \/ Top \/ AdapterFound \/ NoAdapter \/ Failed \/ Returned \/ Pause
SessionStep ==
    /\ \/ BindOk \/ BindFails \/ Connect
       \/ SendKa1Pkt1 \/ Stopped \/ SendKa1Pkt2 \/ SendKa2Pkt1
       \/ ResendKa2Pkt1 \/ Slice \/ BadAnswer \/ Ka1Answer \/ Ka2Answer
       \/ FilePacket \/ Gap \/ Rest \/ SendKa2Pkt2
    /\ UNCHANGED dropped

Next == TaskStep \/ SessionStep \/ Panic \/ Stop \/ RuntimeDrops

Spec == Init /\ [][Next]_vars

\* The thread runs on, and so does the task until it is dropped; the cable
\* comes back and the official client is closed some day.
FairSpec == /\ Spec /\ WF_vars(TaskStep) /\ WF_vars(SessionStep)
            /\ SF_vars(TaskStep /\ AdapterFound)
            /\ SF_vars(SessionStep /\ BindOk)

-----------------------------------------------------------------------------
\* The types; and the two counters by which the server tells rounds apart are
\* one apart, odd and even, in every round, across the wrap at 128.
TypeOK ==
    /\ pc \in Session \cup Task /\ status \in {"Off", "Running", "Error"}
    /\ stop \in BOOLEAN /\ dropped \in BOOLEAN
    /\ age \in Nat /\ tries \in 0..RecvTimeoutLimit
    /\ ka1_cnt \in Cnt /\ ka2_cnt \in Cnt
    /\ ka1_cnt = ka2_cnt + 1 /\ ka2_cnt % 2 = 0

\* CONTEXT.md: a heartbeat that cannot run is an error, never silent.  Two
\* writers keep the status: Running is shown only of a bound session, its last
\* words Error or the final Off; between two attempts an Error stays until the
\* next session is bound.
StatusTruthful ==
    /\ pc \in Session => status = "Running"
    /\ pc = "ended" => status = "Off"
    /\ pc = "pause" /\ ~stop => status = "Error"
    /\ pc \in {"top", "bind"} => status # "Running"

\* Within RECV_TIMEOUT of stop the blocking thread is on its way out: whatever
\* it was waiting for, it begins no further wait (run_blocking promises one
\* interval, which is longer).
StopsInTime == age =< RecvTimeout

\* Told to stop, the blocking thread leaves the session for good, also when
\* the task that would pick up its result has been dropped (start_all counts
\* on it before shutdown_timeout); before that, a heartbeat in error gets to
\* run again.
EndsOrRecovers ==
    /\ stop ~> [](pc \notin Session \cup {"bind"})
    /\ status = "Error" ~> (status = "Running" \/ stop)
=============================================================================
