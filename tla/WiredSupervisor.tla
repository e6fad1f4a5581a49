-------------------------- MODULE WiredSupervisor --------------------------
(***************************************************************************)
(* The wired half of the service's control loop: the reducer Supervisor    *)
(* (src/supervisor.rs), its toast ledger (src/supervisor/notification.rs)  *)
(* and the shell that feeds it (Shell::drain and the select loop of        *)
(* src/runtime.rs).                                                        *)
(*                                                                         *)
(* One external event is taken at a time.  Supervisor::on answers it with  *)
(* a list of effects (todo), the shell executes them one by one and queues *)
(* each result, and takes no further external event before the queue is    *)
(* empty again.  Time passes while the loop sleeps and while an effect     *)
(* that waits is executed, which may take longer than any deadline.        *)
(*                                                                         *)
(* The wireless half shares the loop.  Its 2 s beat asks for a sample on   *)
(* the same lane, so its sample and result stand between the wired ones;   *)
(* what it decides goes to the worker's lane, whose channel is taken to    *)
(* have room (module WirelessTakeover has that side).  When its beat is    *)
(* due is left open here: any wake-up may bring one.                       *)
(*                                                                         *)
(* The absolute monotonic milliseconds of the code are kept as the time    *)
(* left of a deadline (0 when it is due) and as the age of an instant, up  *)
(* to the threshold it is compared with.  Tick is the passing of one unit. *)
(*                                                                         *)
(* The watchdog appears through what run_once may return (StepResults);    *)
(* module Watchdog has its inside.                                         *)
(***************************************************************************)
EXTENDS Integers, Sequences

CONSTANTS
    LinkPoll,        \* LINK_POLL_MS and SAMPLE_RETRY_MS (both 2 s)
    LinkDownRetry,   \* LINK_DOWN_RETRY of the watchdog (5 s)
    BackoffDelays,   \* delays Backoff::next_delay returns
    ProbeInterval,   \* delay after a good step; a quarter after a bad probe
    AuthFailDelay,   \* AUTH_FAIL_DELAY
    ToastAfter,      \* REDIAL_FAILING_TOAST_AFTER_MS
    Throttle         \* NOTIFY_THROTTLE_MS

ASSUME SupervisorAssumption ==
    /\ LinkPoll \in Nat \ {0} /\ LinkDownRetry \in Nat \ {0}
    /\ BackoffDelays \subseteq Nat \ {0}
    /\ ProbeInterval \in Nat \ {0} /\ AuthFailDelay \in Nat \ {0}
    /\ ToastAfter \in Nat \ {0} /\ Throttle \in Nat \ {0}

VARIABLES
    \* struct Supervisor
    started, stopped, eth_link, link_sample_seen, sample_in_flight,
    step_pending,
    watchdog_deadline,   \* time left, or None
    link_poll_at,        \* time left
    status,              \* session.status
    failing_since,       \* age of failing_since_ms, or None
    in_flight,           \* NotificationLedger.in_flight
    delivered,           \* time left of each toast's throttle window
    \* struct Shell: events not yet reduced, effects not yet executed
    queue, todo,
    \* struct Watchdog, as far as the shell sees it
    wd_link, wd_redial, wd_status,
    \* Windows: the carrier of the physical adapter
    cable,
    \* history: time before which no unrequested step may come; a link sample
    \* was read in this reaction chain; age of the present run of failed
    \* dials (pauses for a missing cable excluded); time left until each
    \* toast may be shown again; the last reading of the cable that succeeded
    rest, fresh, dials_failing, toast_rest, seen

wiredVars  == <<eth_link, link_sample_seen, sample_in_flight, step_pending>>
timers     == <<watchdog_deadline, link_poll_at>>
sessVars   == <<status, failing_since>>
toastVars  == <<in_flight, delivered>>
wdVars     == <<wd_link, wd_redial, wd_status>>
ghostVars  == <<rest, fresh, dials_failing, toast_rest, seen>>
vars       == <<started, stopped, wiredVars, timers, sessVars, toastVars,
                queue, todo, wdVars, cable, ghostVars>>

None     == -1
Link     == {"None", "Up", "Down"}    \* Option<bool>
Status   == {"Idle", "Connected", "Backoff", "AuthFail"}
ToastKey == {"HeartbeatError", "RedialFailing"}

Event(t) == [type |-> t]
Effect(t) == [type |-> t]
SetLink(up) == [type |-> "SetWatchdogLink", up |-> up]
Notify(key) == [type |-> "Notify", key |-> key]

Handling == queue # <<>> \/ todo # <<>>
Sleeping == ~Handling

\* Supervisor::new and Watchdog::new; Started is queued once assembly is done.
Init ==
    /\ started = FALSE /\ stopped = FALSE
    /\ eth_link = "None" /\ link_sample_seen = FALSE
    /\ sample_in_flight = FALSE /\ step_pending = FALSE
    /\ watchdog_deadline = None /\ link_poll_at = None
    /\ status = "Idle" /\ failing_since = None
    /\ in_flight = {} /\ delivered = [k \in ToastKey |-> 0]
    /\ queue = <<Event("Started")>> /\ todo = <<>>
    /\ wd_link = "None" /\ wd_redial = FALSE /\ wd_status = "Idle"
    /\ cable \in {"Up", "Down"}
    /\ rest = 0 /\ fresh = FALSE /\ dials_failing = None
    /\ toast_rest = [k \in ToastKey |-> 0] /\ seen = "None"

(***************************************************************************)
(* Shell: one external event into the empty queue.                         *)
(***************************************************************************)
TakeUnasked(event) ==
    /\ ~stopped
    /\ queue' = Append(queue, event) /\ fresh' = FALSE
    /\ UNCHANGED <<started, stopped, wiredVars, timers, sessVars, toastVars,
                   todo, wdVars, cable, rest, dials_failing, toast_rest, seen>>

Take(event) ==
    /\ Sleeping /\ ~stopped
    /\ queue' = <<event>> /\ fresh' = FALSE
    /\ UNCHANGED <<started, stopped, wiredVars, timers, sessVars, toastVars,
                   todo, wdVars, cable, rest, dials_failing, toast_rest, seen>>

\* next_wake: the earlier of the two deadlines.
WakeDue == link_poll_at = 0 \/ watchdog_deadline = 0

\* The sleep ends.  The wireless half shares the timer, so the loop may also
\* wake for its 2 s beat, when nothing here is due.
TakeWake == Take(Event("Wake"))
TakeDueWake == WakeDue /\ TakeWake
TakeRedial == Take(Event("Redial"))
TakeHeartbeat == \E s \in {"Running", "Error"} :
                    Take([type |-> "Heartbeat", status |-> s])
TakeStop == Take(Event("Stop"))

(***************************************************************************)
(* Supervisor::on, one action per event.  Reduce(t) takes the event off    *)
(* the queue.                                                              *)
(***************************************************************************)
Reduce(t) ==
    /\ todo = <<>> /\ queue # <<>> /\ Head(queue).type = t
    /\ queue' = Tail(queue)
    /\ UNCHANGED <<wdVars, cable, ghostVars>>

\* With the wireless half configured, its first sample comes at once.
OnStarted ==
    /\ Reduce("Started")
    /\ started' = TRUE /\ watchdog_deadline' = 0 /\ link_poll_at' = 0
    /\ todo' \in {<<>>, <<Effect("SampleWireless")>>}
    /\ UNCHANGED <<stopped, wiredVars, sessVars, toastVars>>

\* Mutant: the step does not wait for a sample.
OnWakeStepsAtOnce ==
    /\ Reduce("Wake")
    /\ watchdog_deadline' = IF watchdog_deadline = 0 THEN None
                            ELSE watchdog_deadline
    /\ todo' = IF watchdog_deadline = 0 THEN <<Effect("StepWatchdog")>> ELSE <<>>
    /\ link_poll_at' = LinkPoll
    /\ UNCHANGED <<started, stopped, wiredVars, sessVars, toastVars>>

\* Mutant: every wake-up steps, due or not.
OnWakeAlwaysSteps ==
    /\ Reduce("Wake")
    /\ watchdog_deadline' = None /\ step_pending' = TRUE
    /\ todo' = <<Effect("SampleLink")>>
    /\ sample_in_flight' = TRUE /\ link_poll_at' = LinkPoll
    /\ UNCHANGED <<started, stopped, eth_link, link_sample_seen, sessVars,
                   toastVars>>

\* handle_wake: a due step waits for a fresh link sample (a); the wireless beat
\* may be due as well (b).
OnWake ==
    /\ Reduce("Wake")
    /\ LET due  == watchdog_deadline = 0
           poll == step_pending \/ due \/ link_poll_at = 0
       IN  /\ watchdog_deadline' = IF due THEN None ELSE watchdog_deadline
           /\ step_pending' = (step_pending \/ due)
           /\ \/ /\ poll /\ ~sample_in_flight
                 /\ todo' \in {<<Effect("SampleLink")>>,
                              <<Effect("SampleLink"), Effect("SampleWireless")>>}
                 /\ sample_in_flight' = TRUE /\ link_poll_at' = LinkPoll
              \/ /\ ~poll \/ sample_in_flight
                 /\ link_poll_at' = IF link_poll_at = 0 THEN LinkPoll
                                    ELSE link_poll_at
                 /\ todo' \in {<<>>, <<Effect("SampleWireless")>>}
                 /\ UNCHANGED sample_in_flight
    /\ UNCHANGED <<started, stopped, eth_link, link_sample_seen, sessVars,
                   toastVars>>

\* handle_command(Redial)
OnRedial ==
    /\ Reduce("Redial")
    /\ todo' = <<Effect("RequestRedial"), Effect("StepWatchdog")>>
    /\ watchdog_deadline' = None
    /\ UNCHANGED <<started, stopped, wiredVars, link_poll_at, sessVars,
                   toastVars>>

\* A cable that is plugged in (or no longer reported out).
PluggedIn(next) == eth_link = "Down" /\ next # "Down"

LinkEffectsNoStep(next) ==
    (IF next # eth_link THEN <<SetLink(next)>> ELSE <<>>)
    \o (IF PluggedIn(next) THEN <<Effect("RequestRedial"),
                                  Effect("StepWatchdog")>> ELSE <<>>)

LinkEffectsLateSet(next) ==
    (IF PluggedIn(next) THEN <<Effect("RequestRedial")>> ELSE <<>>)
    \o (IF PluggedIn(next) \/ step_pending
        THEN <<Effect("StepWatchdog")>> ELSE <<>>)
    \o (IF next # eth_link THEN <<SetLink(next)>> ELSE <<>>)

\* The effects of a link sample: the watchdog is told first, a plugged-in
\* cable redials at once, and a step that waited for the sample goes ahead.
LinkEffects(next) ==
    (IF next # eth_link THEN <<SetLink(next)>> ELSE <<>>)
    \o (IF PluggedIn(next) THEN <<Effect("RequestRedial")>> ELSE <<>>)
    \o (IF PluggedIn(next) \/ step_pending
        THEN <<Effect("StepWatchdog")>> ELSE <<>>)

\* Mutant: a failed reading overwrites what is known.
OnLinkSampledForgets ==
    /\ Reduce("LinkSampled") /\ sample_in_flight
    /\ LET next == Head(queue).up
       IN  /\ sample_in_flight' = FALSE /\ link_sample_seen' = TRUE
           /\ eth_link' = next /\ todo' = LinkEffects(next)
           /\ step_pending' = FALSE /\ link_poll_at' = LinkPoll
           /\ watchdog_deadline' = IF PluggedIn(next) THEN None
                                   ELSE watchdog_deadline
    /\ UNCHANGED <<started, stopped, sessVars, toastVars>>

\* handle_link_sampled (an answer nobody waits for would be ignored; none ever
\* comes, since the sample is read inline).  A known link state is only
\* overwritten by a known one.
OnLinkSampled ==
    /\ Reduce("LinkSampled") /\ sample_in_flight
    /\ LET up   == Head(queue).up
           next == IF link_sample_seen /\ up = "None" THEN eth_link ELSE up
       IN  /\ sample_in_flight' = FALSE /\ link_sample_seen' = TRUE
           /\ eth_link' = next /\ todo' = LinkEffects(next)
           /\ step_pending' = FALSE /\ link_poll_at' = LinkPoll
           /\ watchdog_deadline' = IF PluggedIn(next) THEN None
                                   ELSE watchdog_deadline
    /\ UNCHANGED <<started, stopped, sessVars, toastVars>>

\* handle_wireless_sampled: all it asks for is on the wireless lane.
OnWirelessSampled ==
    /\ Reduce("WirelessSampled")
    /\ UNCHANGED <<started, stopped, wiredVars, timers, sessVars, toastVars,
                   todo>>

MaybeNotifyUnthrottled(key) ==
    /\ in_flight' = in_flight \cup {key} /\ todo' = <<Notify(key)>>
    /\ UNCHANGED delivered

\* maybe_notify: not while one is in flight or within the throttle window.
MaybeNotify(key) ==
    /\ IF key \in in_flight \/ delivered[key] > 0
       THEN UNCHANGED <<in_flight, todo>>
       ELSE in_flight' = in_flight \cup {key} /\ todo' = <<Notify(key)>>
    /\ UNCHANGED delivered

NoToast == UNCHANGED <<toastVars, todo>>

OnWatchdogSteppedUnarmed ==
    /\ Reduce("WatchdogStepped")
    /\ status' = Head(queue).status
    /\ NoToast
    /\ UNCHANGED <<started, stopped, wiredVars, timers, failing_since>>

\* handle_watchdog_stepped
OnWatchdogStepped ==
    /\ Reduce("WatchdogStepped")
    /\ status' = Head(queue).status
    /\ step_pending' = FALSE /\ watchdog_deadline' = Head(queue).delay
    /\ LET failing == status' \in {"Backoff", "AuthFail"}
           age     == IF failing_since = None THEN 0 ELSE failing_since
           paused  == eth_link = "Down" \/ Head(queue).link_down
       IN  /\ failing_since' = IF failing THEN age
                               ELSE IF status' = "Connected" THEN None
                               ELSE failing_since
           /\ IF failing /\ age >= ToastAfter /\ ~paused
              THEN MaybeNotify("RedialFailing") ELSE NoToast
    /\ UNCHANGED <<started, stopped, eth_link, link_sample_seen,
                   sample_in_flight, link_poll_at>>

\* handle_heartbeat
OnHeartbeat ==
    /\ Reduce("Heartbeat")
    /\ IF Head(queue).status = "Error"
       THEN MaybeNotify("HeartbeatError") ELSE NoToast
    /\ UNCHANGED <<started, stopped, wiredVars, timers, sessVars>>

\* NotificationLedger::on_result: only a delivered toast opens the window.
OnNotifyResult ==
    /\ Reduce("NotifyResult") /\ Head(queue).key \in in_flight
    /\ in_flight' = in_flight \ {Head(queue).key}
    /\ delivered' = IF Head(queue).delivered
                    THEN [delivered EXCEPT ![Head(queue).key] = Throttle]
                    ELSE delivered
    /\ UNCHANGED <<started, stopped, wiredVars, timers, sessVars, todo>>

\* handle_stop, wired part
OnStop ==
    /\ Reduce("Stop")
    /\ stopped' = TRUE /\ todo' = <<Effect("Hangup")>>
    /\ UNCHANGED <<started, wiredVars, timers, sessVars, toastVars>>

(***************************************************************************)
(* Shell::exec_main, one action per effect.  Exec(t) takes the effect off  *)
(* the list.                                                               *)
(***************************************************************************)
Exec(t) ==
    /\ todo # <<>> /\ Head(todo).type = t
    /\ todo' = Tail(todo)
    /\ UNCHANGED <<started, stopped, wiredVars, timers, sessVars, toastVars,
                   cable>>

\* Reading the adapter may fail.
ExecSampleLink ==
    /\ Exec("SampleLink")
    /\ \E up \in {"None", cable} :
          /\ queue' = Append(queue, [type |-> "LinkSampled", up |-> up])
          /\ seen' = IF up = "None" THEN seen ELSE up
    /\ fresh' = TRUE
    /\ UNCHANGED <<wdVars, rest, dials_failing, toast_rest>>

ExecSampleWireless ==
    /\ Exec("SampleWireless")
    /\ queue' = Append(queue, Event("WirelessSampled"))
    /\ UNCHANGED <<wdVars, ghostVars>>

ExecSetWatchdogLink ==
    /\ Exec("SetWatchdogLink")
    /\ wd_link' = Head(todo).up
    /\ UNCHANGED <<queue, wd_redial, wd_status, ghostVars>>

ExecRequestRedial ==
    /\ Exec("RequestRedial")
    /\ wd_redial' = TRUE
    /\ UNCHANGED <<queue, wd_link, wd_status, ghostVars>>

Result(st, d, down) == [status |-> st, delay |-> d, link_down |-> down]

\* What Watchdog::do_dial may end in.
DialResults ==
    IF wd_link = "Down" THEN {Result("Backoff", LinkDownRetry, TRUE)}
    ELSE {Result("Connected", ProbeInterval, FALSE),
          Result("AuthFail", AuthFailDelay, FALSE)}
         \cup {Result("Backoff", d, FALSE) : d \in BackoffDelays}

\* What Watchdog::run_once may end in: a connected session is probed, and is
\* dropped and redialled when it is bad or a redial was asked for.
StepResults ==
    DialResults \cup
    (IF wd_status = "Connected" /\ ~wd_redial
     THEN {Result("Connected", ProbeInterval, FALSE),
           Result("Connected", ProbeInterval \div 4, FALSE)} ELSE {})

ExecStepWatchdog ==
    /\ Exec("StepWatchdog")
    /\ wd_redial' = FALSE
    /\ \E r \in StepResults :
          /\ wd_status' = r.status /\ rest' = r.delay
          /\ queue' = Append(queue, [type |-> "WatchdogStepped",
                                     status |-> r.status, delay |-> r.delay,
                                     link_down |-> r.link_down])
          /\ dials_failing' = IF r.status = "Connected" \/ r.link_down THEN None
                              ELSE IF dials_failing = None THEN 0
                              ELSE dials_failing
    /\ UNCHANGED <<wd_link, fresh, toast_rest, seen>>

ExecNotify ==
    /\ Exec("Notify")
    /\ \E ok \in BOOLEAN :
          /\ queue' = Append(queue, [type |-> "NotifyResult",
                                     key |-> Head(todo).key, delivered |-> ok])
          /\ toast_rest' = IF ok THEN [toast_rest EXCEPT
                                           ![Head(todo).key] = Throttle]
                           ELSE toast_rest
    /\ UNCHANGED <<wdVars, rest, fresh, dials_failing, seen>>

\* Watchdog::shutdown; the loop is left once the list is empty.
ExecHangup ==
    /\ Exec("Hangup")
    /\ UNCHANGED <<queue, wdVars, ghostVars>>

(***************************************************************************)
(* The world.                                                              *)
(***************************************************************************)
CableMoves ==
    /\ ~stopped /\ cable' = IF cable = "Up" THEN "Down" ELSE "Up"
    /\ UNCHANGED <<started, stopped, wiredVars, timers, sessVars, toastVars,
                   queue, todo, wdVars, ghostVars>>

Left(t)     == IF t > 0 THEN t - 1 ELSE t
Older(a, m) == IF a # None /\ a < m THEN a + 1 ELSE a

\* The loop sleeps until the next deadline; effects that wait take any time.
Tick ==
    /\ started /\ ~stopped
    /\ \/ Sleeping /\ ~WakeDue
       \/ todo # <<>> /\ Head(todo).type \in {"SampleLink", "SampleWireless",
                                              "StepWatchdog", "Notify"}
    /\ watchdog_deadline' = Left(watchdog_deadline)
    /\ link_poll_at' = Left(link_poll_at)
    /\ failing_since' = Older(failing_since, ToastAfter)
    /\ dials_failing' = Older(dials_failing, ToastAfter)
    /\ delivered' = [k \in ToastKey |-> Left(delivered[k])]
    /\ toast_rest' = [k \in ToastKey |-> Left(toast_rest[k])]
    /\ rest' = Left(rest)
    /\ UNCHANGED <<started, stopped, wiredVars, status, in_flight, queue, todo,
                   wdVars, cable, fresh, seen>>

Terminated == stopped /\ Sleeping /\ UNCHANGED vars

Reaction ==
    \/ OnStarted \/ OnWake \/ OnRedial \/ OnLinkSampled \/ OnWatchdogStepped
    \/ OnHeartbeat \/ OnNotifyResult \/ OnStop \/ OnWirelessSampled

Execution ==
    \/ ExecSampleLink \/ ExecSampleWireless
    \/ ExecSetWatchdogLink \/ ExecRequestRedial
    \/ ExecStepWatchdog \/ ExecNotify \/ ExecHangup

Next ==
    \/ TakeWake \/ TakeRedial \/ TakeHeartbeat \/ TakeStop
    \/ Reaction \/ Execution
    \/ CableMoves \/ Tick \/ Terminated

Spec == Init /\ [][Next]_vars

\* Every effect ends (dials, probes and samples are bounded by timeouts).
\* Commands, heartbeats and the wireless half leave the loop asleep long
\* enough for time to pass and for a due wake-up to be taken again and again.
\* A link sample that may be read again and again is some day read.
SampleRead ==
    ExecSampleLink /\ queue' = Append(queue, [type |-> "LinkSampled",
                                              up |-> cable])

Fairness ==
    /\ WF_vars(Reaction) /\ WF_vars(Execution)
    /\ SF_vars(Tick) /\ SF_vars(TakeDueWake) /\ SF_vars(SampleRead)

FairSpec == Spec /\ Fairness
-----------------------------------------------------------------------------
Running == started /\ ~stopped

\* Types; in particular the shell's queue never grows beyond two events: a
\* wired one and the wireless sample.
TypeOK ==
    /\ started \in BOOLEAN /\ stopped \in BOOLEAN
    /\ eth_link \in Link /\ wd_link \in Link /\ cable \in {"Up", "Down"}
    /\ link_sample_seen \in BOOLEAN /\ sample_in_flight \in BOOLEAN
    /\ step_pending \in BOOLEAN /\ wd_redial \in BOOLEAN /\ fresh \in BOOLEAN
    /\ watchdog_deadline \in Nat \cup {None}
    /\ link_poll_at \in -1..LinkPoll
    /\ status \in Status /\ wd_status \in Status
    /\ failing_since \in -1..ToastAfter /\ dials_failing \in -1..ToastAfter
    /\ in_flight \subseteq ToastKey
    /\ delivered \in [ToastKey -> 0..Throttle]
    /\ toast_rest \in [ToastKey -> 0..Throttle]
    /\ rest \in Nat /\ seen \in Link
    /\ Len(queue) =< 2

\* Whenever the loop goes to sleep, it will wake for the next watchdog step
\* and no later than LinkPoll for the next link sample, and nothing is left in
\* flight that could keep either from happening: no order of commands, cable
\* changes, failed samples and slow dials stalls the state machine.
NoStall ==
    Running /\ Sleeping =>
        /\ watchdog_deadline # None
        /\ link_poll_at \in 0..LinkPoll
        /\ ~sample_in_flight /\ ~step_pending /\ in_flight = {}

\* What the snapshot shows and what the watchdog is in agree when the loop
\* sleeps; no redial request is left over for a later step to act on; the
\* watchdog steps with the newest link state the reducer knows of, and never
\* behind another step whose result has not been taken in.
InSync ==
    /\ Running /\ Sleeping => /\ status = wd_status /\ eth_link = wd_link
                              /\ ~wd_redial
    /\ todo # <<>> /\ Head(todo).type = "StepWatchdog" =>
          /\ eth_link = wd_link
          /\ \A i \in 2..Len(todo) : todo[i].type # "StepWatchdog"
          /\ \A i \in DOMAIN queue : queue[i].type # "WatchdogStepped"

\* Invariant I5 of the design plan: the watchdog steps on, and is left with,
\* the newest reading of the cable that succeeded, however many readings fail
\* before and after it and whatever else is at hand.
NewestReading ==
    \/ Running /\ Sleeping
    \/ todo # <<>> /\ Head(todo).type = "StepWatchdog"
    => wd_link = seen

\* Invariants I3 and I7 of the design plan: events never drive the state
\* machine.  A step that was not asked for (no redial command, no cable
\* plugged in) comes no sooner than the delay the step before it returned, ...
BackoffHonoured ==
    [][ExecStepWatchdog /\ ~wd_redial => rest = 0]_vars

\* ... and (I5) only after a link sample read in the same reaction chain.
FreshLinkBeforeStep ==
    [][ExecStepWatchdog /\ ~wd_redial => fresh]_vars

\* Two toasts of one kind are at least Throttle apart.
ToastsThrottled ==
    [][ExecNotify => toast_rest[Head(todo).key] = 0]_vars

\* The state machine keeps stepping for as long as the service runs, and a
\* cable that stays where it is becomes known to the watchdog.
KeepsStepping ==
    /\ started ~> (stopped \/ (todo # <<>> /\ Head(todo).type = "StepWatchdog"))
    /\ \A c \in {"Up", "Down"} :
          <>[](cable = c /\ started /\ ~stopped) => <>[](wd_link = c)

\* README: the toast says that redialing kept failing for ToastAfter;
\* supervisor.rs: a pause for an unplugged cable is not a failure.
ToastAfterRealFailure ==
    [][(OnWatchdogStepped /\ todo' # <<>>) => dials_failing >= ToastAfter]_vars
=============================================================================
