-------------------------- MODULE WirelessTakeover --------------------------
(***************************************************************************)
(* The wireless half of the service: the decision core Brain               *)
(* (src/wireless/mod.rs), the wireless handlers of Supervisor              *)
(* (src/supervisor.rs) and the worker that executes their effects one by   *)
(* one in a task of its own (WirelessWorker, src/runtime.rs).              *)
(*                                                                         *)
(* The control loop and the worker run concurrently: effects wait in lane, *)
(* results wait in results, and the loop takes results only between two    *)
(* events.  Every 2 s (Beat) the loop samples the WLAN and reduces the     *)
(* sample (OnWirelessSampled); a beat may come late, when a dial has kept  *)
(* the loop busy.  Sampling and reducing are one step here: between them   *)
(* the worker can only take messages off the front of the lane.  Time is   *)
(* counted in beats: instants of the code are kept as their age, deadlines *)
(* as the time left, up to what they are compared with.                    *)
(*                                                                         *)
(* The wired half appears as the flag wired (link up and session           *)
(* connected, as of the last beat), what the worker does with routes as    *)
(* the flag routes: WiredSupervisor, Watchdog and WirelessEgress have the  *)
(* insides.  The metric requests that end a beat (update_metric) change no *)
(* state of the supervisor and get no answer; WirelessEgress has them      *)
(* coming at any time.                                                     *)
(***************************************************************************)
EXTENDS Integers, Sequences, FiniteSets

CONSTANTS
    TakeoverAfter,   \* wireless.takeover_after_secs
    ReleaseAfter,    \* wireless.release_after_secs
    ProbeInterval,   \* dial.probe_interval_secs
    JoinTimeout,     \* JOIN_TIMEOUT_SECS
    AuthRetryDelays, \* AUTH_RETRY_DELAYS, a sequence
    LaneCap,         \* capacity of the lane channel (64)
    Elapsed          \* beats that may pass between two samples

ASSUME TakeoverAssumption ==
    /\ TakeoverAfter \in Nat /\ ReleaseAfter \in Nat
    /\ ProbeInterval \in Nat /\ JoinTimeout \in Nat
    /\ AuthRetryDelays \in Seq(Nat) /\ AuthRetryDelays # <<>>
    /\ LaneCap \in Nat /\ LaneCap >= 2
    /\ Elapsed \subseteq Nat \ {0} /\ Elapsed # {}

VARIABLES
    \* struct Brain
    mode, phase, unhealthy_since, healthy_since, last_probe_at, auth_busy,
    auth_fail_count, next_auth_at,
    \* struct Supervisor, wireless part; brain is FALSE after WirelessDied
    brain, verdict, associate_in_flight, auth_in_flight, probe_in_flight,
    join_since, stopped,
    \* a beat is due
    beat_due,
    \* channels and worker
    lane, results, worker, egress_error,
    \* Windows: WLAN adapter, our /32 routes; a blocking association call
    \* that outlives the worker
    wlan, routes, assoc_task,
    \* environment: the wired half
    wired,
    \* in this behaviour nobody stops the service or switches its mode, and the
    \* worker does not panic
    steady,
    \* history: a probe since the last login said Kicked
    kicked_since_login

brainVars  == <<mode, phase, unhealthy_since, healthy_since, last_probe_at,
                auth_busy, auth_fail_count, next_auth_at, brain, steady>>
flagVars   == <<associate_in_flight, auth_in_flight, probe_in_flight>>
coreVars   == <<verdict, flagVars, join_since, stopped, beat_due>>
workerVars == <<worker, egress_error>>
osVars     == <<wlan, routes, assoc_task>>
vars       == <<brainVars, coreVars, lane, results, workerVars, osVars,
                wired, kicked_since_login>>

None     == -1
Mode     == {"WiredExclusive", "WiredPlusStandby"}
Phase    == {"Off", "Joining", "Authing", "Online", "Error"}
Verdict  == {"None", "Kicked", "Other"}
\* down; connecting; associated without address; address without gateway;
\* address and gateway
WlanState == {"down", "connecting", "associated", "nogateway", "ready"}
Associated(s) == s \in {"associated", "nogateway", "ready"}
HasIp(s)      == s \in {"nogateway", "ready"}

Older(a, d, m) == IF a = None THEN None ELSE IF a + d > m THEN m ELSE a + d
Left(t, d)     == IF t = None THEN None ELSE IF t > d THEN t - d ELSE 0
SinceOrNow(a)  == IF a = None THEN 0 ELSE a      \* get_or_insert(now)

Init ==
    /\ mode \in Mode /\ phase = "Off" /\ unhealthy_since = None
    /\ healthy_since = None /\ last_probe_at = None /\ auth_busy = FALSE
    /\ auth_fail_count = 0 /\ next_auth_at = None /\ brain = TRUE
    /\ verdict = "None" /\ associate_in_flight = FALSE
    /\ auth_in_flight = FALSE /\ probe_in_flight = FALSE
    /\ join_since = None /\ stopped = FALSE /\ beat_due = TRUE
    /\ lane = <<>> /\ results = <<>> /\ worker = "alive"
    /\ egress_error = FALSE
    /\ wlan = "down" /\ routes = FALSE /\ assoc_task = FALSE
    /\ wired = FALSE /\ steady \in BOOLEAN
    /\ kicked_since_login = FALSE

(***************************************************************************)
(* Time passes until the next beat.                                        *)
(***************************************************************************)
Beat ==
    /\ brain /\ ~stopped /\ ~beat_due /\ beat_due' = TRUE
    /\ \E d \in Elapsed :
          /\ unhealthy_since' = Older(unhealthy_since, d, TakeoverAfter)
          /\ healthy_since' = Older(healthy_since, d, ReleaseAfter)
          /\ last_probe_at' = Older(last_probe_at, d, ProbeInterval)
          /\ next_auth_at' = Left(next_auth_at, d)
          /\ join_since' = Older(join_since, d, JoinTimeout + 1)
    /\ UNCHANGED <<mode, phase, auth_busy, auth_fail_count, brain, steady, verdict,
                   flagVars, stopped, lane, results, workerVars, osVars,
                   wired, kicked_since_login>>

(***************************************************************************)
(* Brain::on_auth.                                                         *)
(***************************************************************************)
\* Mutant: the delay doubles instead of following the table.
AuthFailedDoublesDelay ==
    LET n == IF auth_fail_count < Len(AuthRetryDelays) THEN auth_fail_count + 1
             ELSE auth_fail_count
    IN  /\ auth_fail_count' = n /\ next_auth_at' = 2 * AuthRetryDelays[n]
        /\ phase' = "Error" /\ auth_busy' = FALSE
        /\ UNCHANGED last_probe_at

AuthFailed ==
    LET n == IF auth_fail_count < Len(AuthRetryDelays) THEN auth_fail_count + 1
             ELSE auth_fail_count      \* larger counts give the same delay
    IN  /\ auth_fail_count' = n /\ next_auth_at' = AuthRetryDelays[n]
        /\ phase' = "Error" /\ auth_busy' = FALSE
        /\ UNCHANGED last_probe_at

AuthOk ==
    /\ phase' = "Online" /\ auth_busy' = FALSE /\ auth_fail_count' = 0
    /\ next_auth_at' = None /\ last_probe_at' = None

(***************************************************************************)
(* The outcomes of Brain::decide, each with its arm of handle_action and,  *)
(* where the phase ends up Joining, the join timeout check.  Send(es) puts *)
(* effects on the lane; a full lane makes the loop wait, a closed one      *)
(* drops them.                                                             *)
(***************************************************************************)
Send(es) ==
    /\ Len(lane) + Len(es) =< LaneCap
    /\ lane' = IF worker = "alive" THEN lane \o es ELSE lane

JoinExpired == join_since # None /\ join_since > JoinTimeout

\* The brain is (still) Joining: either the join has timed out and it starts
\* over from Off, or it waits.
JoinOrTimeOut ==
    /\ auth_busy' = FALSE /\ next_auth_at' = None
    /\ IF JoinExpired
       THEN phase' = "Off" /\ last_probe_at' = None /\ join_since' = None
       ELSE phase' = "Joining" /\ UNCHANGED <<last_probe_at, join_since>>
    /\ UNCHANGED <<auth_fail_count, verdict, auth_in_flight, probe_in_flight>>

\* Mutant: an association call that is not marked as under way.
StartJoinUnflagged ==
    /\ Send(IF associate_in_flight THEN <<>> ELSE <<"Associate">>)
    /\ UNCHANGED associate_in_flight
    /\ JoinOrTimeOut

\* start_join and Action::Associate
StartJoin ==
    /\ Send(IF associate_in_flight THEN <<>> ELSE <<"Associate">>)
    /\ associate_in_flight' = TRUE
    /\ JoinOrTimeOut

GoOn ==
    /\ UNCHANGED <<phase, last_probe_at, auth_busy, auth_fail_count,
                   next_auth_at, verdict, flagVars, join_since, lane>>

\* Action::PortalAuth.  Without address or gateway the attempt fails at once
\* and the rest of the beat (metric, join timeout) is skipped.
BeginAuth ==
    \/ /\ auth_in_flight
       /\ phase' = "Authing" /\ auth_busy' = TRUE /\ next_auth_at' = None
       /\ UNCHANGED <<last_probe_at, auth_fail_count, verdict, flagVars,
                      join_since, lane>>
    \/ /\ ~auth_in_flight /\ wlan # "ready"
       /\ AuthFailed /\ verdict' = "None"
       /\ UNCHANGED <<flagVars, join_since, lane>>
    \/ /\ ~auth_in_flight /\ wlan = "ready"
       /\ Send(<<"Acquire", "PortalAuth">>) /\ auth_in_flight' = TRUE
       /\ phase' = "Authing" /\ auth_busy' = TRUE /\ next_auth_at' = None
       /\ UNCHANGED <<last_probe_at, auth_fail_count, verdict,
                      associate_in_flight, probe_in_flight, join_since>>

\* Action::ProbeNow
ProbeNow ==
    /\ last_probe_at' = 0
    /\ Send(IF probe_in_flight THEN <<>> ELSE <<"WlanProbe">>)
    /\ probe_in_flight' = TRUE
    /\ UNCHANGED <<phase, auth_busy, auth_fail_count, next_auth_at, verdict,
                   associate_in_flight, auth_in_flight, join_since>>

\* reset_off and Action::Disassociate
Release ==
    /\ phase' = "Off" /\ auth_busy' = FALSE /\ next_auth_at' = None
    /\ last_probe_at' = None
    /\ Send(<<"TeardownRoutes", "Disassociate">>)
    /\ verdict' = "None" /\ join_since' = None
    /\ UNCHANGED <<auth_fail_count, flagVars>>

(***************************************************************************)
(* Brain::decide.                                                          *)
(***************************************************************************)
AuthRetryDue == next_auth_at \in {None, 0}
ProbeDue     == last_probe_at = None \/ last_probe_at >= ProbeInterval

\* keep_wireless
KeepWireless ==
    \/ phase = "Off" /\ StartJoin
    \/ phase = "Error" /\ AuthRetryDue /\ StartJoin
    \/ phase = "Error" /\ ~AuthRetryDue /\ GoOn
    \/ phase = "Joining" /\ HasIp(wlan) /\ BeginAuth
    \/ /\ phase = "Joining" /\ ~HasIp(wlan)
       /\ JoinOrTimeOut /\ UNCHANGED <<associate_in_flight, lane>>
    \/ phase = "Authing" /\ ~auth_busy /\ AuthRetryDue /\ BeginAuth
    \/ phase = "Authing" /\ (auth_busy \/ ~AuthRetryDue) /\ GoOn
    \/ phase = "Online" /\ verdict = "Kicked" /\ BeginAuth
    \/ phase = "Online" /\ verdict # "Kicked" /\ ~HasIp(wlan) /\ StartJoin
    \/ /\ phase = "Online" /\ verdict # "Kicked" /\ HasIp(wlan)
       /\ IF ProbeDue THEN ProbeNow ELSE GoOn

Standby ==
    /\ mode = "WiredPlusStandby"
    /\ KeepWireless
    /\ UNCHANGED <<unhealthy_since, healthy_since>>

\* Mutant: the clock of the recovery starts again on every beat.
ExclusiveHealthyRestarts ==
    /\ mode = "WiredExclusive" /\ wired'
    /\ unhealthy_since' = None /\ healthy_since' = 0
    /\ IF healthy_since' >= ReleaseAfter /\ phase # "Off" THEN Release
       ELSE IF phase = "Joining"
       THEN JoinOrTimeOut /\ UNCHANGED <<associate_in_flight, lane>>
       ELSE GoOn

ExclusiveHealthy ==
    /\ mode = "WiredExclusive" /\ wired'
    /\ unhealthy_since' = None /\ healthy_since' = SinceOrNow(healthy_since)
    /\ IF healthy_since' >= ReleaseAfter /\ phase # "Off" THEN Release
       ELSE IF phase = "Joining"
       THEN JoinOrTimeOut /\ UNCHANGED <<associate_in_flight, lane>>
       ELSE GoOn

ExclusiveOutage ==
    /\ mode = "WiredExclusive" /\ ~wired'
    /\ healthy_since' = None /\ unhealthy_since' = SinceOrNow(unhealthy_since)
    /\ IF phase = "Off" /\ unhealthy_since' < TakeoverAfter THEN GoOn
       ELSE KeepWireless

\* handle_wireless_sampled
OnWirelessSampled ==
    /\ brain /\ ~stopped /\ beat_due /\ beat_due' = FALSE
    /\ wired' \in BOOLEAN
    /\ Standby \/ ExclusiveHealthy \/ ExclusiveOutage
    /\ UNCHANGED <<mode, brain, steady, stopped, results, workerVars, osVars,
                   kicked_since_login>>

(***************************************************************************)
(* Results of the worker, taken one at a time while the loop is asleep.    *)
(***************************************************************************)
Take(type) ==
    /\ brain /\ ~stopped
    /\ results # <<>> /\ Head(results).type = type /\ results' = Tail(results)
    /\ UNCHANGED <<mode, unhealthy_since, healthy_since, brain, steady, stopped,
                   beat_due, lane, workerVars, osVars, wired,
                   kicked_since_login>>

\* Mutant: the join timeout is not started.
OnAssociateFinishedUntimed ==
    /\ Take("AssociateFinished") /\ associate_in_flight
    /\ associate_in_flight' = FALSE
    /\ UNCHANGED <<phase, last_probe_at, auth_busy, auth_fail_count, join_since,
                   next_auth_at, verdict, auth_in_flight, probe_in_flight>>

\* handle_associate_finished: the join timeout runs from here, whatever came.
OnAssociateFinished ==
    /\ Take("AssociateFinished") /\ associate_in_flight
    /\ associate_in_flight' = FALSE /\ join_since' = 0
    /\ UNCHANGED <<phase, last_probe_at, auth_busy, auth_fail_count,
                   next_auth_at, verdict, auth_in_flight, probe_in_flight>>

\* Mutant: the verdict of before the login is kept.
OnPortalFinishedKeepsVerdict ==
    /\ Take("PortalFinished") /\ auth_in_flight /\ auth_in_flight' = FALSE
    /\ IF Head(results).ok THEN AuthOk ELSE AuthFailed
    /\ UNCHANGED <<verdict, associate_in_flight, probe_in_flight, join_since>>

\* handle_portal_finished: whatever phase the brain is in by now.
OnPortalFinished ==
    /\ Take("PortalFinished") /\ auth_in_flight /\ auth_in_flight' = FALSE
    /\ IF Head(results).ok THEN AuthOk ELSE AuthFailed
    /\ verdict' = "None"
    /\ UNCHANGED <<associate_in_flight, probe_in_flight, join_since>>

\* handle_probe_finished
OnProbeFinished ==
    /\ Take("WlanProbeFinished") /\ probe_in_flight
    /\ probe_in_flight' = FALSE /\ verdict' = Head(results).verdict
    /\ UNCHANGED <<phase, last_probe_at, auth_busy, auth_fail_count,
                   next_auth_at, associate_in_flight, auth_in_flight,
                   join_since>>

\* What the reducer keeps of the wireless half, set back.
SetBack ==
    /\ phase' = "Off" /\ unhealthy_since' = None /\ healthy_since' = None
    /\ last_probe_at' = None /\ auth_busy' = FALSE /\ auth_fail_count' = 0
    /\ next_auth_at' = None /\ verdict' = "None" /\ join_since' = None
    /\ associate_in_flight' = FALSE /\ auth_in_flight' = FALSE
    /\ probe_in_flight' = FALSE

\* The result channel is closed and drained: handle_wireless_died.
OnWirelessDied ==
    /\ brain /\ ~stopped
    /\ worker = "dead" /\ results = <<>>
    /\ brain' = FALSE /\ SetBack
    /\ UNCHANGED <<mode, steady, stopped, beat_due, lane, results, workerVars,
                   osVars, wired, kicked_since_login>>

\* handle_command(SetMode)
SetMode ==
    /\ ~stopped /\ ~steady
    /\ mode' \in Mode \ {mode}
    /\ UNCHANGED <<phase, unhealthy_since, healthy_since, last_probe_at,
                   auth_busy, auth_fail_count, next_auth_at, brain, steady, coreVars,
                   lane, results, workerVars, osVars, wired,
                   kicked_since_login>>

\* handle_stop: its effects travel in one Shutdown message, behind what the
\* lane still holds.  The loop ends with it: what the reducer has kept and what
\* has not been delivered is never looked at again, and is forgotten here.
OnStop ==
    /\ ~stopped /\ ~steady /\ stopped' = TRUE
    /\ Send(<<"Shutdown">>)
    /\ SetBack /\ results' = <<>> /\ beat_due' = FALSE /\ wired' = FALSE
    /\ kicked_since_login' = FALSE
    /\ UNCHANGED <<mode, brain, steady, workerVars, osVars>>

(***************************************************************************)
(* The worker: one lane message after the other.  Do(t) is the end of the  *)
(* execution of the first one.  Results are not delivered once the stop    *)
(* token is set.                                                           *)
(***************************************************************************)
Do(t) ==
    /\ worker = "alive" /\ lane # <<>> /\ Head(lane) = t /\ lane' = Tail(lane)
    /\ UNCHANGED <<brainVars, coreVars, wired>>

Report(r) == results' = IF stopped THEN results ELSE Append(results, r)

\* WlanConnect or netsh may refuse.
DoAssociate ==
    /\ Do("Associate")
    /\ wlan' \in {wlan, IF wlan = "down" THEN "connecting" ELSE wlan}
    /\ Report([type |-> "AssociateFinished"])
    /\ UNCHANGED <<workerVars, routes, assoc_task, kicked_since_login>>

DoDisassociate ==
    /\ Do("Disassociate")
    /\ wlan' \in {"down", wlan}
    /\ UNCHANGED <<results, workerVars, routes, assoc_task, kicked_since_login>>

\* acquire and its settling time; on failure some routes may be in place.
DoAcquire ==
    /\ Do("Acquire")
    /\ egress_error' \in BOOLEAN
    /\ routes' \in {TRUE, routes \/ ~egress_error'}
    /\ UNCHANGED <<results, worker, wlan, assoc_task, kicked_since_login>>

\* A login that gets through may still lose its reply.
DoPortalAuth ==
    /\ Do("PortalAuth")
    /\ \E ok \in {FALSE, wlan = "ready" /\ ~egress_error} :
          Report([type |-> "PortalFinished", ok |-> ok])
    /\ kicked_since_login' = (kicked_since_login /\ egress_error)
    /\ egress_error' = FALSE
    /\ UNCHANGED <<worker, osVars>>

DoWlanProbe ==
    /\ Do("WlanProbe")
    /\ \E v \in {"Kicked", "Other"} :
          /\ Report([type |-> "WlanProbeFinished", verdict |-> v])
          /\ kicked_since_login' = (kicked_since_login \/ v = "Kicked")
    /\ UNCHANGED <<workerVars, osVars>>

DoTeardownRoutes ==
    /\ Do("TeardownRoutes")
    /\ routes' = FALSE /\ egress_error' = FALSE
    /\ UNCHANGED <<results, worker, wlan, assoc_task, kicked_since_login>>

\* TeardownRoutes and Disassociate, not interruptible, then the worker ends.
DoShutdown ==
    /\ Do("Shutdown") /\ worker' = "exited"
    /\ routes' = FALSE /\ egress_error' = FALSE /\ wlan' \in {"down", wlan}
    /\ UNCHANGED <<results, assoc_task, kicked_since_login>>

\* After stop a waiting call is abandoned.  An association call already handed
\* to the blocking pool goes on without the worker; so does a disassociation,
\* which WlanDrops stands for.
Abandon ==
    /\ stopped
    /\ \/ Do("Associate") /\ assoc_task' = TRUE
       \/ Do("Disassociate") /\ UNCHANGED assoc_task
       \/ Do("PortalAuth") /\ UNCHANGED assoc_task
       \/ Do("WlanProbe") /\ UNCHANGED assoc_task
    /\ UNCHANGED <<results, workerVars, wlan, routes, kicked_since_login>>

LateAssociation ==
    /\ assoc_task /\ assoc_task' = FALSE
    /\ wlan' \in {wlan, IF wlan = "down" THEN "connecting" ELSE wlan}
    /\ UNCHANGED <<brainVars, coreVars, lane, results, workerVars, routes,
                   wired, kicked_since_login>>

\* A panic: the Drops roll the routes back.
WorkerDies ==
    /\ worker = "alive" /\ ~steady /\ worker' = "dead"
    /\ lane' = <<>> /\ routes' = FALSE /\ egress_error' = FALSE
    /\ UNCHANGED <<brainVars, coreVars, results, wlan, assoc_task,
                   wired, kicked_since_login>>

(***************************************************************************)
(* The WLAN.                                                               *)
(***************************************************************************)
World ==
    UNCHANGED <<brainVars, coreVars, lane, results, workerVars, routes,
                assoc_task, wired, kicked_since_login>>

WlanComesUp ==
    /\ World
    /\ \/ wlan = "connecting" /\ wlan' = "associated"
       \/ wlan = "associated" /\ wlan' \in {"nogateway", "ready"}
       \/ wlan = "nogateway" /\ wlan' = "ready"

WlanDrops ==
    /\ World
    /\ \/ wlan # "down" /\ wlan' = "down"
       \/ HasIp(wlan) /\ wlan' = "associated"

Done == /\ stopped \/ ~brain
        /\ worker # "alive" /\ ~assoc_task /\ UNCHANGED vars

\* Results are taken in the order of their channel.
OnResult ==
    \/ OnAssociateFinished \/ OnPortalFinished \/ OnProbeFinished
    \/ OnWirelessDied

Worker ==
    \/ DoAssociate \/ DoDisassociate \/ DoAcquire \/ DoPortalAuth
    \/ DoWlanProbe \/ DoTeardownRoutes \/ DoShutdown

Next ==
    \/ Beat \/ OnWirelessSampled \/ OnResult \/ Worker \/ WlanComesUp \/ WlanDrops
    \/ SetMode \/ OnStop \/ Abandon \/ LateAssociation \/ WorkerDies \/ Done

Spec == Init /\ [][Next]_vars

\* The loop and the worker keep running and time passes.  What the world owes:
\* an association, a WLAN coming up, routes and a login that are tried again
\* and again some day succeed.
AssociateOk == DoAssociate /\ wlan' # "down"
AcquireOk   == DoAcquire /\ ~egress_error'

PortalAuthOk ==
    DoPortalAuth /\ results' = Append(results, [type |-> "PortalFinished",
                                                ok |-> TRUE])

Fairness ==
    /\ WF_vars(Beat) /\ WF_vars(OnWirelessSampled) /\ WF_vars(OnResult)
    /\ WF_vars(Worker)
    /\ SF_vars(AssociateOk) /\ SF_vars(WlanComesUp)
    /\ SF_vars(AcquireOk) /\ SF_vars(PortalAuthOk)

FairSpec == Spec /\ Fairness
-----------------------------------------------------------------------------
Running == brain /\ ~stopped

CountIn(seq, x) == Cardinality({i \in DOMAIN seq : seq[i] = x})
ResultsOf(type) == Cardinality({i \in DOMAIN results : results[i].type = type})
OneIf(flag)     == IF flag THEN 1 ELSE 0

\* Types; in particular the lane keeps to its capacity, at most one result of
\* each kind is under way, and a login waits no longer than its retry delay.
TypeOK ==
    /\ mode \in Mode /\ phase \in Phase /\ verdict \in Verdict
    /\ wlan \in WlanState /\ worker \in {"alive", "dead", "exited"}
    /\ unhealthy_since \in -1..TakeoverAfter
    /\ healthy_since \in -1..ReleaseAfter
    /\ last_probe_at \in -1..ProbeInterval
    /\ join_since \in -1..(JoinTimeout + 1)
    /\ auth_fail_count \in 0..Len(AuthRetryDelays)
    /\ next_auth_at = None \/ \E k \in DOMAIN AuthRetryDelays :
                                 next_auth_at \in 0..AuthRetryDelays[k]
    /\ Len(lane) =< LaneCap /\ Len(results) =< 3
    /\ \A f \in {brain, auth_busy, associate_in_flight, auth_in_flight,
                 probe_in_flight, stopped, beat_due, egress_error, routes,
                 assoc_task, wired, steady, kicked_since_login} :
          f \in BOOLEAN

\* Each in-flight flag stands for exactly one effect on the lane, in the
\* worker or one result on its way back: none is ever issued twice, and none
\* can be lost with its flag left set, which would silence the activity.  Of a
\* worker that died only awaited results are left, and once its death is known
\* (handle_wireless_died) nothing is awaited or at hand any more.
FlagsMatchWork ==
    /\ Running /\ worker = "alive" =>
          /\ CountIn(lane, "Associate") + ResultsOf("AssociateFinished")
                = OneIf(associate_in_flight)
          /\ CountIn(lane, "PortalAuth") + ResultsOf("PortalFinished")
                = OneIf(auth_in_flight)
          /\ CountIn(lane, "WlanProbe") + ResultsOf("WlanProbeFinished")
                = OneIf(probe_in_flight)
    /\ Running =>
          /\ ResultsOf("AssociateFinished") =< OneIf(associate_in_flight)
          /\ ResultsOf("PortalFinished") =< OneIf(auth_in_flight)
          /\ ResultsOf("WlanProbeFinished") =< OneIf(probe_in_flight)
    /\ ~brain => /\ ~associate_in_flight /\ ~auth_in_flight /\ ~probe_in_flight
                 /\ results = <<>>

\* The brain never waits for something that is not coming: Authing has a
\* login under way, Joining an association call or a running join timeout.
NothingAwaitedInVain ==
    Running =>
        /\ phase = "Authing" => auth_busy /\ auth_in_flight
        /\ phase = "Joining" => associate_in_flight \/ join_since # None

\* A verdict from before a login never triggers another login: only a probe
\* made after the last login may send an Online brain back to Authing.
NoStaleReauth ==
    [][phase = "Online" /\ phase' = "Authing" => kicked_since_login]_vars

\* Where the wireless half belongs: in exclusive mode with the wired side up it
\* is off, with everything on the lane (teardown included) executed; otherwise
\* it is online.
Settled == IF mode = "WiredExclusive" /\ wired THEN phase = "Off" /\ lane = <<>>
           ELSE phase = "Online"

\* In a service that stays up in one mode, once the wired side stays as it is
\* and the WLAN drops no more: an outage leads to a takeover, however joins and
\* logins fail on the way, and a recovery to a release, whatever the brain was
\* in the middle of.  (A join timeout may have left routes behind by then:
\* ReleaseCompletes below.)
TakesOverAndYields ==
    steady /\ <>[][wired' = wired /\ ~WlanDrops]_vars => []<>Settled

\* supervisor.rs: the join timeout counts from the return of the association
\* call, so a join that begins on this beat is not timed out on this beat.
JoinGetsItsTime ==
    [][OnWirelessSampled /\ phase = "Online" /\ phase' = "Off"
          => mode = "WiredExclusive" /\ wired']_vars

\* CONTEXT.md, release: once the wired side is stable in exclusive mode the
\* routes are withdrawn.
ReleaseCompletes ==
    steady /\ <>[](wired /\ mode = "WiredExclusive") => []<>(~routes)
=============================================================================
