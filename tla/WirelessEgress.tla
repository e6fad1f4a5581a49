--------------------------- MODULE WirelessEgress ---------------------------
(***************************************************************************)
(* The wireless egress (src/wireless/egress.rs) over its Windows adapter   *)
(* RouteGuard (src/wireless/routes.rs), as the wireless worker             *)
(* (src/runtime.rs) drives it: /32 host routes to the portal and the probe *)
(* target, and the interface metric lowered while the WLAN stands by.      *)
(* Every Windows call may fail.  The worker may end, panic or be killed at *)
(* any point between two messages, and a new service process follows.      *)
(*                                                                         *)
(* Before each lane message the worker runs retry_cleanup; every action    *)
(* for a message therefore starts with it.                                 *)
(***************************************************************************)
EXTENDS Integers, FiniteSets

CONSTANTS
    Dest,        \* destinations of the /32 routes (portal, probe host)
    Gateway,     \* WLAN gateways seen over time
    MaxIface,    \* bound: the WLAN's interface index takes values 1..MaxIface
    MaxEnds      \* bound: ends of the worker in one behaviour

ASSUME EgressAssumption == MaxIface \in Nat \ {0} /\ MaxEnds \in Nat

VARIABLES
    routes,          \* Windows: our kind of /32 routes, as <<dest, endpoint>>
    metric,          \* Windows: metric of the present WLAN interface
    live,            \* Windows: index of the present WLAN interface
    added,           \* WirelessEgress.added
    guard_added,     \* RouteGuard.added
    route_endpoint,  \* WirelessEgress.route_endpoint
    applied,         \* WirelessEgress.applied_endpoint.is_some()
    metric_release_pending,
    saved_if, saved_val,      \* RouteGuard.saved_metric
    applied_metric_ifindex,   \* RouteGuard.applied_metric_ifindex
    egress_error,    \* WirelessWorker.egress_error.is_some()
    worker,          \* "starting", "running" or "down"
    auth,            \* TRUE between AcquireWirelessEgress and its PortalAuth
    login,           \* TRUE when the last PortalAuth sent a login
    egress_wanted,   \* history: an acquire since the last TeardownRoutes
    metric_wanted,   \* history: the last metric request was to suppress
    leftover,        \* routes that earlier processes left in Windows
    metric_leftover, \* TRUE when an earlier process left the metric altered
    ends             \* ends of the worker so far

routeVars  == <<routes, added, guard_added, route_endpoint, leftover>>
guardVars  == <<metric, saved_if, saved_val, applied_metric_ifindex>>
metricVars == <<guardVars, applied, metric_release_pending>>
workerVars == <<egress_error, worker, auth, login>>
wantVars   == <<egress_wanted, metric_wanted>>
vars       == <<routeVars, metricVars, workerVars, wantVars, live,
                metric_leftover, ends>>

Iface    == 1..MaxIface
Endpoint == Gateway \X Iface          \* WlanEndpoint {gateway, ifindex}
Route    == Dest \X Endpoint
NoEndpoint == <<>>                    \* Option::None
NoIface    == 0

\* Metric of an interface: the administrator's (automatic) value, the lowered
\* standby value, or the right number with the automatic mode still off.
Metric == {"auto", "standby", "fixed"}

Wanted(r, ep) == r[2] = ep
IfOf(r) == r[2][2]

\* has_pending_cleanup
HasPendingCleanup ==
    metric_release_pending \/ \E r \in added : ~Wanted(r, route_endpoint)

(***************************************************************************)
(* The route half.  CleanupResults(a, ep): the ledgers that retry_cleanup  *)
(* may leave of a, with ep as the wanted endpoint: any unwanted route may  *)
(* resist deletion and stays in the ledger.                                *)
(***************************************************************************)
CleanupResults(a, ep) ==
    {k \in SUBSET a : \A r \in a : Wanted(r, ep) => r \in k}

\* Deleted routes leave Windows and the guard's ledger with the egress's.
Deletes(kept) ==
    /\ added' = kept
    /\ guard_added' = guard_added \ (added \ kept)

CleanRoutesForgetful ==
    \E kept \in CleanupResults(added, route_endpoint) :
        /\ Deletes({r \in added : Wanted(r, route_endpoint)})
        /\ routes' = routes \ (added \ kept)

CleanRoutes ==
    \E kept \in CleanupResults(added, route_endpoint) :
        /\ Deletes(kept)
        /\ routes' = routes \ (added \ kept)

(***************************************************************************)
(* The metric half.  RestoreMetric(ok) is RouteGuard::restore_metric; on   *)
(* failure the saved value is kept, whether or not the number had already  *)
(* been written.  Nothing can be written to an interface that is gone.     *)
(***************************************************************************)
RestoreMetric(ok) ==
    /\ applied_metric_ifindex' = NoIface
    /\ UNCHANGED saved_val
    /\ \/ saved_if = NoIface /\ ok /\ UNCHANGED <<saved_if, metric>>
       \/ saved_if = live /\ ok /\ saved_if' = NoIface /\ metric' = saved_val
       \/ saved_if # NoIface /\ ~ok /\ UNCHANGED <<saved_if, metric>>
       \/ /\ saved_if = live /\ ~ok /\ saved_val = "auto"
          /\ UNCHANGED saved_if /\ metric' = "fixed"

ReleaseMetricForgotten(ok) ==
    \/ ~applied /\ ok /\ UNCHANGED <<guardVars, metric_release_pending>>
    \/ applied /\ RestoreMetric(ok) /\ metric_release_pending' = FALSE

\* release_metric
ReleaseMetricCall(ok) ==
    \/ ~applied /\ ok /\ UNCHANGED <<guardVars, metric_release_pending>>
    \/ applied /\ RestoreMetric(ok) /\ metric_release_pending' = ~ok

\* The metric part of retry_cleanup.  Two calls in a row end like one.
CleanMetric(ok) ==
    \/ /\ metric_release_pending
       /\ ReleaseMetricCall(ok)
    \/ /\ ~metric_release_pending
       /\ ok /\ UNCHANGED <<guardVars, metric_release_pending>>

\* RouteGuard::set_standby_metric on interface i, from the guard state
\* (met, sif, sval, held) that the retry_cleanup before it has left.
SuppressFrom(i, met, sif, sval, held) ==
    LET original == IF sif = i THEN sval ELSE met
    IN  \/ /\ held = i \/ (i # live /\ sif # i)   \* idempotent; read failed
           /\ metric' = met /\ saved_if' = sif /\ saved_val' = sval
           /\ applied_metric_ifindex' = held
        \/ /\ held # i /\ sif # i /\ i = live     \* read failed all the same
           /\ metric' = met /\ saved_if' = sif /\ saved_val' = sval
           /\ applied_metric_ifindex' = held
        \/ /\ held # i /\ (i = live \/ sif = i)   \* write failed
           /\ metric' = met /\ saved_if' = i /\ saved_val' = original
           /\ applied_metric_ifindex' = held
        \/ /\ held # i /\ i = live
           /\ metric' = "standby" /\ saved_if' = i /\ saved_val' = original
           /\ applied_metric_ifindex' = i

(***************************************************************************)
(* A fresh worker: empty ledgers.  The first lane message it gets is       *)
(* CleanupStaleRoutes.                                                     *)
(***************************************************************************)
Init ==
    /\ routes = {} /\ metric = "auto" /\ live = 1
    /\ added = {} /\ guard_added = {} /\ route_endpoint = NoEndpoint
    /\ applied = FALSE /\ metric_release_pending = FALSE
    /\ saved_if = NoIface /\ saved_val = "auto"
    /\ applied_metric_ifindex = NoIface
    /\ egress_error = FALSE /\ worker = "starting"
    /\ auth = FALSE /\ login = FALSE
    /\ egress_wanted = FALSE /\ metric_wanted = FALSE
    /\ leftover = {} /\ metric_leftover = FALSE /\ ends = 0

\* routes::cleanup_stale: each deletion may fail, as may reading the table.
CleanupStaleRoutes ==
    /\ worker = "starting" /\ worker' = "running"
    /\ routes' \in SUBSET routes
    /\ leftover' = routes'
    /\ UNCHANGED <<added, guard_added, route_endpoint, metricVars, egress_error,
                   auth, login, wantVars, live, metric_leftover, ends>>

AcquireIgnoresFailures(ep) ==
    /\ worker = "running" /\ ~auth /\ auth' = TRUE
    /\ route_endpoint' = ep /\ applied' = TRUE /\ egress_wanted' = TRUE
    /\ \E kept \in CleanupResults(added, IF ep = route_endpoint THEN ep
                                          ELSE NoEndpoint) :
       \E new \in SUBSET {r \in Dest \X {ep} : r \notin kept /\ IfOf(r) = live},
          ok \in BOOLEAN :
          /\ added' = kept \cup new
          /\ guard_added' = (guard_added \ (added \ kept)) \cup new
          /\ routes' = (routes \ (added \ kept)) \cup new
          /\ leftover' = leftover \ new
          /\ CleanMetric(ok)
          /\ egress_error' = (~ok \/ \E r \in kept : ~Wanted(r, ep))
    /\ UNCHANGED <<worker, login, metric_wanted, live, metric_leftover, ends>>

\* AcquireWirelessEgress(ep): retry_cleanup for the old endpoint, then acquire,
\* which cleans up again for ep and adds what is missing.  (Between them the
\* two cleanups may delete anything, unless the endpoint stays the same.)  A
\* failure of the second part is kept for the PortalAuth that follows.
AcquireWirelessEgress(ep) ==
    /\ worker = "running" /\ ~auth /\ auth' = TRUE
    /\ route_endpoint' = ep /\ applied' = TRUE /\ egress_wanted' = TRUE
    /\ \E kept \in CleanupResults(added, IF ep = route_endpoint THEN ep
                                          ELSE NoEndpoint) :
       \E new \in SUBSET {r \in Dest \X {ep} : r \notin kept /\ IfOf(r) = live},
          ok \in BOOLEAN :
          /\ added' = kept \cup new
          /\ guard_added' = (guard_added \ (added \ kept)) \cup new
          /\ routes' = (routes \ (added \ kept)) \cup new
          /\ leftover' = leftover \ new
          /\ CleanMetric(ok)
          /\ egress_error' = (\/ ~ok
                              \/ \E r \in kept : ~Wanted(r, ep)
                              \/ ~(Dest \X {ep} \subseteq kept \cup new))
    /\ UNCHANGED <<worker, login, metric_wanted, live, metric_leftover, ends>>

\* PortalAuth: a failed acquisition is reported instead of logging in.
PortalAuth ==
    /\ worker = "running" /\ auth /\ auth' = FALSE
    /\ CleanRoutes /\ \E ok \in BOOLEAN : CleanMetric(ok)
    /\ login' = ~egress_error /\ egress_error' = FALSE
    /\ UNCHANGED <<route_endpoint, leftover, applied, worker, wantVars,
                   live, metric_leftover, ends>>

\* Any message that leaves the egress alone (Associate, Disassociate, Settle,
\* WlanProbe, SuppressMetric with target 0), and the 2 s timer that runs
\* while cleanup is pending: retry_cleanup only.
RetryCleanup ==
    /\ worker = "running"
    /\ CleanRoutes /\ \E ok \in BOOLEAN : CleanMetric(ok)
    /\ UNCHANGED <<route_endpoint, leftover, applied, workerVars,
                   wantVars, live, metric_leftover, ends>>

\* The case of RetryCleanup in which Windows refuses nothing it can do.
RetrySucceeds ==
    /\ worker = "running" /\ HasPendingCleanup
    /\ added' = {r \in added : Wanted(r, route_endpoint)}
    /\ guard_added' = guard_added \ (added \ added')
    /\ routes' = routes \ (added \ added')
    /\ CleanMetric(saved_if \in {NoIface, live} \/ ~metric_release_pending)
    /\ UNCHANGED <<route_endpoint, leftover, applied, workerVars,
                   wantVars, live, metric_leftover, ends>>

\* SuppressMetric {ifindex: i}; i may name an interface already replaced.
SuppressMetric(i) ==
    /\ worker = "running" /\ ~auth /\ i =< live
    /\ CleanRoutes
    /\ \/ /\ ~metric_release_pending
          /\ SuppressFrom(i, metric, saved_if, saved_val, applied_metric_ifindex)
       \/ /\ metric_release_pending /\ saved_if \in {NoIface, live}
          /\ SuppressFrom(i, IF saved_if = live THEN saved_val ELSE metric,
                          NoIface, saved_val, NoIface)
       \/ /\ metric_release_pending /\ saved_if # NoIface
          /\ \E met \in {metric} \cup
                        IF saved_if = live /\ saved_val = "auto"
                        THEN {"fixed"} ELSE {} :
                SuppressFrom(i, met, saved_if, saved_val, NoIface)
    /\ metric_release_pending' = FALSE /\ applied' = TRUE
    /\ metric_wanted' = TRUE
    /\ UNCHANGED <<route_endpoint, leftover, workerVars, egress_wanted, live,
                   metric_leftover, ends>>

ReleaseMetric ==
    /\ worker = "running" /\ ~auth
    /\ CleanRoutes /\ \E ok \in BOOLEAN : ReleaseMetricCall(ok)
    /\ metric_wanted' = FALSE
    /\ UNCHANGED <<route_endpoint, leftover, applied, workerVars, egress_wanted,
                   live, metric_leftover, ends>>

TeardownKeepsEndpoint ==
    /\ worker = "running" /\ ~auth
    /\ CleanRoutes /\ UNCHANGED route_endpoint
    /\ \E ok \in BOOLEAN : ReleaseMetricCall(ok) /\ applied' = (applied /\ ~ok)
    /\ egress_error' = FALSE
    /\ egress_wanted' = FALSE /\ metric_wanted' = FALSE
    /\ UNCHANGED <<leftover, worker, auth, login, live, metric_leftover, ends>>

TeardownForgetsEndpoint ==
    /\ worker = "running" /\ ~auth
    /\ route_endpoint' = NoEndpoint
    /\ \E kept \in SUBSET added :
          Deletes(kept) /\ routes' = routes \ (added \ kept)
    /\ \E ok \in BOOLEAN : ReleaseMetricCall(ok) /\ applied' = FALSE
    /\ egress_error' = FALSE
    /\ egress_wanted' = FALSE /\ metric_wanted' = FALSE
    /\ UNCHANGED <<leftover, worker, auth, login, live, metric_leftover, ends>>

\* TeardownRoutes: retry_cleanup, then release.
TeardownRoutes ==
    /\ worker = "running" /\ ~auth
    /\ route_endpoint' = NoEndpoint
    /\ \E kept \in SUBSET added :
          Deletes(kept) /\ routes' = routes \ (added \ kept)
    /\ \E ok \in BOOLEAN : ReleaseMetricCall(ok) /\ applied' = (applied /\ ~ok)
    /\ egress_error' = FALSE
    /\ egress_wanted' = FALSE /\ metric_wanted' = FALSE
    /\ UNCHANGED <<leftover, worker, auth, login, live, metric_leftover, ends>>

-----------------------------------------------------------------------------
(***************************************************************************)
(* Ends of the worker and of the service process, and the WLAN adapter.    *)
(***************************************************************************)
\* What a fresh worker, or none, has in memory.
EmptyLedgers ==
    /\ added' = {} /\ guard_added' = {} /\ route_endpoint' = NoEndpoint
    /\ applied' = FALSE /\ metric_release_pending' = FALSE
    /\ saved_if' = NoIface /\ saved_val' = "auto"
    /\ applied_metric_ifindex' = NoIface
    /\ egress_error' = FALSE /\ auth' = FALSE /\ login' = FALSE
    /\ egress_wanted' = FALSE /\ metric_wanted' = FALSE

\* What the last restore_metric may leave of the interface's metric.
RestoredMetrics ==
    {metric} \cup (IF saved_if # live THEN {}
                   ELSE {saved_val} \cup (IF saved_val = "auto" THEN {"fixed"}
                                          ELSE {}))

WorkerDown ==
    /\ worker # "down" /\ worker' = "down"
    /\ ends < MaxEnds /\ ends' = ends + 1
    /\ EmptyLedgers
    /\ leftover' = routes' /\ metric_leftover' = (metric' # "auto")
    /\ UNCHANGED live

\* The Shutdown message (TeardownRoutes, then both Drops) or a panic (the
\* Drops alone).  Each undoes what Windows lets it undo.
WorkerEnds ==
    /\ \E kept \in SUBSET guard_added : routes' = routes \ (guard_added \ kept)
    /\ metric' \in RestoredMetrics
    /\ WorkerDown

\* The process is killed, or exits 5 s after an unanswered Shutdown.
Killed == UNCHANGED <<routes, metric>> /\ WorkerDown

\* The next service process.
StartWorker ==
    /\ worker = "down" /\ worker' = "starting"
    /\ UNCHANGED <<routeVars, metricVars, egress_error, auth, login, wantVars,
                   live, metric_leftover, ends>>

\* The adapter comes back under a new index: Windows drops the routes of the
\* old one, and the new interface has its own, automatic metric.
IfaceReplaced ==
    /\ live < MaxIface /\ live' = live + 1
    /\ routes' = {r \in routes : IfOf(r) = live'}
    /\ leftover' = leftover \cap routes'
    /\ metric' = "auto" /\ metric_leftover' = FALSE
    /\ UNCHANGED <<added, guard_added, route_endpoint, saved_if, saved_val,
                   applied_metric_ifindex, applied, metric_release_pending,
                   workerVars, wantVars, ends>>

Next ==
    \/ CleanupStaleRoutes
    \/ \E ep \in Endpoint : ep[2] =< live /\ AcquireWirelessEgress(ep)
    \/ PortalAuth
    \/ RetryCleanup \/ RetrySucceeds
    \/ \E i \in Iface : SuppressMetric(i)
    \/ ReleaseMetric \/ TeardownRoutes
    \/ Killed \/ WorkerEnds \/ StartWorker
    \/ IfaceReplaced

Spec == Init /\ [][Next]_vars

\* While cleanup is pending the worker's 2 s timer fires again and again; a
\* call that Windows could carry out is not refused for ever.
FairSpec == Spec /\ WF_vars(RetrySucceeds)

-----------------------------------------------------------------------------
\* The types, and that a pending release still knows it has something to undo
\* (release_metric does nothing without an applied endpoint).
TypeOK ==
    /\ routes \subseteq Route /\ added \subseteq Route
    /\ guard_added \subseteq Route /\ leftover \subseteq Route
    /\ metric \in Metric /\ saved_val \in Metric
    /\ live \in Iface
    /\ saved_if \in Iface \cup {NoIface}
    /\ applied_metric_ifindex \in Iface \cup {NoIface}
    /\ route_endpoint \in Endpoint \cup {NoEndpoint}
    /\ applied \in BOOLEAN /\ metric_release_pending \in BOOLEAN
    /\ egress_error \in BOOLEAN /\ auth \in BOOLEAN /\ login \in BOOLEAN
    /\ egress_wanted \in BOOLEAN /\ metric_wanted \in BOOLEAN
    /\ metric_leftover \in BOOLEAN
    /\ metric_release_pending => applied
    /\ worker \in {"starting", "running", "down"}
    /\ ends \in 0..MaxEnds

\* Every /32 route in Windows is either in both ledgers, so that teardown and
\* the two Drops will delete it, or was left by an earlier process: no partial
\* failure of add, delete or retry makes the worker lose one of its routes.
RoutesTracked ==
    /\ added = guard_added
    /\ routes \subseteq added \cup leftover

\* After teardown (or release) was asked for, whatever is still in place keeps
\* has_pending_cleanup true, so the worker's idle timer goes on retrying even
\* if the WLAN is gone and no message ever comes.  A lowered (or half restored)
\* metric is never forgotten: while the present process is the one that altered
\* it, the guard holds the original value for this very interface, through
\* failed restores, repeated suppression and changes of the interface index.
RollbackArmed ==
    worker = "running" =>
        /\ metric # "auto" /\ ~metric_leftover
              => applied /\ saved_if = live /\ saved_val = "auto"
        /\ ~egress_wanted /\ ~(routes \subseteq leftover) => HasPendingCleanup
        /\ ~metric_wanted /\ metric # "auto" /\ ~metric_leftover
              => metric_release_pending

\* A login is sent only over the egress just acquired: every destination has
\* its route on the wanted endpoint and this process routes it nowhere else,
\* unless the adapter was replaced after the acquisition.
LoginHasEgress ==
    [][auth /\ ~auth' /\ login' /\ route_endpoint[2] = live =>
          /\ \A d \in Dest : <<d, route_endpoint>> \in routes'
          /\ \A r \in routes' \ leftover : r[2] = route_endpoint]_vars

\* Once teardown and release have been asked for, the routes of this process
\* and the altered metric are eventually gone, unless they are wanted again or
\* the worker ends first.
RollbackCompletes ==
    (worker = "running" /\ ~egress_wanted /\ ~metric_wanted)
        ~> (\/ worker # "running" \/ egress_wanted \/ metric_wanted
            \/ routes \subseteq leftover /\ (metric = "auto" \/ metric_leftover))

\* CONTEXT.md: the suppressed metric is put back on leaving the mode, on
\* yielding and on stopping; the takeover design: what a process could not put
\* back, the next one cleans up.  A release that reports a saved metric as put
\* back has therefore never put the lowered one back.
MetricRestored ==
    [][ReleaseMetric /\ saved_if # NoIface /\ saved_if' = NoIface
          => metric' # "standby"]_vars
=============================================================================
