------------------------ MODULE WirelessEgressProofs ------------------------
(***************************************************************************)
(* No route and no altered metric of the wireless egress is ever lost, a   *)
(* login goes out over its own egress only, and what the client believes   *)
(* is what the server said: for any number of destinations, gateways,      *)
(* interface changes and ends of the process.                              *)
(***************************************************************************)
EXTENDS PortalLogin, TLAPS

\* The type invariant in two parts: what is true or false, and the rest.
FlagsOK ==
    /\ applied \in BOOLEAN /\ metric_release_pending \in BOOLEAN
    /\ egress_error \in BOOLEAN /\ auth \in BOOLEAN /\ login \in BOOLEAN
    /\ egress_wanted \in BOOLEAN /\ metric_wanted \in BOOLEAN
    /\ metric_leftover \in BOOLEAN
DataOK ==
    /\ routes \subseteq Route /\ added \subseteq Route /\ leftover \subseteq Route
    /\ metric \in Metric /\ saved_val \in Metric
    /\ live \in Iface
    /\ saved_if \in Iface \cup {NoIface}
    /\ applied_metric_ifindex \in Iface \cup {NoIface}
    /\ route_endpoint \in Endpoint \cup {NoEndpoint}
    /\ worker \in {"starting", "running", "down"}
    /\ ends \in 0..MaxEnds

\* An altered metric that this process has to answer for has its original
\* value kept for the present interface, in an egress that knows of it; and a
\* value kept for the present interface is the original one.
MetricKept ==
    ~metric_leftover =>
        /\ metric # "auto" => applied /\ saved_if = live
        /\ saved_if = live => saved_val = "auto"

\* Nobody wants it altered: its release is pending.
ReleaseArmed ==
    ~metric_leftover /\ ~metric_wanted /\ metric # "auto" => metric_release_pending
PendingKnown == metric_release_pending => applied

\* No interface is known before Windows has shown it.
Known ==
    /\ saved_if =< live
    /\ route_endpoint # NoEndpoint => route_endpoint[2] =< live
    /\ \A r \in added : IfOf(r) =< live

\* Without an acquire since the last teardown no endpoint is wanted.
NoneWanted == ~egress_wanted => route_endpoint = NoEndpoint

\* A worker that is not running has no route in its ledger.
Fresh == worker # "running" => added = {}

\* A route in the ledger that the adapter has not lost is in Windows.
InPlace == \A r \in added : IfOf(r) = live => r \in routes

\* Between a successful acquisition and its login the ledger holds every route
\* of the endpoint and no other.
EgressComplete ==
    auth => /\ route_endpoint \in Endpoint
            /\ ~egress_error => /\ \A d \in Dest : <<d, route_endpoint>> \in added
                                /\ \A r \in added : Wanted(r, route_endpoint)

\* The inductive invariant.
IInv == /\ FlagsOK /\ DataOK /\ RoutesTracked /\ MetricKept /\ ReleaseArmed
        /\ PendingKnown /\ Known /\ NoneWanted /\ Fresh /\ InPlace
        /\ EgressComplete

\* The same for the login that rides on it: a verdict is there only to be
\* reported, and says what the server said.
LoginInv ==
    /\ cycle \in {"open", "closed"} /\ session \in BOOLEAN
    /\ result \in {"none", "ok", "failed"}
    /\ result # "none" => step = "report"
    /\ step \in {"settle", "login"} => heard = "open"
    /\ result = "ok" => heard = "online"
    /\ result = "failed" => heard # "online"

-----------------------------------------------------------------------------
(***************************************************************************)
(* The routes                                                              *)
(***************************************************************************)
\* A route has an endpoint, and none is the endpoint that stands for none.
LEMMA RouteShape ==
    ASSUME NEW r \in Route
    PROVE  /\ r = <<r[1], r[2]>> /\ r[1] \in Dest /\ r[2] \in Endpoint
           /\ IfOf(r) \in Iface /\ r[2] # NoEndpoint
<1>1. r = <<r[1], r[2]>> /\ r[1] \in Dest /\ r[2] \in Endpoint
  BY DEF Route
<1>2. r[2] = <<r[2][1], r[2][2]>> /\ r[2][2] \in Iface
  BY <1>1 DEF Endpoint
<1>3. QED
  BY <1>1, <1>2 DEF IfOf, NoEndpoint

\* What the route half of the invariant says of a state.
RoutesOK == /\ routes \subseteq Route /\ added \subseteq Route /\ leftover \subseteq Route
            /\ RoutesTracked /\ InPlace

\* Whatever is deleted leaves Windows and both ledgers together.
LEMMA DeletesKeep ==
    ASSUME RoutesOK, NEW kept, kept \subseteq added, Deletes(kept),
           routes' = routes \ (added \ kept), UNCHANGED <<leftover, live>>
    PROVE  RoutesOK' /\ added' = kept
BY DEF RoutesOK, RoutesTracked, InPlace, Deletes

\* retry_cleanup drops from both ledgers exactly the routes it has deleted,
\* and no route that is wanted.
LEMMA CleanRoutesKeep ==
    ASSUME RoutesOK, CleanRoutes, UNCHANGED <<leftover, live>>
    PROVE  /\ RoutesOK' /\ added' \subseteq added
           /\ \A r \in added : Wanted(r, route_endpoint) => r \in added'
<1>1. PICK kept \in CleanupResults(added, route_endpoint) :
         /\ Deletes(kept) /\ routes' = routes \ (added \ kept)
  BY DEF CleanRoutes
<1>2. kept \subseteq added /\ \A r \in added : Wanted(r, route_endpoint) => r \in kept
  BY DEF CleanupResults
<1>3. QED
  BY <1>1, <1>2, DeletesKeep

-----------------------------------------------------------------------------
(***************************************************************************)
(* The metric                                                              *)
(***************************************************************************)
\* What the metric half of the invariant says of the values.
MetricTypes ==
    /\ metric \in Metric /\ saved_val \in Metric /\ live \in Iface
    /\ saved_if \in Iface \cup {NoIface}
    /\ applied_metric_ifindex \in Iface \cup {NoIface}
MetricOK == MetricTypes /\ MetricKept /\ saved_if =< live

\* restore_metric puts the original value back or keeps it.
LEMMA RestoreKeeps ==
    ASSUME MetricOK, applied, NEW ok \in BOOLEAN, RestoreMetric(ok), live' = live
    PROVE  /\ MetricTypes' /\ saved_if' =< live /\ saved_val' = saved_val
           /\ saved_if' \in {NoIface, saved_if}
           /\ ~metric_leftover /\ metric' # "auto" => ~ok /\ saved_if' = live
           /\ ~metric_leftover /\ saved_if' = live => saved_val' = "auto"
<1>1. /\ 0 \notin Iface /\ live \in Int /\ NoIface =< live /\ NoIface # live
      /\ "fixed" \in Metric
  BY EgressAssumption DEF MetricOK, MetricTypes, Iface, NoIface, Metric
<1>2. /\ MetricTypes' /\ saved_if' =< live /\ saved_val' = saved_val
      /\ saved_if' \in {NoIface, saved_if}
  BY <1>1 DEF RestoreMetric, MetricOK, MetricTypes
<1>3. ASSUME ~metric_leftover, metric' # "auto" PROVE ~ok /\ saved_if' = live
  BY <1>1, <1>3 DEF RestoreMetric, MetricOK, MetricKept
<1>4. ASSUME ~metric_leftover, saved_if' = live PROVE saved_val' = "auto"
  BY <1>1, <1>2, <1>4 DEF MetricOK, MetricKept
<1>5. QED
  BY <1>2, <1>3, <1>4

\* release_metric leaves the metric its own or the release pending.
LEMMA ReleaseKeeps ==
    ASSUME MetricOK, PendingKnown, FlagsOK, NEW ok \in BOOLEAN,
           ReleaseMetricCall(ok), live' = live
    PROVE  /\ MetricTypes' /\ saved_if' =< live
           /\ saved_if' \in {NoIface, saved_if}
           /\ metric_release_pending' \in BOOLEAN
           /\ metric_release_pending' => applied /\ ~ok
           /\ ~metric_leftover /\ metric' # "auto" =>
                  applied /\ saved_if' = live /\ metric_release_pending'
           /\ ~metric_leftover /\ saved_if' = live => saved_val' = "auto"
<1>1. CASE applied
  <2>1. RestoreMetric(ok) /\ metric_release_pending' = ~ok
    BY <1>1 DEF ReleaseMetricCall
  <2>2. CASE ok
    BY <1>1, <2>1, <2>2, RestoreKeeps
  <2>3. CASE ~ok
    BY <1>1, <2>1, <2>3, RestoreKeeps
  <2>4. QED
    BY <2>2, <2>3
<1>2. CASE ~applied
  <2>1. ok /\ UNCHANGED <<metric, saved_if, saved_val, applied_metric_ifindex,
                          metric_release_pending>>
    BY <1>2 DEF ReleaseMetricCall, guardVars
  <2>2. ~metric_release_pending /\ metric_release_pending' \in BOOLEAN
    BY <1>2, <2>1 DEF PendingKnown, FlagsOK
  <2>3. QED
    BY <1>2, <2>1, <2>2 DEF MetricOK, MetricTypes, MetricKept
<1>3. QED
  BY <1>1, <1>2

\* So does the metric part of retry_cleanup, if it was so before.
LEMMA CleanMetricKeeps ==
    ASSUME MetricOK, PendingKnown, ReleaseArmed, FlagsOK, NEW ok \in BOOLEAN,
           CleanMetric(ok), live' = live
    PROVE  /\ MetricTypes' /\ saved_if' =< live
           /\ saved_if' \in {NoIface, saved_if}
           /\ metric_release_pending' \in BOOLEAN
           /\ metric_release_pending' => applied
           /\ ~metric_leftover /\ metric' # "auto" => applied /\ saved_if' = live
           /\ ~metric_leftover /\ ~metric_wanted /\ metric' # "auto"
                  => metric_release_pending'
           /\ ~metric_leftover /\ saved_if' = live => saved_val' = "auto"
<1>1. CASE metric_release_pending
  BY <1>1, ReleaseKeeps DEF CleanMetric
<1>2. CASE ~metric_release_pending
  <2>1. UNCHANGED <<metric, saved_if, saved_val, applied_metric_ifindex,
                    metric_release_pending>>
    BY <1>2 DEF CleanMetric, guardVars
  <2>2. QED
    BY <2>1 DEF MetricOK, MetricTypes, MetricKept, PendingKnown, ReleaseArmed,
       FlagsOK
<1>3. QED
  BY <1>1, <1>2

\* set_standby_metric saves the original value before it writes another.
LEMMA SuppressKeeps ==
    ASSUME NEW i \in Iface, i =< live, live \in Iface, NEW met \in Metric,
           NEW sif \in Iface \cup {NoIface}, sif =< live, NEW sval \in Metric,
           NEW held \in Iface \cup {NoIface},
           SuppressFrom(i, met, sif, sval, held), live' = live,
           ~metric_leftover => /\ met # "auto" => sif = live
                               /\ sif = live => sval = "auto"
    PROVE  /\ MetricTypes' /\ saved_if' =< live
           /\ ~metric_leftover => /\ metric' # "auto" => saved_if' = live
                                  /\ saved_if' = live => saved_val' = "auto"
<1> DEFINE original == IF sif = i THEN sval ELSE met
<1>1. original \in Metric /\ "standby" \in Metric
  BY DEF Metric
<1>2. ~metric_leftover /\ i = live => original = "auto"
  OBVIOUS
<1>3. ~metric_leftover /\ i # live /\ sif = i => met = "auto"
  OBVIOUS
<1>4. \/ /\ metric' = met /\ saved_if' = sif /\ saved_val' = sval
         /\ applied_metric_ifindex' = held
      \/ /\ i = live \/ sif = i
         /\ metric' = met /\ saved_if' = i /\ saved_val' = original
         /\ applied_metric_ifindex' = held
      \/ /\ i = live
         /\ metric' = "standby" /\ saved_if' = i /\ saved_val' = original
         /\ applied_metric_ifindex' = i
  BY DEF SuppressFrom
<1> HIDE DEF original
<1>5. MetricTypes' /\ saved_if' =< live
  BY <1>1, <1>4 DEF MetricTypes
<1>6. ASSUME ~metric_leftover, metric' # "auto" PROVE saved_if' = live
  BY <1>3, <1>4, <1>6
<1>7. ASSUME ~metric_leftover, saved_if' = live PROVE saved_val' = "auto"
  BY <1>2, <1>4, <1>7
<1>8. QED
  BY <1>5, <1>6, <1>7

-----------------------------------------------------------------------------
(***************************************************************************)
(* The steps of the egress                                                 *)
(***************************************************************************)
\* The initial states are among the invariant's.
LEMMA InitInv == ASSUME Init PROVE IInv
<1> USE DEF Init
<1>1. FlagsOK
  BY Zenon DEF FlagsOK
<1>2. DataOK
  BY EgressAssumption DEF DataOK, Metric, Iface
<1>3. RoutesTracked /\ InPlace
  BY DEF RoutesTracked, InPlace
<1>4. MetricKept /\ ReleaseArmed /\ PendingKnown
  BY DEF MetricKept, ReleaseArmed, PendingKnown
<1>5. Known /\ NoneWanted /\ Fresh
  BY DEF Known, NoneWanted, Fresh, NoIface
<1>6. EgressComplete
  BY DEF EgressComplete
<1>7. QED
  BY <1>1, <1>2, <1>3, <1>4, <1>5, <1>6 DEF IInv

\* retry_cleanup, before whatever leaves the egress alone.
LEMMA CleanupKeeps ==
    ASSUME IInv, CleanRoutes, NEW ok \in BOOLEAN, CleanMetric(ok),
           UNCHANGED <<route_endpoint, leftover, applied, live, metric_leftover,
                       worker, egress_wanted, metric_wanted, ends>>,
           egress_error' \in BOOLEAN, auth' \in BOOLEAN, login' \in BOOLEAN,
           auth' => auth /\ egress_error' = egress_error
    PROVE  IInv'
<1> USE DEF IInv
<1>a. RoutesOK /\ MetricOK
  BY DEF RoutesOK, MetricOK, MetricTypes, DataOK, Known
<1>b. /\ RoutesOK' /\ added' \subseteq added
      /\ \A r \in added : Wanted(r, route_endpoint) => r \in added'
  BY <1>a, CleanRoutesKeep
<1>c. /\ MetricTypes' /\ saved_if' =< live
      /\ metric_release_pending' \in BOOLEAN
      /\ metric_release_pending' => applied
      /\ ~metric_leftover /\ metric' # "auto" => applied /\ saved_if' = live
      /\ ~metric_leftover /\ ~metric_wanted /\ metric' # "auto"
             => metric_release_pending'
      /\ ~metric_leftover /\ saved_if' = live => saved_val' = "auto"
  BY <1>a, CleanMetricKeeps
<1>1. FlagsOK'
  BY <1>c, Zenon DEF FlagsOK
<1>2. DataOK'
  BY <1>b, <1>c DEF DataOK, RoutesOK, MetricTypes
<1>3. RoutesTracked'
  BY <1>b DEF RoutesOK
<1>4. MetricKept'
  BY <1>b, <1>c DEF MetricKept
<1>5. ReleaseArmed'
  BY <1>b, <1>c DEF ReleaseArmed
<1>6. PendingKnown'
  BY <1>b, <1>c DEF PendingKnown
<1>7. Known'
  BY <1>b, <1>c DEF Known
<1>8. NoneWanted'
  BY <1>b, <1>c DEF NoneWanted
<1>9. Fresh'
  BY <1>b, <1>c DEF Fresh
<1>10. InPlace'
  BY <1>b DEF RoutesOK
<1>11. EgressComplete'
  BY <1>b DEF EgressComplete, Wanted
<1>12. QED
  BY <1>1, <1>2, <1>3, <1>4, <1>5, <1>6, <1>7, <1>8, <1>9, <1>10, <1>11

\* A retry that Windows does not refuse is a retry.
LEMMA RetryIsRetry == RetrySucceeds => RetryCleanup
<1> SUFFICES ASSUME RetrySucceeds PROVE RetryCleanup
  OBVIOUS
<1> DEFINE kept == {r \in added : Wanted(r, route_endpoint)}
           ok == saved_if \in {NoIface, live} \/ ~metric_release_pending
<1>1. kept \in CleanupResults(added, route_endpoint)
  BY DEF CleanupResults
<1>2. Deletes(kept) /\ routes' = routes \ (added \ kept)
  BY DEF RetrySucceeds, Deletes
<1>3. CleanRoutes
  BY <1>1, <1>2 DEF CleanRoutes
<1>4. ok \in BOOLEAN /\ CleanMetric(ok)
  <2>1. CleanMetric(ok)
    BY DEF RetrySucceeds
  <2>2. ok \in BOOLEAN
    BY Zenon
  <2>3. QED
    BY <2>1, <2>2
<1> HIDE DEF ok
<1>5. QED
  BY <1>3, <1>4 DEF RetrySucceeds, RetryCleanup

\* The retry, on its own or before a message that leaves the egress alone.
LEMMA RetryStep == ASSUME IInv, RetryCleanup \/ RetrySucceeds PROVE IInv'
<1>1. RetryCleanup
  BY RetryIsRetry
<1>2. PICK ok \in BOOLEAN : CleanMetric(ok)
  BY <1>1 DEF RetryCleanup
<1>3. /\ CleanRoutes
      /\ UNCHANGED <<route_endpoint, leftover, applied, live, metric_leftover, worker,
                     egress_wanted, metric_wanted, ends, egress_error, auth, login>>
  BY <1>1 DEF RetryCleanup, workerVars, wantVars
<1>4. egress_error' \in BOOLEAN /\ auth' \in BOOLEAN /\ login' \in BOOLEAN
  BY <1>3, Zenon DEF IInv, FlagsOK
<1>5. QED
  BY <1>2, <1>3, <1>4, CleanupKeeps

\* The login takes the result of its acquisition along.
LEMMA PortalAuthStep == ASSUME IInv, PortalAuth PROVE IInv'
<1>1. PICK ok \in BOOLEAN : CleanMetric(ok)
  BY DEF PortalAuth
<1>2. /\ CleanRoutes /\ auth' = FALSE /\ egress_error' = FALSE
      /\ UNCHANGED <<route_endpoint, leftover, applied, live, metric_leftover, worker,
                     egress_wanted, metric_wanted, ends>>
  BY DEF PortalAuth, wantVars
<1>3. login' \in BOOLEAN
  <2>1. login' = ~egress_error
    BY DEF PortalAuth
  <2>2. QED
    BY <2>1, Zenon
<1>4. QED
  BY <1>1, <1>2, <1>3, CleanupKeeps

\* A fresh worker deletes what earlier processes have left.
LEMMA StaleStep ==
    ASSUME IInv, CleanupStaleRoutes
    PROVE  IInv'
<1> USE DEF IInv
<1>a. /\ worker' = "running" /\ routes' \subseteq routes /\ leftover' = routes'
      /\ UNCHANGED <<added, guard_added, route_endpoint, metric, saved_if, saved_val,
                     applied_metric_ifindex, applied, metric_release_pending,
                     egress_error, auth, login, egress_wanted, metric_wanted, live,
                     metric_leftover, ends>>
  BY DEF CleanupStaleRoutes, metricVars, guardVars, wantVars
<1>b. added = {}
  BY DEF CleanupStaleRoutes, Fresh
<1>1. FlagsOK'
  BY <1>a, Zenon DEF FlagsOK
<1>2. DataOK'
  BY <1>a DEF DataOK
<1>3. RoutesTracked'
  BY <1>a DEF RoutesTracked
<1>4. MetricKept'
  BY <1>a DEF MetricKept
<1>5. ReleaseArmed'
  BY <1>a DEF ReleaseArmed
<1>6. PendingKnown'
  BY <1>a DEF PendingKnown
<1>7. Known'
  BY <1>a DEF Known
<1>8. NoneWanted'
  BY <1>a DEF NoneWanted
<1>9. Fresh'
  BY <1>a DEF Fresh
<1>10. InPlace'
  BY <1>a, <1>b DEF InPlace
<1>11. EgressComplete'
  BY <1>a DEF EgressComplete
<1>12. QED
  BY <1>1, <1>2, <1>3, <1>4, <1>5, <1>6, <1>7, <1>8, <1>9, <1>10, <1>11

\* acquire: what it deletes leaves, what it adds enters both ledgers, however
\* many of the additions fail; it counts as done only when every route of the
\* endpoint is there and no other.
LEMMA AcquireStep ==
    ASSUME IInv, NEW ep \in Endpoint, ep[2] =< live, AcquireWirelessEgress(ep)
    PROVE  IInv'
<1> USE DEF IInv
<1>a. RoutesOK /\ MetricOK
  BY DEF RoutesOK, MetricOK, MetricTypes, DataOK, Known
<1>b. /\ worker = "running" /\ auth' = TRUE /\ route_endpoint' = ep
      /\ applied' = TRUE /\ egress_wanted' = TRUE
      /\ UNCHANGED <<worker, login, metric_wanted, live, metric_leftover, ends>>
  BY DEF AcquireWirelessEgress
<1> DEFINE Acquired(kept, new, ok) ==
         /\ added' = kept \cup new
         /\ guard_added' = (guard_added \ (added \ kept)) \cup new
         /\ routes' = (routes \ (added \ kept)) \cup new
         /\ leftover' = leftover \ new
         /\ CleanMetric(ok)
         /\ egress_error' = (\/ ~ok
                             \/ \E r \in kept : ~Wanted(r, ep)
                             \/ ~(Dest \X {ep} \subseteq kept \cup new))
<1>k. PICK kept \in CleanupResults(added, IF ep = route_endpoint THEN ep
                                          ELSE NoEndpoint) :
         \E new \in SUBSET {r \in Dest \X {ep} : r \notin kept /\ IfOf(r) = live},
            ok \in BOOLEAN : Acquired(kept, new, ok)
  BY DEF AcquireWirelessEgress
<1>c. PICK new \in SUBSET {r \in Dest \X {ep} : r \notin kept /\ IfOf(r) = live},
           ok \in BOOLEAN : Acquired(kept, new, ok)
  BY <1>k
<1>d. kept \subseteq added
  BY DEF CleanupResults
<1>e. \A r \in new : r \in Route /\ IfOf(r) = live /\ Wanted(r, ep)
  BY DEF Route, Wanted
<1>f. egress_error' \in BOOLEAN
  BY <1>c, Zenon
<1>g. /\ MetricTypes' /\ saved_if' =< live
      /\ metric_release_pending' \in BOOLEAN
      /\ ~metric_leftover /\ metric' # "auto" => applied /\ saved_if' = live
      /\ ~metric_leftover /\ ~metric_wanted /\ metric' # "auto"
             => metric_release_pending'
      /\ ~metric_leftover /\ saved_if' = live => saved_val' = "auto"
  <2>1. CleanMetric(ok)
    BY <1>c
  <2>2. QED
    BY <1>a, <1>b, <2>1, CleanMetricKeeps
<1>h. ~egress_error' => /\ \A r \in kept : Wanted(r, ep)
                        /\ Dest \X {ep} \subseteq kept \cup new
  BY <1>c
<1>i. /\ added' = kept \cup new /\ guard_added' = (guard_added \ (added \ kept)) \cup new
      /\ routes' = (routes \ (added \ kept)) \cup new /\ leftover' = leftover \ new
  BY <1>c
<1>j. live \in Int
  BY DEF DataOK, Iface
<1>1. FlagsOK'
  BY <1>b, <1>f, <1>g, Zenon DEF FlagsOK
<1>2. DataOK'
  BY <1>b, <1>d, <1>e, <1>g, <1>i DEF DataOK, MetricTypes
<1>3. RoutesTracked'
  BY <1>d, <1>i DEF RoutesTracked
<1>4. MetricKept'
  BY <1>b, <1>g DEF MetricKept
<1>5. ReleaseArmed'
  BY <1>b, <1>g DEF ReleaseArmed
<1>6. PendingKnown'
  BY <1>b DEF PendingKnown
<1>7. Known'
  BY <1>b, <1>d, <1>e, <1>g, <1>i, <1>j DEF Known
<1>8. NoneWanted'
  BY <1>b DEF NoneWanted
<1>9. Fresh'
  BY <1>b DEF Fresh
<1>10. InPlace'
  BY <1>b, <1>d, <1>e, <1>i DEF InPlace
<1>11. EgressComplete'
  <2>1. ASSUME ~egress_error', NEW d \in Dest PROVE <<d, ep>> \in added'
    <3>1. <<d, ep>> \in Dest \X {ep}
      OBVIOUS
    <3>2. QED
      BY <1>h, <1>i, <2>1, <3>1
  <2>2. ASSUME ~egress_error', NEW r \in added' PROVE Wanted(r, ep)
    BY <1>e, <1>h, <1>i, <2>2
  <2>3. QED
    BY <1>b, <2>1, <2>2 DEF EgressComplete
<1>12. QED
  BY <1>1, <1>2, <1>3, <1>4, <1>5, <1>6, <1>7, <1>8, <1>9, <1>10, <1>11

\* SuppressMetric saves the original metric before it lowers it, whatever the
\* release before it has achieved.
LEMMA SuppressStep ==
    ASSUME IInv, NEW i \in Iface, SuppressMetric(i)
    PROVE  IInv'
<1> USE DEF IInv
<1>a. RoutesOK /\ MetricOK
  BY DEF RoutesOK, MetricOK, MetricTypes, DataOK, Known
<1>b. /\ i =< live /\ CleanRoutes
      /\ metric_release_pending' = FALSE /\ applied' = TRUE /\ metric_wanted' = TRUE
      /\ worker = "running"
      /\ UNCHANGED <<route_endpoint, leftover, live, metric_leftover, worker,
                     egress_error, auth, login, egress_wanted, ends>>
  BY DEF SuppressMetric, workerVars
<1>c. /\ RoutesOK' /\ added' \subseteq added
      /\ \A r \in added : Wanted(r, route_endpoint) => r \in added'
  BY <1>a, <1>b, CleanRoutesKeep
<1>d. /\ saved_if \in Iface \cup {NoIface} /\ saved_if =< live /\ live \in Iface
      /\ live # NoIface /\ NoIface =< live /\ metric \in Metric /\ saved_val \in Metric
      /\ applied_metric_ifindex \in Iface \cup {NoIface} /\ "fixed" \in Metric
      /\ "auto" \in Metric
  BY DEF DataOK, Known, Iface, NoIface, Metric
<1> DEFINE Kept == MetricTypes' /\ saved_if' =< live
           Safe == ~metric_leftover => /\ metric' # "auto" => saved_if' = live
                                       /\ saved_if' = live => saved_val' = "auto"
<1>e. Kept /\ Safe
  <2>1. CASE SuppressFrom(i, metric, saved_if, saved_val, applied_metric_ifindex)
    BY <1>b, <1>d, <2>1, SuppressKeeps DEF MetricKept
  <2>2. ASSUME saved_if \in {NoIface, live},
               SuppressFrom(i, IF saved_if = live THEN saved_val ELSE metric,
                            NoIface, saved_val, NoIface)
        PROVE  Kept /\ Safe
    <3> DEFINE met == IF saved_if = live THEN saved_val ELSE metric
    <3>1. met \in Metric /\ (~metric_leftover => met = "auto")
      BY <1>d, <2>2 DEF MetricKept
    <3>2. SuppressFrom(i, met, NoIface, saved_val, NoIface)
      BY <2>2
    <3> HIDE DEF met
    <3>3. QED
      BY <1>b, <1>d, <3>1, <3>2, SuppressKeeps
  <2>3. ASSUME NEW met \in {metric} \cup
                           IF saved_if = live /\ saved_val = "auto"
                           THEN {"fixed"} ELSE {},
               SuppressFrom(i, met, saved_if, saved_val, NoIface)
        PROVE  Kept /\ Safe
    <3>1. met \in Metric /\ (~metric_leftover => /\ met # "auto" => saved_if = live
                                                 /\ saved_if = live => saved_val = "auto")
      BY <1>d, <2>3 DEF MetricKept
    <3>2. QED
      BY <1>b, <1>d, <2>3, <3>1, SuppressKeeps
  <2>4. QED
    BY <2>1, <2>2, <2>3 DEF SuppressMetric
<1>1. FlagsOK'
  BY <1>b, <1>c, <1>e, Zenon DEF FlagsOK
<1>2. DataOK'
  BY <1>b, <1>c, <1>e DEF DataOK, RoutesOK, MetricTypes
<1>3. RoutesTracked'
  BY <1>c DEF RoutesOK
<1>4. MetricKept'
  BY <1>b, <1>c, <1>e DEF MetricKept
<1>5. ReleaseArmed'
  BY <1>b, <1>c, <1>e DEF ReleaseArmed
<1>6. PendingKnown'
  BY <1>b, <1>c, <1>e DEF PendingKnown
<1>7. Known'
  BY <1>b, <1>c, <1>e DEF Known
<1>8. NoneWanted'
  BY <1>b, <1>c, <1>e DEF NoneWanted
<1>9. Fresh'
  BY <1>b, <1>c, <1>e DEF Fresh
<1>10. InPlace'
  BY <1>c DEF RoutesOK
<1>11. EgressComplete'
  BY <1>b, <1>c DEF EgressComplete, Wanted
<1>12. QED
  BY <1>1, <1>2, <1>3, <1>4, <1>5, <1>6, <1>7, <1>8, <1>9, <1>10, <1>11

\* ReleaseMetric: a release that fails is pending.
LEMMA ReleaseStep ==
    ASSUME IInv, ReleaseMetric
    PROVE  IInv'
<1> USE DEF IInv
<1>a. RoutesOK /\ MetricOK
  BY DEF RoutesOK, MetricOK, MetricTypes, DataOK, Known
<1>b. /\ CleanRoutes /\ metric_wanted' = FALSE /\ applied' = applied
      /\ worker = "running"
      /\ UNCHANGED <<route_endpoint, leftover, live, metric_leftover, worker,
                     egress_error, auth, login, egress_wanted, ends>>
  BY DEF ReleaseMetric, workerVars
<1>c. /\ RoutesOK' /\ added' \subseteq added
      /\ \A r \in added : Wanted(r, route_endpoint) => r \in added'
  BY <1>a, <1>b, CleanRoutesKeep
<1>d. PICK ok \in BOOLEAN : ReleaseMetricCall(ok)
  BY DEF ReleaseMetric
<1>e. /\ MetricTypes' /\ saved_if' =< live
      /\ metric_release_pending' \in BOOLEAN
      /\ metric_release_pending' => applied /\ ~ok
      /\ ~metric_leftover /\ metric' # "auto" =>
             applied /\ saved_if' = live /\ metric_release_pending'
      /\ ~metric_leftover /\ saved_if' = live => saved_val' = "auto"
  BY <1>a, <1>b, <1>d, ReleaseKeeps
<1>1. FlagsOK'
  BY <1>b, <1>c, <1>e, Zenon DEF FlagsOK
<1>2. DataOK'
  BY <1>b, <1>c, <1>e DEF DataOK, RoutesOK, MetricTypes
<1>3. RoutesTracked'
  BY <1>c DEF RoutesOK
<1>4. MetricKept'
  BY <1>b, <1>c, <1>e DEF MetricKept
<1>5. ReleaseArmed'
  BY <1>b, <1>c, <1>e DEF ReleaseArmed
<1>6. PendingKnown'
  BY <1>b, <1>c, <1>e DEF PendingKnown
<1>7. Known'
  BY <1>b, <1>c, <1>e DEF Known
<1>8. NoneWanted'
  BY <1>b, <1>c, <1>e DEF NoneWanted
<1>9. Fresh'
  BY <1>b, <1>c, <1>e DEF Fresh
<1>10. InPlace'
  BY <1>c DEF RoutesOK
<1>11. EgressComplete'
  BY <1>b, <1>c DEF EgressComplete, Wanted
<1>12. QED
  BY <1>1, <1>2, <1>3, <1>4, <1>5, <1>6, <1>7, <1>8, <1>9, <1>10, <1>11

\* TeardownRoutes: a route that resists deletion stays in both ledgers, a
\* metric that resists stays pending.
LEMMA TeardownStep ==
    ASSUME IInv, TeardownRoutes
    PROVE  IInv'
<1> USE DEF IInv
<1>a. RoutesOK /\ MetricOK
  BY DEF RoutesOK, MetricOK, MetricTypes, DataOK, Known
<1>b. /\ route_endpoint' = NoEndpoint /\ egress_error' = FALSE /\ ~auth
      /\ egress_wanted' = FALSE /\ metric_wanted' = FALSE /\ worker = "running"
      /\ UNCHANGED <<leftover, worker, auth, login, live, metric_leftover, ends>>
  BY DEF TeardownRoutes
<1>c. RoutesOK' /\ added' \subseteq added
  <2>1. PICK kept \in SUBSET added : Deletes(kept) /\ routes' = routes \ (added \ kept)
    BY DEF TeardownRoutes
  <2>2. QED
    BY <1>a, <1>b, <2>1, DeletesKeep
<1>d. PICK ok \in BOOLEAN : ReleaseMetricCall(ok) /\ applied' = (applied /\ ~ok)
  BY DEF TeardownRoutes
<1>e. /\ MetricTypes' /\ saved_if' =< live
      /\ metric_release_pending' \in BOOLEAN
      /\ metric_release_pending' => applied /\ ~ok
      /\ ~metric_leftover /\ metric' # "auto" =>
             applied /\ saved_if' = live /\ metric_release_pending'
      /\ ~metric_leftover /\ saved_if' = live => saved_val' = "auto"
  BY <1>a, <1>b, <1>d, ReleaseKeeps
<1>f. metric_release_pending' => applied'
  BY <1>d, <1>e
<1>g. applied' \in BOOLEAN
  BY <1>d, Zenon
<1>1. FlagsOK'
  BY <1>b, <1>e, <1>g, Zenon DEF FlagsOK
<1>2. DataOK'
  BY <1>b, <1>c, <1>e DEF DataOK, RoutesOK, MetricTypes
<1>3. RoutesTracked'
  BY <1>c DEF RoutesOK
<1>4. MetricKept'
  BY <1>b, <1>e, <1>f DEF MetricKept
<1>5. ReleaseArmed'
  BY <1>b, <1>c, <1>e DEF ReleaseArmed
<1>6. PendingKnown'
  BY <1>f DEF PendingKnown
<1>7. Known'
  BY <1>b, <1>c, <1>e DEF Known
<1>8. NoneWanted'
  BY <1>b, <1>c, <1>e DEF NoneWanted
<1>9. Fresh'
  BY <1>b, <1>c, <1>e DEF Fresh
<1>10. InPlace'
  BY <1>c DEF RoutesOK
<1>11. EgressComplete'
  BY <1>b, <1>c, <1>e DEF EgressComplete
<1>12. QED
  BY <1>1, <1>2, <1>3, <1>4, <1>5, <1>6, <1>7, <1>8, <1>9, <1>10, <1>11

\* The worker ends or is killed: what it leaves behind is a leftover.
LEMMA DownStep ==
    ASSUME IInv, WorkerEnds \/ Killed
    PROVE  IInv'
<1> USE DEF IInv
<1>a. /\ worker' = "down" /\ ends' \in 0..MaxEnds /\ added' = {} /\ guard_added' = {}
      /\ route_endpoint' = NoEndpoint /\ saved_if' = NoIface /\ saved_val' = "auto"
      /\ applied_metric_ifindex' = NoIface /\ leftover' = routes' /\ live' = live
      /\ auth' = FALSE
  BY EgressAssumption DEF WorkerEnds, Killed, WorkerDown, EmptyLedgers, DataOK
<1>b. /\ applied' = FALSE /\ metric_release_pending' = FALSE /\ egress_error' = FALSE
      /\ auth' = FALSE /\ login' = FALSE /\ egress_wanted' = FALSE
      /\ metric_wanted' = FALSE
  BY DEF WorkerEnds, Killed, WorkerDown, EmptyLedgers
<1>c. metric_leftover' = (metric' # "auto")
  BY DEF WorkerEnds, Killed, WorkerDown
<1>d. metric_leftover' \in BOOLEAN /\ (~metric_leftover' => metric' = "auto")
  <2>1. (metric' # "auto") \in BOOLEAN
    BY Zenon
  <2>2. QED
    BY <1>c, <2>1
<1>e. routes' \subseteq routes
  BY DEF WorkerEnds, Killed
<1>f. metric' \in Metric
  BY DEF WorkerEnds, Killed, RestoredMetrics, DataOK, Metric
<1>g. live # NoIface /\ NoIface =< live
  BY DEF DataOK, Iface, NoIface
<1>1. FlagsOK'
  BY <1>b, <1>d, Zenon DEF FlagsOK
<1>2. DataOK'
  BY <1>a, <1>e, <1>f DEF DataOK, Metric
<1>3. RoutesTracked'
  BY <1>a DEF RoutesTracked
<1>4. MetricKept'
  BY <1>a, <1>d, <1>g DEF MetricKept
<1>5. ReleaseArmed'
  BY <1>d DEF ReleaseArmed
<1>6. PendingKnown'
  BY <1>b DEF PendingKnown
<1>7. Known'
  BY <1>a, <1>g DEF Known
<1>8. NoneWanted'
  BY <1>a DEF NoneWanted
<1>9. Fresh'
  BY <1>a DEF Fresh
<1>10. InPlace'
  BY <1>a DEF InPlace
<1>11. EgressComplete'
  BY <1>a DEF EgressComplete
<1>12. QED
  BY <1>1, <1>2, <1>3, <1>4, <1>5, <1>6, <1>7, <1>8, <1>9, <1>10, <1>11

\* The next process starts with nothing.
LEMMA StartStep ==
    ASSUME IInv, StartWorker \/ UNCHANGED vars
    PROVE  IInv'
<1> USE DEF IInv
<1>a. /\ UNCHANGED <<routes, added, guard_added, route_endpoint, leftover, metric,
                     saved_if, saved_val, applied_metric_ifindex, applied,
                     metric_release_pending, egress_error, auth, login, egress_wanted,
                     metric_wanted, live, metric_leftover, ends>>
  BY DEF StartWorker, vars, routeVars, metricVars, guardVars, workerVars, wantVars
<1>b. worker' = worker \/ (worker' = "starting" /\ worker = "down")
  BY DEF StartWorker, vars, workerVars
<1>1. FlagsOK'
  BY <1>a, Zenon DEF FlagsOK
<1>2. DataOK'
  BY <1>a, <1>b DEF DataOK
<1>3. RoutesTracked'
  BY <1>a DEF RoutesTracked
<1>4. MetricKept'
  BY <1>a DEF MetricKept
<1>5. ReleaseArmed'
  BY <1>a DEF ReleaseArmed
<1>6. PendingKnown'
  BY <1>a DEF PendingKnown
<1>7. Known'
  BY <1>a DEF Known
<1>8. NoneWanted'
  BY <1>a DEF NoneWanted
<1>9. Fresh'
  BY <1>a, <1>b DEF Fresh
<1>10. InPlace'
  BY <1>a DEF InPlace
<1>11. EgressComplete'
  BY <1>a DEF EgressComplete
<1>12. QED
  BY <1>1, <1>2, <1>3, <1>4, <1>5, <1>6, <1>7, <1>8, <1>9, <1>10, <1>11

\* The adapter comes back under an index nobody has seen before.
LEMMA ReplacedStep ==
    ASSUME IInv, IfaceReplaced
    PROVE  IInv'
<1> USE DEF IInv
<1>a. /\ live' = live + 1 /\ live \in Int /\ live' \in Iface
      /\ metric' = "auto" /\ metric_leftover' = FALSE
      /\ UNCHANGED <<added, guard_added, route_endpoint, saved_if, saved_val,
                     applied_metric_ifindex, applied, metric_release_pending,
                     egress_error, worker, auth, login, egress_wanted, metric_wanted,
                     ends>>
  BY EgressAssumption DEF IfaceReplaced, workerVars, wantVars, DataOK, Iface
<1>b. routes' \subseteq routes /\ leftover' = leftover \cap routes'
  BY DEF IfaceReplaced
<1>c. saved_if \in Int /\ saved_if # live'
  BY <1>a DEF DataOK, Known, Iface, NoIface
<1>d. route_endpoint # NoEndpoint => route_endpoint[2] \in Int
  BY DEF DataOK, Endpoint, Iface
<1>e. \A r \in added : IfOf(r) \in Int
  BY RouteShape DEF DataOK, Iface
<1>1. FlagsOK'
  BY <1>a, Zenon DEF FlagsOK
<1>2. DataOK'
  BY <1>a, <1>b DEF DataOK, Metric
<1>3. RoutesTracked'
  BY <1>a, <1>b DEF RoutesTracked
<1>4. MetricKept'
  BY <1>a, <1>c DEF MetricKept
<1>5. ReleaseArmed'
  BY <1>a DEF ReleaseArmed
<1>6. PendingKnown'
  BY <1>a DEF PendingKnown
<1>7. Known'
  BY <1>a, <1>c, <1>d, <1>e DEF Known
<1>8. NoneWanted'
  BY <1>a DEF NoneWanted
<1>9. Fresh'
  BY <1>a DEF Fresh
<1>10. InPlace'
  BY <1>a, <1>e DEF InPlace, Known
<1>11. EgressComplete'
  BY <1>a DEF EgressComplete
<1>12. QED
  BY <1>1, <1>2, <1>3, <1>4, <1>5, <1>6, <1>7, <1>8, <1>9, <1>10, <1>11

\* No step of the worker, of Windows or of the process leads out of the
\* invariant.
LEMMA StepInv == ASSUME IInv, [Next]_vars PROVE IInv'
BY StaleStep, AcquireStep, PortalAuthStep, RetryStep, SuppressStep, ReleaseStep,
   TeardownStep, DownStep, StartStep, ReplacedStep DEF Next

\* What the invariant says of a state.
LEMMA InvTypes == ASSUME IInv PROVE TypeOK
<1>1. guard_added \subseteq Route
  BY DEF IInv, DataOK, RoutesTracked
<1>2. FlagsOK /\ DataOK /\ PendingKnown
  BY DEF IInv
<1>3. QED
  BY <1>1, <1>2 DEF FlagsOK, DataOK, PendingKnown, TypeOK

\* A route to be withdrawn is unwanted by the endpoint, which is none.
LEMMA InvArmed == ASSUME IInv PROVE RollbackArmed
<1> USE DEF IInv
<1>1. metric # "auto" /\ ~metric_leftover => applied /\ saved_if = live /\ saved_val = "auto"
  BY DEF MetricKept
<1>2. ~metric_wanted /\ metric # "auto" /\ ~metric_leftover => metric_release_pending
  BY DEF ReleaseArmed
<1>3. ASSUME ~egress_wanted, ~(routes \subseteq leftover) PROVE HasPendingCleanup
  <2>1. PICK r \in routes : r \notin leftover
    BY <1>3
  <2>2. r \in added /\ r \in Route
    BY <2>1 DEF RoutesTracked, DataOK
  <2>3. route_endpoint = NoEndpoint /\ r[2] # NoEndpoint
    BY <1>3, <2>2, RouteShape DEF NoneWanted
  <2>4. QED
    BY <2>2, <2>3 DEF HasPendingCleanup, Wanted
<1>4. QED
  BY <1>1, <1>2, <1>3 DEF RollbackArmed

\* A login that is sent: the only step that ends an acquisition with one is
\* PortalAuth, whose cleanup finds nothing to delete.
LEMMA LoginOverEgress ==
    ASSUME IInv, [Next]_vars, auth, ~auth', login', route_endpoint[2] = live
    PROVE  /\ \A d \in Dest : <<d, route_endpoint>> \in routes'
           /\ \A r \in routes' \ leftover : r[2] = route_endpoint
<1> USE DEF IInv
<1>1. PortalAuth
  <2>1. ~CleanupStaleRoutes /\ ~RetryCleanup /\ ~RetrySucceeds /\ ~ReleaseMetric
    BY DEF CleanupStaleRoutes, RetryCleanup, RetrySucceeds, ReleaseMetric, workerVars
  <2>2. ~TeardownRoutes /\ ~StartWorker /\ ~IfaceReplaced /\ ~(UNCHANGED vars)
    BY DEF TeardownRoutes, StartWorker, IfaceReplaced, vars, workerVars
  <2>3. ~WorkerEnds /\ ~Killed
    BY DEF WorkerEnds, Killed, WorkerDown, EmptyLedgers
  <2>4. /\ \A ep \in Endpoint : ~AcquireWirelessEgress(ep)
        /\ \A i \in Iface : ~SuppressMetric(i)
    BY DEF AcquireWirelessEgress, SuppressMetric
  <2>5. QED
    BY <2>1, <2>2, <2>3, <2>4 DEF Next
<1>2. /\ CleanRoutes /\ ~egress_error
      /\ UNCHANGED <<route_endpoint, leftover, live>>
  BY <1>1 DEF PortalAuth
<1>3. /\ route_endpoint \in Endpoint
      /\ \A d \in Dest : <<d, route_endpoint>> \in added
      /\ \A r \in added : Wanted(r, route_endpoint)
  BY <1>2 DEF EgressComplete
<1>4. RoutesOK
  BY DEF RoutesOK, DataOK
<1>5. RoutesOK' /\ added' = added
  BY <1>2, <1>3, <1>4, CleanRoutesKeep
<1>6. ASSUME NEW d \in Dest PROVE <<d, route_endpoint>> \in routes'
  <2>1. <<d, route_endpoint>> \in added' /\ IfOf(<<d, route_endpoint>>) = live'
    BY <1>2, <1>3, <1>5 DEF IfOf
  <2>2. QED
    BY <1>5, <2>1 DEF RoutesOK, InPlace
<1>7. ASSUME NEW r \in routes', r \notin leftover PROVE r[2] = route_endpoint
  BY <1>2, <1>3, <1>5, <1>7 DEF RoutesOK, RoutesTracked, Wanted
<1>8. QED
  BY <1>6, <1>7

-----------------------------------------------------------------------------
(***************************************************************************)
(* The theorems about the egress                                           *)
(***************************************************************************)
\* The invariant holds throughout every behaviour.
THEOREM EgressInvariance == Spec => []IInv
<1>1. Init => IInv
  BY InitInv
<1>2. IInv /\ [Next]_vars => IInv'
  BY StepInv
<1>3. QED
  BY <1>1, <1>2, PTL DEF Spec

\* Types, and that a pending release knows what it has to undo.
THEOREM EgressTypes == Spec => []TypeOK
BY EgressInvariance, InvTypes, PTL

\* Every /32 route the service has in Windows is one that teardown, retry and
\* the Drops know of, or one an earlier process left behind.
THEOREM RoutesNeverLost == Spec => []RoutesTracked
<1>1. IInv => RoutesTracked
  BY DEF IInv
<1>2. QED
  BY <1>1, EgressInvariance, PTL

\* Whatever is to be undone and is still in place keeps the retry timer armed,
\* and an altered metric has its original value saved.
THEOREM NothingForgotten == Spec => []RollbackArmed
BY EgressInvariance, InvArmed, PTL

\* A login is sent only over the routes just acquired for it, all of them and
\* no others.
THEOREM LoginsRideTheEgress == Spec => LoginHasEgress
<1>1. IInv /\ [Next]_vars =>
        [auth /\ ~auth' /\ login' /\ route_endpoint[2] = live =>
            /\ \A d \in Dest : <<d, route_endpoint>> \in routes'
            /\ \A r \in routes' \ leftover : r[2] = route_endpoint]_vars
  BY LoginOverEgress
<1>2. QED
  BY <1>1, EgressInvariance, PTL DEF Spec, LoginHasEgress

-----------------------------------------------------------------------------
(***************************************************************************)
(* The login on top of it                                                  *)
(***************************************************************************)
\* To the egress a login and its requests are steps it knows, or none.
LEMMA LoginStepsEgress == ASSUME [LoginNext]_allVars PROVE [Next]_vars
<1>1. CASE StartLogin
  BY <1>1 DEF StartLogin, Next
<1>2. CASE LoginStep
  BY <1>2 DEF LoginStep, BillingQuery, BillingConfirm, Settle, RequestFails,
     SendResult, LoginRequest
<1>3. CASE OtherMessage
  BY <1>3, OfferedAssumption DEF OtherMessage, Next
<1>4. CASE Retry
  BY <1>4 DEF Retry, Next
<1>5. CASE ProcessEnds
  BY <1>5 DEF ProcessEnds, Next
<1>6. CASE AdapterReplaced
  BY <1>6 DEF AdapterReplaced, Next
<1>7. CASE ServerChanges
  BY <1>7 DEF ServerChanges
<1>8. CASE UNCHANGED allVars
  BY <1>8 DEF allVars
<1>9. QED
  BY <1>1, <1>2, <1>3, <1>4, <1>5, <1>6, <1>7, <1>8 DEF LoginNext

\* The composition behaves towards Windows like the egress alone: with the
\* login and the probe on top every theorem above stands.
THEOREM LoginImplementsEgress == LoginSpec => Spec
<1>1. LoginInit => Init
  BY DEF LoginInit
<1>2. [LoginNext]_allVars => [Next]_vars
  BY LoginStepsEgress
<1>3. QED
  BY <1>1, <1>2, PTL DEF LoginSpec, Spec

\* No attempt is under way at first.
LEMMA LoginStart == ASSUME LoginInit PROVE LoginInv
BY DEF LoginInit, LoginInv

\* A login attempt goes on or ends, one request after the other.
LEMMA LoginKeeps == ASSUME LoginInv, [LoginNext]_allVars PROVE LoginInv'
<1> USE DEF LoginInv
<1>1. CASE StartLogin
  <2>1. heard' = "nothing" /\ result' = "none" /\ step' \in {"query", "idle"}
    BY <1>1 DEF StartLogin
  <2>2. cycle' \in {"open", "closed"} /\ session' \in BOOLEAN
    BY <1>1 DEF StartLogin, AnyState, Aside
  <2>3. QED
    BY <2>1, <2>2
<1>2. ASSUME NEW r \in BillingReply, BillingQuery(r) PROVE LoginInv'
  <2>1. step = "query" /\ result = "none" /\ Says(r, cycle)
    BY <1>2 DEF BillingQuery
  <2>2. heard' = IF Genuine(r) THEN cycle ELSE "nothing"
    BY <1>2 DEF BillingQuery
  <2>3. CASE r.status = 200 /\ ParseBilling(r) = "Ready"
    <3>1. r.code = "1" /\ r.result = "ok"
      BY <2>3 DEF ParseBilling
    <3>2. heard' = "open"
      BY <2>1, <2>2, <2>3, <3>1 DEF Says, Genuine
    <3>3. step' = "login" /\ UNCHANGED <<result, serverVars>>
      BY <1>2, <2>3 DEF BillingQuery
    <3>4. QED
      BY <2>1, <3>2, <3>3 DEF serverVars
  <2>4. CASE r.status = 200 /\ ParseBilling(r) = "ConfirmationRequired"
    BY <1>2, <2>1, <2>4 DEF BillingQuery, serverVars
  <2>5. CASE r.status # 200 \/ ParseBilling(r) \in {"Rejected", "Malformed"}
    <3>1. Ends("failed") /\ Aside
      BY <1>2, <2>5 DEF BillingQuery
    <3>2. QED
      BY <2>2, <3>1 DEF Ends, Aside
  <2>6. QED
    BY <1>2, <2>3, <2>4, <2>5 DEF BillingQuery
<1>3. ASSUME NEW r \in BillingReply, BillingConfirm(r) PROVE LoginInv'
  <2>1. PICK c \in {cycle, "open"} :
          /\ Says(r, c) /\ heard' = IF Genuine(r) THEN c ELSE "nothing"
          /\ IF r.status = 200 /\ ParseBilling(r) = "Ready"
             THEN /\ step' = "settle" /\ cycle' = c
                  /\ UNCHANGED <<result, session>>
             ELSE Ends("failed") /\ Aside
    BY <1>3 DEF BillingConfirm
  <2>2. step = "confirm" /\ result = "none" /\ c \in {"open", "closed"}
    BY <1>3 DEF BillingConfirm
  <2>3. CASE r.status = 200 /\ ParseBilling(r) = "Ready"
    <3>1. r.code = "1" /\ r.result = "ok"
      BY <2>3 DEF ParseBilling
    <3>2. heard' = "open"
      BY <2>1, <2>2, <2>3, <3>1 DEF Says, Genuine
    <3>3. QED
      BY <2>1, <2>2, <2>3, <3>2
  <2>4. CASE ~(r.status = 200 /\ ParseBilling(r) = "Ready")
    BY <2>1, <2>2, <2>4 DEF Ends, Aside
  <2>5. QED
    BY <2>3, <2>4
<1>4. CASE Settle
  BY <1>4 DEF Settle, serverVars
<1>5. CASE RequestFails
  BY <1>5 DEF RequestFails, Ends, Aside
<1>6. CASE SendResult
  BY <1>6 DEF SendResult, Idle, serverVars
<1>7. ASSUME NEW r \in PortalReply, LoginRequest(r) PROVE LoginInv'
  <2>1. PICK after \in {session} \cup {made \in {TRUE} : cycle = "open"} :
          /\ r \in LoginReplies(session, after)
          /\ heard' = IF r.result = "absent" THEN "nothing"
                      ELSE IF after THEN "online" ELSE "offline"
    BY <1>7 DEF LoginRequest
  <2>2. Ends(IF LoginOk(r) THEN "ok" ELSE "failed") /\ Aside
    BY <1>7 DEF LoginRequest
  <2>3. session => after
    BY <2>1
  <2>4. CASE LoginOk(r)
    <3>1. r.result # "absent" /\ after
      BY <2>1, <2>3, <2>4 DEF LoginOk, LoginReplies
    <3>2. QED
      BY <2>1, <2>2, <2>4, <3>1 DEF Ends, Aside
  <2>5. CASE ~LoginOk(r)
    <3>1. r.result = "absent" \/ ~after
      BY <2>1, <2>3, <2>5 DEF LoginOk, LoginReplies
    <3>2. QED
      BY <2>1, <2>2, <2>5, <3>1 DEF Ends, Aside
  <2>6. QED
    BY <2>4, <2>5
<1>8. CASE OtherMessage \/ Retry \/ AdapterReplaced \/ UNCHANGED allVars
  BY <1>8 DEF OtherMessage, Retry, AdapterReplaced, allVars, serverVars, loginVars
<1>9. CASE ProcessEnds
  BY <1>9 DEF ProcessEnds, Idle, Aside
<1>10. CASE ServerChanges
  BY <1>10 DEF ServerChanges, AnyState, loginVars
<1>11. QED
  BY <1>1, <1>2, <1>3, <1>4, <1>5, <1>6, <1>7, <1>8, <1>9, <1>10
     DEF LoginNext, LoginStep

\* The probe's verdict, for every reply and every answer to the ping.
LEMMA ProbesTruthful == ProbeTruthful
<1> SUFFICES ASSUME NEW icmp \in BOOLEAN, NEW online \in BOOLEAN,
                    NEW reply \in HttpProbes(online)
             PROVE  /\ ProbeOnce(icmp, reply) = "Kicked" <=> (reply # NoReply /\ ~online)
                    /\ ProbeOnce(icmp, reply) = "LinkDown" <=> (reply = NoReply /\ ~icmp)
  BY DEF ProbeTruthful
<1>1. CASE reply = NoReply
  BY <1>1 DEF ProbeOnce, Combine
<1>2. CASE reply # NoReply /\ online
  <2>1. reply \in HttpReply /\ reply # [status |-> 302, location |-> "auth"]
    BY <1>2 DEF HttpProbes
  <2>2. ~(reply.status = 302 /\ reply.location = "auth")
    BY <2>1 DEF HttpReply
  <2>3. VerdictFromHttp(reply) = "Alive"
    BY <2>2 DEF VerdictFromHttp
  <2>4. QED
    BY <1>2, <2>3 DEF ProbeOnce, Combine
<1>3. CASE reply # NoReply /\ ~online
  <2>1. reply = [status |-> 302, location |-> "auth"]
    BY <1>3 DEF HttpProbes
  <2>2. VerdictFromHttp(reply) = "Kicked"
    BY <2>1 DEF VerdictFromHttp
  <2>3. QED
    BY <1>3, <2>2 DEF ProbeOnce, Combine
<1>4. QED
  BY <1>1, <1>2, <1>3

\* What the client believes is what the server said: a login goes out only in
\* a billing cycle the server called open, an attempt succeeds exactly when a
\* genuine reply stood for a session, and the probe's verdict is the network's.
THEOREM ClientBelievesServer == LoginSpec => []VerdictsTruthful
<1>1. LoginInit => LoginInv
  BY LoginStart
<1>2. LoginInv /\ [LoginNext]_allVars => LoginInv'
  BY LoginKeeps
<1>3. LoginInv => VerdictsTruthful
  BY ProbesTruthful DEF LoginInv, VerdictsTruthful
<1>4. QED
  BY <1>1, <1>2, <1>3, PTL DEF LoginSpec
=============================================================================
