---------------------------- MODULE PortalLogin ----------------------------
(***************************************************************************)
(* The wireless egress together with what the worker sends over it: the    *)
(* campus login of wireless/portal.rs (billing query, confirmation, settle *)
(* time, login) and the two-level probe of probe.rs, both on http.rs.  The *)
(* worker does nothing else meanwhile, but the adapter may be replaced and *)
(* the process may end under it.  A request may not arrive, or arrive with *)
(* its reply lost, cut or garbled.  Requests given up on may arrive later, *)
(* a login in the browser, the end of the month: the server's state may    *)
(* change at any time, so it is drawn afresh for each attempt and probe,   *)
(* and open to change during an attempt.                                   *)
(***************************************************************************)
EXTENDS WirelessEgress

CONSTANT Offered    \* the endpoints DHCP hands out: addresses of the WLAN

ASSUME OfferedAssumption == Offered \subseteq Endpoint

VARIABLES
    step,        \* where login_inner is, "idle" outside of it
    cycle,       \* server: the account's billing cycle, "open" or "closed"
    session,     \* server: the WLAN address is logged in
    heard,       \* history: what the server's last genuine reply stood for
    result       \* the PortalFinished to be sent, if any

serverVars == <<cycle, session>>
loginVars  == <<step, heard, result>>
allVars    == <<vars, serverVars, loginVars>>

LoginInit ==
    /\ Init /\ step = "idle" /\ cycle = "closed" /\ session = FALSE
    /\ heard = "nothing" /\ result = "none"

Idle == step' = "idle" /\ heard' = "nothing" /\ result' = "none"

-----------------------------------------------------------------------------
(***************************************************************************)
(* Replies and what the client reads in them.                              *)
(***************************************************************************)
BillingReply == [status : {200, 500}, code : {"absent", "0", "1"},
                 result : {"absent", "ok", "fail"}]
PortalReply  == [result : {"absent", "0", "1"}, ret_code : {"absent", "1", "2"}]

\* parse_billing_reply
ParseBilling(r) ==
    CASE r.code = "absent" -> "Malformed"
      [] r.code = "0" -> "Rejected"
      [] r.code = "1" /\ r.result = "ok" -> "Ready"
      [] r.code = "1" /\ r.result = "fail" -> "ConfirmationRequired"
      [] OTHER -> "Malformed"

\* parse_portal_reply and portal_outcome: a session that exists is a success.
LoginOk(r) == r.result = "1" \/ (r.result = "0" /\ r.ret_code = "2")

\* A reply of the billing service, as the school's pages use it, and the cycle
\* it stands for; anything else comes from a proxy or an error page.
Genuine(r) == r.status = 200 /\ r.code = "1" /\ r.result # "absent"
Says(r, c) == Genuine(r) => r.result = IF c = "open" THEN "ok" ELSE "fail"

\* The portal's reply to a login before which the session was b and after which
\* it is a: 1 for a new session, 0 with ret_code 2 for one that exists, 0 with
\* another for a refusal; or something garbled.
LoginReplies(b, a) ==
    {r \in PortalReply : \/ r.result = "absent"
                         \/ r.result = "1" /\ ~b /\ a
                         \/ r.result = "0" /\ r.ret_code = "2" /\ b
                         \/ r.result = "0" /\ r.ret_code # "2" /\ ~a}

-----------------------------------------------------------------------------
(***************************************************************************)
(* The login                                                               *)
(***************************************************************************)
\* The endpoint acquired for this login is still the adapter's.
Bound == route_endpoint # NoEndpoint /\ route_endpoint[2] = live

\* Between attempts the server's state is of no account.
Ends(outcome) == step' = "report" /\ result' = outcome
Aside == cycle' = "closed" /\ session' = FALSE
AnyState == cycle' \in {"open", "closed"} /\ session' \in BOOLEAN

\* PortalAuth: the login starts, or the failed acquisition is reported at once.
StartLogin ==
    /\ step = "idle" /\ PortalAuth
    /\ heard' = "nothing" /\ result' = "none"
    /\ IF login' THEN step' = "query" /\ AnyState
       ELSE step' = "idle" /\ Aside

\* The query: go on, confirm first, or fail (also on a status other than 200).
BillingQuery(r) ==
    /\ step = "query" /\ Bound
    /\ Says(r, cycle)
    /\ heard' = IF Genuine(r) THEN cycle ELSE "nothing"
    /\ LET status == ParseBilling(r) IN
          \/ /\ r.status = 200 /\ status = "Ready"
             /\ step' = "login" /\ UNCHANGED <<result, serverVars>>
          \/ /\ r.status = 200 /\ status = "ConfirmationRequired"
             /\ step' = "confirm" /\ UNCHANGED <<result, serverVars>>
          \/ /\ r.status # 200 \/ status \in {"Rejected", "Malformed"}
             /\ Ends("failed") /\ Aside
    /\ UNCHANGED vars

\* The confirmation opens the billing cycle; only Ready counts as an answer.
BillingConfirm(r) ==
    /\ step = "confirm" /\ Bound
    /\ \E c \in {cycle, "open"} :
          /\ Says(r, c) /\ heard' = IF Genuine(r) THEN c ELSE "nothing"
          /\ IF r.status = 200 /\ ParseBilling(r) = "Ready"
             THEN /\ step' = "settle" /\ cycle' = c
                  /\ UNCHANGED <<result, session>>
             ELSE Ends("failed") /\ Aside
    /\ UNCHANGED vars

Settle ==
    /\ step = "settle" /\ step' = "login"
    /\ UNCHANGED <<vars, serverVars, heard, result>>

\* Mutant: "already online" is not taken for a success.
LoginRequestStrict(r) ==
    /\ step = "login" /\ Bound
    /\ \E after \in {session} \cup {made \in {TRUE} : cycle = "open"} :
          /\ r \in LoginReplies(session, after)
          /\ heard' = IF r.result = "absent" THEN "nothing"
                      ELSE IF after THEN "online" ELSE "offline"
    /\ Ends(IF r.result = "1" THEN "ok" ELSE "failed") /\ Aside
    /\ UNCHANGED vars

\* The login request, which may make a session; the status code of its reply
\* is not looked at.
LoginRequest(r) ==
    /\ step = "login" /\ Bound
    /\ \E after \in {session} \cup {made \in {TRUE} : cycle = "open"} :
          /\ r \in LoginReplies(session, after)
          /\ heard' = IF r.result = "absent" THEN "nothing"
                      ELSE IF after THEN "online" ELSE "offline"
    /\ Ends(IF LoginOk(r) THEN "ok" ELSE "failed") /\ Aside
    /\ UNCHANGED vars

\* get_async fails, its 8 s or the login's 32 s are over: the client gives up.
\* The request may have been answered in vain, or be on its way still.
RequestFails ==
    /\ step \notin {"idle", "report"} /\ Ends("failed") /\ heard' = "nothing" /\ Aside
    /\ UNCHANGED vars

\* The worker's event goes to the supervisor.
SendResult == step = "report" /\ Idle /\ UNCHANGED <<vars, serverVars>>

LoginStep ==
    \/ \E r \in BillingReply : BillingQuery(r) \/ BillingConfirm(r)
    \/ Settle \/ RequestFails \/ SendResult
    \/ \E r \in PortalReply : LoginRequest(r)

-----------------------------------------------------------------------------
(***************************************************************************)
(* The probe                                                               *)
(***************************************************************************)
\* The parts of a reply the probe looks at, once the headers are complete.
HttpReply == [status : {200, 302, 307}, location : {"absent", "auth", "other"}]
NoReply   == [status |-> 0, location |-> "absent"]

\* What http_get_probe may bring back.  The campus gateway answers for an
\* address that is not logged in with a 302 to its login page; no one else
\* does.  NoReply is any failure, headers cut short by the deadline included.
HttpProbes(online) ==
    LET kick == [status |-> 302, location |-> "auth"]
    IN  {NoReply} \cup IF online THEN HttpReply \ {kick} ELSE {kick}

VerdictFromHttp(r) ==
    IF r.status = 302 /\ r.location = "auth" THEN "Kicked" ELSE "Alive"

\* combine, of a ping that is always sent
Combine(icmp, http) ==
    CASE http = "Kicked" -> "Kicked"
      [] http # "Kicked" /\ (icmp \/ http = "Alive") -> "Alive"
      [] OTHER -> "LinkDown"

\* probe_once: both levels, whatever either finds.
ProbeOnce(icmp, reply) ==
    Combine(icmp, IF reply = NoReply THEN "none" ELSE VerdictFromHttp(reply))

\* The probe, of a campus where the address is online or not.
ProbeTruthful ==
    \A icmp, online \in BOOLEAN : \A reply \in HttpProbes(online) :
        /\ ProbeOnce(icmp, reply) = "Kicked" <=> (reply # NoReply /\ ~online)
        /\ ProbeOnce(icmp, reply) = "LinkDown" <=> (reply = NoReply /\ ~icmp)

-----------------------------------------------------------------------------
(***************************************************************************)
(* Everything else                                                         *)
(***************************************************************************)
\* The worker's other messages wait for the login to end.
OtherMessage ==
    /\ step = "idle"
    /\ \/ CleanupStaleRoutes
       \/ \E ep \in Offered : ep[2] =< live /\ AcquireWirelessEgress(ep)
       \/ RetryCleanup
       \/ \E i \in Iface : SuppressMetric(i)
       \/ ReleaseMetric \/ TeardownRoutes \/ StartWorker
    /\ UNCHANGED <<serverVars, loginVars>>

Retry == step = "idle" /\ RetrySucceeds /\ UNCHANGED <<serverVars, loginVars>>

\* Stop abandons the login, a kill cuts it off.
ProcessEnds == (WorkerEnds \/ Killed) /\ Idle /\ Aside

\* The adapter is replaced, during a login or between two.
AdapterReplaced == IfaceReplaced /\ UNCHANGED <<serverVars, loginVars>>

\* Something else changes the server's state during a login.
ServerChanges ==
    /\ step \notin {"idle", "report"} /\ AnyState
    /\ UNCHANGED <<vars, loginVars>>

LoginNext == \/ StartLogin \/ LoginStep \/ OtherMessage \/ Retry
             \/ ProcessEnds \/ AdapterReplaced \/ ServerChanges

LoginSpec == LoginInit /\ [][LoginNext]_allVars

\* As in WirelessEgress.
LoginFairSpec == LoginSpec /\ WF_allVars(Retry)

-----------------------------------------------------------------------------
\* What the client believes is what the server said: the login goes out only
\* after the server itself called the billing cycle open in this attempt; an
\* attempt succeeds exactly when a genuine reply stood for a session, also one
\* that an earlier attempt with a lost reply has made; and a probe finds the
\* session kicked exactly when HTTP showed an address that is not logged in,
\* the link down exactly when neither level had an answer.
VerdictsTruthful ==
    /\ step \in {"settle", "login"} => heard = "open"
    /\ result = "ok" => heard = "online"
    /\ result = "failed" => heard # "online"
    /\ ProbeTruthful
=============================================================================
