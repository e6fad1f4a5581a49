---------------------- MODULE WirelessTakeoverProofs ----------------------
(***************************************************************************)
(* The in-flight flags of the wireless half stand for exactly the work     *)
(* under way, the brain never waits for something that is not coming, and  *)
(* a verdict from before a login never leads to another one: for all       *)
(* timing constants, retry tables and lane capacities.                     *)
(***************************************************************************)
EXTENDS WirelessTakeover, SequenceTheorems, FiniteSetTheorems, TLAPS

\* What travels on the lane, and what comes back.
Msg == {"Associate", "Disassociate", "Acquire", "PortalAuth", "WlanProbe",
        "TeardownRoutes", "Shutdown"}
Res == [type : {"AssociateFinished"}]
       \cup [type : {"PortalFinished"}, ok : BOOLEAN]
       \cup [type : {"WlanProbeFinished"}, verdict : {"Kicked", "Other"}]

\* The places at which a sequence has an entry out of V, and how many there
\* are: of a message on a lane, of a kind of result in a sequence of results.
Hits(s, V) == {i \in DOMAIN s : s[i] \in V}
Hit(e, V)  == IF e \in V THEN 1 ELSE 0
Kind(t)    == {r \in Res : r.type = t}
Queued(s, x)  == Cardinality(Hits(s, {x}))
Answers(s, t) == Cardinality(Hits(s, Kind(t)))

FlagsOK ==
    /\ brain \in BOOLEAN /\ auth_busy \in BOOLEAN /\ associate_in_flight \in BOOLEAN
    /\ auth_in_flight \in BOOLEAN /\ probe_in_flight \in BOOLEAN
    /\ stopped \in BOOLEAN /\ beat_due \in BOOLEAN /\ egress_error \in BOOLEAN
    /\ routes \in BOOLEAN /\ assoc_task \in BOOLEAN /\ wired \in BOOLEAN
    /\ steady \in BOOLEAN /\ kicked_since_login \in BOOLEAN
ClocksOK ==
    /\ unhealthy_since \in -1..TakeoverAfter
    /\ healthy_since \in -1..ReleaseAfter
    /\ last_probe_at \in -1..ProbeInterval
    /\ join_since \in -1..(JoinTimeout + 1)
    /\ auth_fail_count \in 0..Len(AuthRetryDelays)
    /\ next_auth_at = None \/ \E k \in DOMAIN AuthRetryDelays :
                                 next_auth_at \in 0..AuthRetryDelays[k]
DataOK ==
    /\ mode \in Mode /\ phase \in Phase /\ verdict \in Verdict
    /\ wlan \in WlanState /\ worker \in {"alive", "dead", "exited"}
ChannelsOK ==
    /\ lane \in Seq(Msg) /\ Len(lane) =< LaneCap
    /\ results \in Seq(Res)

\* A loop that has stopped or lost its worker has no result to look at, and
\* has lost its worker only when that one is gone.
Quiet == /\ ~Running => results = <<>>
         /\ ~brain => worker # "alive"

\* An in-flight flag stands for one message or result; when the worker is gone
\* nothing more can come than the results it has left.
Balanced(x, t, flag) ==
    /\ worker = "alive" => Queued(lane, x) + Answers(results, t) = OneIf(flag)
    /\ Answers(results, t) =< OneIf(flag)
Counts ==
    Running =>
        /\ Balanced("Associate", "AssociateFinished", associate_in_flight)
        /\ Balanced("PortalAuth", "PortalFinished", auth_in_flight)
        /\ Balanced("WlanProbe", "WlanProbeFinished", probe_in_flight)

\* While the brain is online no login is under way.
OnlineIdle == Running /\ phase = "Online" => ~auth_in_flight

\* A verdict Kicked is of after the last login, or the answer to a later login
\* is still behind it and will take it back.
Explained(s, kicked) ==
    \A i \in DOMAIN s :
        s[i].type = "WlanProbeFinished" /\ s[i].verdict = "Kicked" =>
            \/ kicked
            \/ \E j \in DOMAIN s : j > i /\ s[j].type = "PortalFinished"
KickedFresh ==
    Running =>
        /\ phase = "Online" /\ verdict = "Kicked" => kicked_since_login
        /\ Explained(results, kicked_since_login)

\* The inductive invariant.
IInv == /\ FlagsOK /\ ClocksOK /\ DataOK /\ ChannelsOK /\ Quiet /\ Counts
        /\ NothingAwaitedInVain /\ OnlineIdle /\ KickedFresh

\* What the loop keeps stays as it is.
LoopKept ==
    UNCHANGED <<mode, phase, unhealthy_since, healthy_since, last_probe_at,
                auth_busy, auth_fail_count, next_auth_at, brain, steady,
                verdict, associate_in_flight, auth_in_flight, probe_in_flight,
                join_since, stopped, beat_due, wired>>

\* What every beat does, whatever it decides.
SampleTaken ==
    /\ Running /\ beat_due' = FALSE /\ wired' \in BOOLEAN
    /\ unhealthy_since' \in -1..TakeoverAfter
    /\ healthy_since' \in -1..ReleaseAfter
    /\ UNCHANGED <<mode, brain, steady, stopped, results, worker, egress_error,
                   wlan, routes, assoc_task, kicked_since_login>>

-----------------------------------------------------------------------------
(***************************************************************************)
(* Counting                                                                *)
(***************************************************************************)
\* There are finitely many of them.
LEMMA HitsFinite ==
    ASSUME NEW S, NEW s \in Seq(S), NEW V
    PROVE  IsFiniteSet(Hits(s, V)) /\ Cardinality(Hits(s, V)) \in Nat
<1>1. IsFiniteSet(1..Len(s))
  BY FS_Interval
<1>2. Hits(s, V) \in SUBSET (1..Len(s))
  BY DEF Hits
<1>3. QED
  BY <1>1, <1>2, FS_Subset, FS_CardinalityType

\* One more entry, one more hit if it is one.
LEMMA HitsAppend ==
    ASSUME NEW S, NEW s \in Seq(S), NEW e \in S, NEW V
    PROVE  Cardinality(Hits(Append(s, e), V)) = Cardinality(Hits(s, V)) + Hit(e, V)
<1> DEFINE n == Len(s) + 1
<1>1. /\ DOMAIN Append(s, e) = (DOMAIN s) \cup {n} /\ n \notin DOMAIN s
      /\ Append(s, e)[n] = e /\ \A i \in DOMAIN s : Append(s, e)[i] = s[i]
  OBVIOUS
<1>2. IsFiniteSet(Hits(s, V)) /\ n \notin Hits(s, V)
  BY <1>1, HitsFinite DEF Hits
<1> HIDE DEF n
<1>3. CASE e \in V
  <2>1. Hits(Append(s, e), V) = Hits(s, V) \cup {n}
    BY <1>1, <1>3 DEF Hits
  <2>2. QED
    BY <1>2, <1>3, <2>1, FS_AddElement DEF Hit
<1>4. CASE e \notin V
  <2>1. Hits(Append(s, e), V) = Hits(s, V)
    BY <1>1, <1>4 DEF Hits
  <2>2. QED
    BY <1>4, <2>1, HitsFinite DEF Hit
<1>5. QED
  BY <1>3, <1>4

\* The first entry is taken off.
LEMMA HitsTail ==
    ASSUME NEW S, NEW s \in Seq(S), s # <<>>, NEW V
    PROVE  Cardinality(Hits(Tail(s), V)) = Cardinality(Hits(s, V)) - Hit(Head(s), V)
<1> DEFINE A == Hits(Tail(s), V)
           B == Hits(s, V) \ {1}
           f == [i \in A |-> i + 1]
<1>1. /\ Head(s) = s[1] /\ 1 \in DOMAIN s
      /\ \A i \in DOMAIN Tail(s) : /\ i \in Nat \ {0} /\ i + 1 \in DOMAIN s
                                   /\ Tail(s)[i] = s[i + 1]
      /\ \A i \in DOMAIN s : i # 1 => /\ i \in Nat /\ i - 1 \in DOMAIN Tail(s)
                                      /\ Tail(s)[i - 1] = s[i]
  OBVIOUS
<1>2. f \in Bijection(A, B)
  <2>1. f \in [A -> B]
    BY <1>1 DEF Hits
  <2>2. \A i, j \in A : f[i] = f[j] => i = j
    BY <1>1 DEF Hits
  <2>3. \A b \in B : \E i \in A : f[i] = b
    <3> SUFFICES ASSUME NEW b \in B
                 PROVE  \E i \in A : f[i] = b
      OBVIOUS
    <3>1. b - 1 \in A /\ f[b - 1] = b
      BY <1>1 DEF Hits
    <3>2. QED
      BY <3>1
  <2>4. QED
    BY <2>1, <2>2, <2>3 DEF Bijection, Injection, Surjection, IsInjective
<1>3. IsFiniteSet(A) /\ IsFiniteSet(Hits(s, V)) /\ Cardinality(Hits(s, V)) \in Nat
  <2>1. Tail(s) \in Seq(S)
    OBVIOUS
  <2>2. QED
    BY <2>1, HitsFinite
<1>4. Cardinality(B) = Cardinality(A)
  BY <1>2, <1>3, FS_Bijection DEF ExistsBijection
<1>5. Cardinality(B) = Cardinality(Hits(s, V)) - Hit(Head(s), V)
  <2>1. 1 \in Hits(s, V) <=> Head(s) \in V
    BY <1>1 DEF Hits
  <2>2. Cardinality(B) = IF 1 \in Hits(s, V) THEN Cardinality(Hits(s, V)) - 1
                         ELSE Cardinality(Hits(s, V))
    BY <1>3, FS_RemoveElement
  <2>3. QED
    BY <1>3, <2>1, <2>2 DEF Hit
<1>6. QED
  BY <1>4, <1>5

\* The same for messages on the lane ...
LEMMA QueuedFacts ==
    ASSUME NEW s \in Seq(Msg), NEW x
    PROVE  /\ Queued(s, x) \in Nat
           /\ \A e \in Msg : Queued(Append(s, e), x)
                                = Queued(s, x) + (IF e = x THEN 1 ELSE 0)
           /\ s # <<>> => Queued(Tail(s), x)
                                = Queued(s, x) - (IF Head(s) = x THEN 1 ELSE 0)
<1>1. \A e : Hit(e, {x}) = IF e = x THEN 1 ELSE 0
  BY DEF Hit
<1>2. Queued(s, x) \in Nat
  BY HitsFinite DEF Queued
<1>3. ASSUME NEW e \in Msg
      PROVE  Queued(Append(s, e), x) = Queued(s, x) + (IF e = x THEN 1 ELSE 0)
  <2>1. Queued(Append(s, e), x) = Queued(s, x) + Hit(e, {x})
    BY HitsAppend DEF Queued
  <2>2. QED
    BY <1>1, <2>1
<1>4. ASSUME s # <<>>
      PROVE  Queued(Tail(s), x) = Queued(s, x) - (IF Head(s) = x THEN 1 ELSE 0)
  <2>1. Queued(Tail(s), x) = Queued(s, x) - Hit(Head(s), {x})
    BY <1>4, HitsTail DEF Queued
  <2>2. QED
    BY <1>1, <2>1
<1>5. QED
  BY <1>2, <1>3, <1>4

\* ... and for results.
LEMMA AnswersFacts ==
    ASSUME NEW s \in Seq(Res), NEW t
    PROVE  /\ Answers(s, t) \in Nat
           /\ \A e \in Res : Answers(Append(s, e), t)
                                = Answers(s, t) + (IF e.type = t THEN 1 ELSE 0)
           /\ s # <<>> => Answers(Tail(s), t)
                                = Answers(s, t) - (IF Head(s).type = t THEN 1 ELSE 0)
<1>1. \A e \in Res : Hit(e, Kind(t)) = IF e.type = t THEN 1 ELSE 0
  BY DEF Hit, Kind
<1>2. s # <<>> => Head(s) \in Res
  OBVIOUS
<1>3. QED
  BY <1>1, <1>2, HitsFinite, HitsAppend, HitsTail DEF Answers

\* Nothing is counted in an empty sequence, and nothing is there where nothing
\* is counted.
LEMMA NoAnswers ==
    ASSUME NEW s \in Seq(Res), NEW t
    PROVE  /\ Answers(<<>>, t) = 0
           /\ Answers(s, t) = 0 => \A i \in DOMAIN s : s[i].type # t
<1>1. Hits(<<>>, Kind(t)) = {}
  BY DEF Hits
<1>2. ASSUME Answers(s, t) = 0, NEW i \in DOMAIN s
      PROVE  s[i].type # t
  <2>1. Hits(s, Kind(t)) = {}
    BY <1>2, HitsFinite, FS_EmptySet DEF Answers
  <2>2. s[i] \in Res
    BY <1>2
  <2>3. QED
    BY <1>2, <2>1, <2>2 DEF Hits, Kind
<1>3. QED
  BY <1>1, <1>2, FS_EmptySet DEF Answers

\* The same for the lane.
LEMMA NothingQueued ==
    ASSUME NEW x
    PROVE  Queued(<<>>, x) = 0
<1>1. Hits(<<>>, {x}) = {}
  BY DEF Hits
<1>2. QED
  BY <1>1, FS_EmptySet DEF Queued

\* The kinds of results.
LEMMA Kinds ==
    ASSUME NEW r \in Res
    PROVE  /\ r.type \in {"AssociateFinished", "PortalFinished", "WlanProbeFinished"}
           /\ r.type = "WlanProbeFinished" => r.verdict \in {"Kicked", "Other"}
BY DEF Res

\* Effects are put on the lane: none ...
LEMMA Sent0 ==
    ASSUME ChannelsOK, Send(<<>>)
    PROVE  lane' = lane
<1>1. lane \o <<>> = lane
  BY ConcatEmptySeq DEF ChannelsOK
<1>2. QED
  BY <1>1 DEF Send

\* ... one ...
LEMMA Sent1 ==
    ASSUME ChannelsOK, NEW m \in Msg, Send(<<m>>)
    PROVE  /\ lane' \in Seq(Msg) /\ Len(lane') =< LaneCap
           /\ worker # "alive" => lane' = lane
           /\ worker = "alive" => lane' = Append(lane, m)
<1>1. lane \in Seq(Msg) /\ lane \o <<m>> = Append(lane, m) /\ Len(<<m>>) = 1
  BY AppendIsConcat DEF ChannelsOK
<1>2. Append(lane, m) \in Seq(Msg) /\ Len(Append(lane, m)) = Len(lane) + 1
  BY <1>1
<1>3. QED
  BY <1>1, <1>2 DEF Send, ChannelsOK

\* ... or two.
LEMMA Sent2 ==
    ASSUME ChannelsOK, NEW m \in Msg, NEW n \in Msg, Send(<<m, n>>)
    PROVE  /\ lane' \in Seq(Msg) /\ Len(lane') =< LaneCap
           /\ worker # "alive" => lane' = lane
           /\ worker = "alive" => lane' = Append(Append(lane, m), n)
<1> DEFINE a == lane \o <<m, n>>
           b == Append(Append(lane, m), n)
<1>1. lane \in Seq(Msg) /\ <<m, n>> \in Seq(Msg) /\ Len(<<m, n>>) = 2
  BY DEF ChannelsOK
<1>2. /\ a \in Seq(Msg) /\ Len(a) = Len(lane) + 2
      /\ \A i \in 1..Len(lane) : a[i] = lane[i]
      /\ a[Len(lane) + 1] = m /\ a[Len(lane) + 2] = n
  BY <1>1
<1>3. Append(lane, m) \in Seq(Msg) /\ Len(Append(lane, m)) = Len(lane) + 1
  BY <1>1
<1>4. /\ b \in Seq(Msg) /\ Len(b) = Len(lane) + 2
      /\ \A i \in 1..Len(lane) : b[i] = lane[i]
      /\ b[Len(lane) + 1] = m /\ b[Len(lane) + 2] = n
  BY <1>1, <1>3
<1>5. a = b
  <2> HIDE DEF a, b
  <2>1. \A i \in 1..Len(a) : a[i] = b[i]
    BY <1>1, <1>2, <1>4
  <2>2. QED
    BY <1>2, <1>4, <2>1, SeqEqual
<1>6. QED
  BY <1>1, <1>2, <1>5 DEF Send, ChannelsOK

\* What is on the lane after one effect, perhaps, was put there.
LEMMA SentPerhaps ==
    ASSUME ChannelsOK, NEW m \in Msg, NEW b \in BOOLEAN,
           Send(IF b THEN <<>> ELSE <<m>>)
    PROVE  /\ lane' \in Seq(Msg) /\ Len(lane') =< LaneCap
           /\ \A x : Queued(lane', x) = Queued(lane, x)
                        + (IF worker = "alive" /\ ~b /\ m = x THEN 1 ELSE 0)
<1>1. lane \in Seq(Msg) /\ Len(lane) =< LaneCap /\ \A x : Queued(lane, x) \in Nat
  BY QueuedFacts DEF ChannelsOK
<1>2. CASE b
  <2>1. lane' = lane
    BY <1>2, Sent0
  <2>2. QED
    BY <1>1, <1>2, <2>1
<1>3. CASE ~b
  <2>1. Send(<<m>>)
    BY <1>3
  <2>2. /\ lane' \in Seq(Msg) /\ Len(lane') =< LaneCap
        /\ worker # "alive" => lane' = lane
        /\ worker = "alive" => lane' = Append(lane, m)
    BY <2>1, Sent1
  <2>3. \A x : Queued(Append(lane, m), x)
              = Queued(lane, x) + (IF m = x THEN 1 ELSE 0)
    BY <1>1, QueuedFacts
  <2>4. ASSUME NEW x
        PROVE  Queued(lane', x) = Queued(lane, x)
                  + (IF worker = "alive" /\ ~b /\ m = x THEN 1 ELSE 0)
    <3>1. CASE worker = "alive"
      BY <1>3, <2>2, <2>3, <3>1
    <3>2. CASE worker # "alive"
      BY <1>1, <2>2, <3>2
    <3>3. QED
      BY <3>1, <3>2
  <2>5. QED
    BY <2>2, <2>4
<1>4. QED
  BY <1>2, <1>3

\* The same for two.
LEMMA SentBoth ==
    ASSUME ChannelsOK, NEW m \in Msg, NEW n \in Msg, Send(<<m, n>>)
    PROVE  /\ lane' \in Seq(Msg) /\ Len(lane') =< LaneCap
           /\ \A x : Queued(lane', x) = Queued(lane, x)
                        + (IF worker = "alive" /\ m = x THEN 1 ELSE 0)
                        + (IF worker = "alive" /\ n = x THEN 1 ELSE 0)
<1>1. lane \in Seq(Msg) /\ \A x : Queued(lane, x) \in Nat
  BY QueuedFacts DEF ChannelsOK
<1>2. /\ lane' \in Seq(Msg) /\ Len(lane') =< LaneCap
      /\ worker # "alive" => lane' = lane
      /\ worker = "alive" => lane' = Append(Append(lane, m), n)
  BY Sent2
<1>3. Append(lane, m) \in Seq(Msg)
  BY <1>1
<1>4. \A x : Queued(Append(lane, m), x) = Queued(lane, x) + (IF m = x THEN 1 ELSE 0)
  BY <1>1, QueuedFacts
<1>5. \A x : Queued(Append(Append(lane, m), n), x)
                = Queued(Append(lane, m), x) + (IF n = x THEN 1 ELSE 0)
  BY <1>3, QueuedFacts
<1>6. ASSUME NEW x
      PROVE  Queued(lane', x) = Queued(lane, x)
                + (IF worker = "alive" /\ m = x THEN 1 ELSE 0)
                + (IF worker = "alive" /\ n = x THEN 1 ELSE 0)
  <2>1. CASE worker = "alive"
    BY <1>2, <1>4, <1>5, <2>1
  <2>2. CASE worker # "alive"
    BY <1>1, <1>2, <2>2
  <2>3. QED
    BY <2>1, <2>2
<1>7. QED
  BY <1>2, <1>6

\* The worker takes a message off the lane.
LEMMA Executed ==
    ASSUME ChannelsOK, NEW t, Do(t)
    PROVE  /\ lane' \in Seq(Msg) /\ Len(lane') =< LaneCap
           /\ \A x : /\ Queued(lane', x) \in Nat
                     /\ Queued(lane', x) = Queued(lane, x) - (IF t = x THEN 1 ELSE 0)
<1>1. /\ lane \in Seq(Msg) /\ Len(lane) =< LaneCap /\ lane # <<>>
      /\ Head(lane) = t /\ lane' = Tail(lane)
  BY DEF ChannelsOK, Do
<1>2. lane' \in Seq(Msg) /\ Len(lane') = Len(lane) - 1
  BY <1>1
<1>3. Len(lane) \in Nat /\ Len(lane') =< LaneCap
  BY <1>1, <1>2, TakeoverAssumption
<1>4. \A x : Queued(lane', x) = Queued(lane, x) - (IF t = x THEN 1 ELSE 0)
  BY <1>1, QueuedFacts
<1>5. \A x : Queued(lane', x) \in Nat
  BY <1>2, QueuedFacts
<1>6. QED
  BY <1>2, <1>3, <1>4, <1>5

\* It reports, unless the service has stopped.
LEMMA Reported ==
    ASSUME ChannelsOK, NEW r \in Res, Report(r)
    PROVE  /\ results' \in Seq(Res)
           /\ stopped => results' = results
           /\ ~stopped => /\ results' = Append(results, r)
                          /\ \A t : Answers(results', t) = Answers(results, t)
                                       + (IF r.type = t THEN 1 ELSE 0)
<1>1. results \in Seq(Res) /\ Append(results, r) \in Seq(Res)
  BY DEF ChannelsOK
<1>2. \A t : Answers(Append(results, r), t)
                = Answers(results, t) + (IF r.type = t THEN 1 ELSE 0)
  BY <1>1, AnswersFacts
<1>3. QED
  BY <1>1, <1>2 DEF Report

\* The loop takes a result.
LEMMA Taken ==
    ASSUME ChannelsOK, NEW type, Take(type)
    PROVE  /\ results \in Seq(Res) /\ results # <<>> /\ Head(results) \in Res
           /\ Head(results).type = type /\ results' = Tail(results)
           /\ results' \in Seq(Res)
           /\ \A t : /\ Answers(results', t) \in Nat
                     /\ Answers(results', t)
                           = Answers(results, t) - (IF type = t THEN 1 ELSE 0)
<1>1. /\ results \in Seq(Res) /\ results # <<>> /\ Head(results).type = type
      /\ results' = Tail(results)
  BY DEF ChannelsOK, Take
<1>2. results' \in Seq(Res) /\ Head(results) \in Res
  BY <1>1
<1>3. \A t : Answers(results', t) = Answers(results, t) - (IF type = t THEN 1 ELSE 0)
  BY <1>1, AnswersFacts
<1>4. \A t : Answers(results', t) \in Nat
  BY <1>2, AnswersFacts
<1>5. QED
  BY <1>1, <1>2, <1>3, <1>4

\* Verdicts stay explained when a result is added, by what is known of it ...
LEMMA ExplainedAppend ==
    ASSUME NEW s \in Seq(Res), NEW r \in Res, NEW k \in BOOLEAN, NEW m \in BOOLEAN,
           Explained(s, k),
           (k => m) \/ r.type = "PortalFinished",
           r.type = "WlanProbeFinished" /\ r.verdict = "Kicked" => m
    PROVE  Explained(Append(s, r), m)
<1> DEFINE u == Append(s, r)
<1>1. /\ DOMAIN u = 1..(Len(s) + 1) /\ Len(s) \in Nat /\ DOMAIN s = 1..Len(s)
      /\ u[Len(s) + 1] = r /\ \A i \in 1..Len(s) : u[i] = s[i]
  OBVIOUS
<1> HIDE DEF u
<1>2. SUFFICES ASSUME NEW i \in DOMAIN u, u[i].type = "WlanProbeFinished",
                      u[i].verdict = "Kicked", ~m
               PROVE  \E j \in DOMAIN u : j > i /\ u[j].type = "PortalFinished"
  BY DEF Explained, u
<1>3. i \in DOMAIN s /\ u[i] = s[i]
  BY <1>1, <1>2
<1>4. CASE r.type = "PortalFinished"
  <2>1. Len(s) + 1 \in DOMAIN u /\ Len(s) + 1 > i
    BY <1>1, <1>3
  <2>2. QED
    BY <1>1, <1>4, <2>1
<1>5. CASE ~k
  <2>1. PICK j \in DOMAIN s : j > i /\ s[j].type = "PortalFinished"
    BY <1>2, <1>3, <1>5 DEF Explained
  <2>2. j \in DOMAIN u /\ u[j] = s[j]
    BY <1>1, <2>1
  <2>3. QED
    BY <2>1, <2>2
<1>6. QED
  BY <1>2, <1>4, <1>5

\* ... and when the first one is taken off.
LEMMA ExplainedTail ==
    ASSUME NEW s \in Seq(Res), s # <<>>, NEW k \in BOOLEAN, Explained(s, k)
    PROVE  Explained(Tail(s), k)
<1> DEFINE u == Tail(s)
<1>1. /\ Len(s) \in Nat /\ Len(s) > 0 /\ DOMAIN s = 1..Len(s)
      /\ DOMAIN u = 1..(Len(s) - 1) /\ \A i \in 1..(Len(s) - 1) : u[i] = s[i + 1]
  OBVIOUS
<1> HIDE DEF u
<1>2. SUFFICES ASSUME NEW i \in DOMAIN u, u[i].type = "WlanProbeFinished",
                      u[i].verdict = "Kicked", ~k
               PROVE  \E j \in DOMAIN u : j > i /\ u[j].type = "PortalFinished"
  BY DEF Explained, u
<1>3. i + 1 \in DOMAIN s /\ u[i] = s[i + 1]
  BY <1>1
<1>4. PICK j \in DOMAIN s : j > i + 1 /\ s[j].type = "PortalFinished"
  BY <1>2, <1>3 DEF Explained
<1>5. j - 1 \in DOMAIN u /\ u[j - 1] = s[j] /\ j - 1 > i
  BY <1>1, <1>3, <1>4
<1>6. QED
  BY <1>4, <1>5

\* A failed login waits for a delay of the table.
LEMMA RetryIsInTable ==
    ASSUME ClocksOK, AuthFailed
    PROVE  /\ auth_fail_count' \in 0..Len(AuthRetryDelays)
           /\ \E k \in DOMAIN AuthRetryDelays : next_auth_at' \in 0..AuthRetryDelays[k]
<1> DEFINE n == IF auth_fail_count < Len(AuthRetryDelays) THEN auth_fail_count + 1
                ELSE auth_fail_count
<1>1. /\ AuthRetryDelays \in Seq(Nat) /\ Len(AuthRetryDelays) \in Nat
      /\ Len(AuthRetryDelays) > 0
      /\ DOMAIN AuthRetryDelays = 1..Len(AuthRetryDelays)
  BY TakeoverAssumption
<1>2. auth_fail_count \in 0..Len(AuthRetryDelays)
  BY DEF ClocksOK
<1>3. n \in 1..Len(AuthRetryDelays)
  BY <1>1, <1>2
<1>4. auth_fail_count' = n /\ next_auth_at' = AuthRetryDelays[n]
  BY DEF AuthFailed
<1> HIDE DEF n
<1>5. AuthRetryDelays[n] \in Nat
  BY <1>1, <1>3
<1>6. next_auth_at' \in 0..AuthRetryDelays[n]
  BY <1>4, <1>5
<1>7. QED
  BY <1>1, <1>3, <1>4, <1>6

-----------------------------------------------------------------------------
(***************************************************************************)
(* The steps                                                               *)
(***************************************************************************)
\* The initial states are among the invariant's.
LEMMA InitInv == ASSUME Init PROVE IInv
<1>1. FlagsOK
  BY Zenon DEF Init, FlagsOK
<1>2. ClocksOK
  BY TakeoverAssumption DEF Init, ClocksOK, None
<1>3. DataOK
  BY DEF Init, DataOK, Phase, Verdict, WlanState
<1>4. ChannelsOK
  BY TakeoverAssumption DEF Init, ChannelsOK
<1>5. Quiet
  BY DEF Init, Quiet
<1>6. Counts
  <2>1. lane = <<>> /\ results = <<>> /\ <<>> \in Seq(Res)
    BY DEF Init
  <2>2. \A x, t : Queued(lane, x) = 0 /\ Answers(results, t) = 0
    BY <2>1, NoAnswers, NothingQueued
  <2>3. /\ OneIf(associate_in_flight) = 0 /\ OneIf(auth_in_flight) = 0
        /\ OneIf(probe_in_flight) = 0
    BY DEF Init, OneIf
  <2>4. QED
    BY <2>2, <2>3 DEF Counts, Balanced
<1>7. NothingAwaitedInVain /\ OnlineIdle
  BY DEF Init, NothingAwaitedInVain, OnlineIdle
<1>8. KickedFresh
  BY DEF Init, KickedFresh, Explained
<1>9. QED
  BY <1>1, <1>2, <1>3, <1>4, <1>5, <1>6, <1>7, <1>8 DEF IInv

\* The WLAN changes, a forgotten association call ends, the mode is switched,
\* or nothing happens at all: what the loop and the worker keep stays as it is.
LEMMA QuietStep ==
    ASSUME IInv,
           LateAssociation \/ WlanComesUp \/ WlanDrops \/ SetMode \/ UNCHANGED vars
    PROVE  IInv'
<1> USE DEF IInv, brainVars, flagVars, coreVars, workerVars, osVars, vars
<1>a. /\ UNCHANGED <<phase, unhealthy_since, healthy_since, last_probe_at, auth_busy,
                     auth_fail_count, next_auth_at, brain, steady, verdict, flagVars,
                     join_since, stopped, beat_due, lane, results, workerVars, routes,
                     wired, kicked_since_login>>
      /\ mode' \in Mode /\ wlan' \in WlanState
  BY DEF LateAssociation, WlanComesUp, WlanDrops, SetMode, World, DataOK, WlanState
<1>b. assoc_task' \in BOOLEAN
  BY Zenon DEF LateAssociation, WlanComesUp, WlanDrops, SetMode, World, FlagsOK
<1>1. FlagsOK'
  BY <1>a, <1>b, Zenon DEF FlagsOK
<1>2. ClocksOK'
  BY <1>a DEF ClocksOK
<1>3. DataOK'
  BY <1>a DEF DataOK
<1>4. ChannelsOK'
  BY <1>a DEF ChannelsOK
<1>5. Quiet'
  BY <1>a DEF Quiet, Running
<1>6. Counts'
  BY <1>a DEF Counts, Balanced, Running
<1>7. NothingAwaitedInVain'
  BY <1>a DEF NothingAwaitedInVain, Running
<1>8. OnlineIdle'
  BY <1>a DEF OnlineIdle, Running
<1>9. KickedFresh'
  BY <1>a DEF KickedFresh, Running
<1>10. QED
  BY <1>1, <1>2, <1>3, <1>4, <1>5, <1>6, <1>7, <1>8, <1>9

\* Time passes.
LEMMA BeatStep == ASSUME IInv, Beat PROVE IInv'
<1> USE DEF IInv, Beat, brainVars, flagVars, coreVars, workerVars, osVars, vars
<1>1. FlagsOK'
  BY Zenon DEF FlagsOK
<1>2. ClocksOK'
  <2>1. PICK d \in Elapsed :
              /\ unhealthy_since' = Older(unhealthy_since, d, TakeoverAfter)
              /\ healthy_since' = Older(healthy_since, d, ReleaseAfter)
              /\ last_probe_at' = Older(last_probe_at, d, ProbeInterval)
              /\ next_auth_at' = Left(next_auth_at, d)
              /\ join_since' = Older(join_since, d, JoinTimeout + 1)
    OBVIOUS
  <2>2. /\ d \in Nat /\ TakeoverAfter \in Nat /\ ReleaseAfter \in Nat
        /\ ProbeInterval \in Nat /\ JoinTimeout + 1 \in Nat
    BY TakeoverAssumption
  <2>3. ASSUME NEW m \in Nat, NEW c \in -1..m
        PROVE  Older(c, d, m) \in -1..m
    BY <2>2, <2>3 DEF Older, None
  <2>4. /\ unhealthy_since' \in -1..TakeoverAfter
        /\ healthy_since' \in -1..ReleaseAfter
        /\ last_probe_at' \in -1..ProbeInterval
        /\ join_since' \in -1..(JoinTimeout + 1)
    BY <2>1, <2>2, <2>3 DEF ClocksOK
  <2>5. next_auth_at' = None \/ \E k \in DOMAIN AuthRetryDelays :
                                   next_auth_at' \in 0..AuthRetryDelays[k]
    <3>1. CASE next_auth_at = None
      BY <2>1, <3>1 DEF Left
    <3>2. CASE next_auth_at # None
      <4>1. PICK k \in DOMAIN AuthRetryDelays : next_auth_at \in 0..AuthRetryDelays[k]
        BY <3>2 DEF ClocksOK
      <4>2. AuthRetryDelays[k] \in Nat
        BY TakeoverAssumption
      <4>3. next_auth_at' \in 0..AuthRetryDelays[k]
        BY <2>1, <2>2, <3>2, <4>1, <4>2 DEF Left
      <4>4. QED
        BY <4>3
    <3>3. QED
      BY <3>1, <3>2
  <2>6. QED
    BY <2>4, <2>5 DEF ClocksOK
<1>3. DataOK'
  BY DEF DataOK
<1>4. ChannelsOK'
  BY DEF ChannelsOK
<1>5. Quiet'
  BY DEF Quiet, Running
<1>6. Counts'
  BY DEF Counts, Balanced, Running
<1>7. NothingAwaitedInVain'
  <2>1. join_since # None => join_since' # None
    <3>1. PICK d \in Elapsed : join_since' = Older(join_since, d, JoinTimeout + 1)
      OBVIOUS
    <3>2. d \in Nat /\ JoinTimeout \in Nat
      BY TakeoverAssumption
    <3>3. QED
      BY <3>1, <3>2 DEF Older, None, ClocksOK
  <2>2. QED
    BY <2>1 DEF NothingAwaitedInVain, Running
<1>8. OnlineIdle'
  BY DEF OnlineIdle, Running
<1>9. KickedFresh'
  BY DEF KickedFresh, Running
<1>10. QED
  BY <1>1, <1>2, <1>3, <1>4, <1>5, <1>6, <1>7, <1>8, <1>9

\* What a beat can decide: six outcomes, with what is known where they are
\* chosen.
LEMMA Outcomes ==
    ASSUME IInv, OnWirelessSampled
    PROVE  /\ SampleTaken
           /\ \/ StartJoin
              \/ GoOn
              \/ BeginAuth /\ (phase = "Online" => verdict = "Kicked")
              \/ /\ phase = "Joining" /\ JoinOrTimeOut
                 /\ UNCHANGED <<associate_in_flight, lane>>
              \/ ProbeNow /\ phase = "Online"
              \/ Release
<1>1. /\ brain /\ ~stopped /\ beat_due' = FALSE /\ wired' \in BOOLEAN
      /\ Standby \/ ExclusiveHealthy \/ ExclusiveOutage
      /\ UNCHANGED <<mode, brain, steady, stopped, results, worker, egress_error,
                     wlan, routes, assoc_task, kicked_since_login>>
  BY DEF OnWirelessSampled, workerVars, osVars
<1> DEFINE O == \/ StartJoin
                \/ GoOn
                \/ BeginAuth /\ (phase = "Online" => verdict = "Kicked")
                \/ /\ phase = "Joining" /\ JoinOrTimeOut
                   /\ UNCHANGED <<associate_in_flight, lane>>
                \/ ProbeNow /\ phase = "Online"
                \/ Release
<1>2. KeepWireless => O
  BY DEF KeepWireless
<1>3. O
  <2>1. CASE Standby
    BY <1>2, <2>1 DEF Standby
  <2>2. CASE ExclusiveHealthy
    BY <2>2 DEF ExclusiveHealthy
  <2>3. CASE ExclusiveOutage
    BY <1>2, <2>3 DEF ExclusiveOutage
  <2>4. QED
    BY <1>1, <2>1, <2>2, <2>3
<1>4. /\ unhealthy_since' \in -1..TakeoverAfter
      /\ healthy_since' \in -1..ReleaseAfter
  <2>1. CASE Standby
    BY <2>1 DEF Standby, IInv, ClocksOK
  <2>2. CASE ExclusiveHealthy
    BY <2>2, TakeoverAssumption
       DEF ExclusiveHealthy, IInv, ClocksOK, SinceOrNow, None
  <2>3. CASE ExclusiveOutage
    BY <2>3, TakeoverAssumption
       DEF ExclusiveOutage, IInv, ClocksOK, SinceOrNow, None
  <2>4. QED
    BY <1>1, <2>1, <2>2, <2>3
<1>5. QED
  BY <1>1, <1>3, <1>4 DEF SampleTaken, Running

\* The brain goes on as it is.
LEMMA GoOnStep == ASSUME IInv, SampleTaken, GoOn PROVE IInv'
<1> USE DEF IInv, SampleTaken, brainVars, flagVars, coreVars, workerVars,
        osVars, vars, GoOn
<1>1. FlagsOK'
  BY Zenon DEF FlagsOK
<1>2. ClocksOK'
  BY DEF ClocksOK
<1>3. DataOK'
  BY DEF DataOK
<1>4. ChannelsOK'
  BY DEF ChannelsOK
<1>5. Quiet'
  BY DEF Quiet, Running
<1>6. Counts'
  BY DEF Counts, Balanced, Running
<1>7. NothingAwaitedInVain'
  BY DEF NothingAwaitedInVain, Running
<1>8. OnlineIdle'
  BY DEF OnlineIdle, Running
<1>9. KickedFresh'
  BY DEF KickedFresh, Running
<1>10. QED
  BY <1>1, <1>2, <1>3, <1>4, <1>5, <1>6, <1>7, <1>8, <1>9

\* An association is asked for, unless one is under way.
LEMMA StartJoinStep == ASSUME IInv, SampleTaken, StartJoin PROVE IInv'
<1> USE DEF IInv, SampleTaken, brainVars, flagVars, coreVars, workerVars,
        osVars, vars
<1>j. /\ auth_busy' = FALSE /\ next_auth_at' = None
      /\ phase' \in {"Off", "Joining"}
      /\ phase' = "Joining" => join_since' = join_since
      /\ last_probe_at' \in {None, last_probe_at} /\ join_since' \in {None, join_since}
      /\ UNCHANGED <<auth_fail_count, verdict, auth_in_flight, probe_in_flight>>
  BY DEF StartJoin, JoinOrTimeOut
<1>n. \A x, t : Queued(lane, x) \in Nat /\ Answers(results, t) \in Nat
  BY QueuedFacts, AnswersFacts DEF ChannelsOK
<1>s. /\ lane' \in Seq(Msg) /\ Len(lane') =< LaneCap
      /\ \A x : Queued(lane', x) = Queued(lane, x)
                   + (IF worker = "alive" /\ ~associate_in_flight /\ "Associate" = x
                      THEN 1 ELSE 0)
  BY SentPerhaps DEF StartJoin, FlagsOK, Msg
<1>t. associate_in_flight' = TRUE
  BY DEF StartJoin
<1>1. FlagsOK'
  BY <1>j, <1>s, <1>t, Zenon DEF FlagsOK
<1>2. ClocksOK'
  BY <1>j, TakeoverAssumption DEF ClocksOK, None
<1>3. DataOK'
  BY <1>j DEF DataOK, Phase
<1>4. ChannelsOK'
  BY <1>j, <1>s, <1>t DEF ChannelsOK
<1>5. Quiet'
  BY <1>j, <1>s, <1>t DEF Quiet, Running
<1>6. Counts'
  <2>1. Running' => Balanced("Associate", "AssociateFinished", associate_in_flight)'
    BY <1>j, <1>n, <1>s, <1>t DEF Counts, Balanced, Running, OneIf, FlagsOK
  <2>2. Running' => Balanced("PortalAuth", "PortalFinished", auth_in_flight)'
    BY <1>j, <1>n, <1>s, <1>t DEF Counts, Balanced, Running, OneIf, FlagsOK
  <2>3. Running' => Balanced("WlanProbe", "WlanProbeFinished", probe_in_flight)'
    BY <1>j, <1>n, <1>s, <1>t DEF Counts, Balanced, Running, OneIf, FlagsOK
  <2>4. QED
    BY <2>1, <2>2, <2>3 DEF Counts
<1>7. NothingAwaitedInVain'
  BY <1>j, <1>s, <1>t DEF NothingAwaitedInVain, Running
<1>8. OnlineIdle'
  BY <1>j, <1>s, <1>t DEF OnlineIdle, Running
<1>9. KickedFresh'
  BY <1>j, <1>s, <1>t DEF KickedFresh, Running
<1>10. QED
  BY <1>1, <1>2, <1>3, <1>4, <1>5, <1>6, <1>7, <1>8, <1>9

\* The brain waits for the association to yield an address, or starts over.
LEMMA StillJoiningStep ==
    ASSUME IInv, SampleTaken, phase = "Joining", JoinOrTimeOut,
           UNCHANGED <<associate_in_flight, lane>>
    PROVE  IInv'
<1> USE DEF IInv, SampleTaken, brainVars, flagVars, coreVars, workerVars,
        osVars, vars
<1>j. /\ auth_busy' = FALSE /\ next_auth_at' = None
      /\ phase' \in {"Off", "Joining"}
      /\ phase' = "Joining" => join_since' = join_since
      /\ last_probe_at' \in {None, last_probe_at} /\ join_since' \in {None, join_since}
      /\ UNCHANGED <<auth_fail_count, verdict, auth_in_flight, probe_in_flight>>
  BY DEF StartJoin, JoinOrTimeOut
<1>1. FlagsOK'
  BY <1>j, Zenon DEF FlagsOK
<1>2. ClocksOK'
  BY <1>j, TakeoverAssumption DEF ClocksOK, None
<1>3. DataOK'
  BY <1>j DEF DataOK, Phase
<1>4. ChannelsOK'
  BY <1>j DEF ChannelsOK
<1>5. Quiet'
  BY <1>j DEF Quiet, Running
<1>6. Counts'
  BY <1>j DEF Counts, Balanced, Running
<1>7. NothingAwaitedInVain'
  BY <1>j DEF NothingAwaitedInVain, Running
<1>8. OnlineIdle'
  BY <1>j DEF OnlineIdle, Running
<1>9. KickedFresh'
  BY <1>j DEF KickedFresh, Running
<1>10. QED
  BY <1>1, <1>2, <1>3, <1>4, <1>5, <1>6, <1>7, <1>8, <1>9

\* A probe is asked for, unless one is under way.
LEMMA ProbeNowStep ==
    ASSUME IInv, SampleTaken, ProbeNow, phase = "Online"
    PROVE  IInv'
<1> USE DEF IInv, SampleTaken, brainVars, flagVars, coreVars, workerVars,
        osVars, vars
<1>n. \A x, t : Queued(lane, x) \in Nat /\ Answers(results, t) \in Nat
  BY QueuedFacts, AnswersFacts DEF ChannelsOK
<1>s. /\ lane' \in Seq(Msg) /\ Len(lane') =< LaneCap
      /\ \A x : Queued(lane', x) = Queued(lane, x)
                   + (IF worker = "alive" /\ ~probe_in_flight /\ "WlanProbe" = x
                      THEN 1 ELSE 0)
  BY SentPerhaps DEF ProbeNow, FlagsOK, Msg
<1>t. /\ probe_in_flight' = TRUE /\ last_probe_at' = 0
      /\ UNCHANGED <<phase, auth_busy, auth_fail_count, next_auth_at, verdict,
                     associate_in_flight, auth_in_flight, join_since>>
  BY DEF ProbeNow
<1>1. FlagsOK'
  BY <1>s, <1>t, Zenon DEF FlagsOK
<1>2. ClocksOK'
  BY <1>t, TakeoverAssumption DEF ClocksOK, None
<1>3. DataOK'
  BY <1>s, <1>t DEF DataOK
<1>4. ChannelsOK'
  BY <1>s, <1>t DEF ChannelsOK
<1>5. Quiet'
  BY <1>s, <1>t DEF Quiet, Running
<1>6. Counts'
  <2>1. Running' => Balanced("Associate", "AssociateFinished", associate_in_flight)'
    BY <1>n, <1>s, <1>t DEF Counts, Balanced, Running, OneIf, FlagsOK
  <2>2. Running' => Balanced("PortalAuth", "PortalFinished", auth_in_flight)'
    BY <1>n, <1>s, <1>t DEF Counts, Balanced, Running, OneIf, FlagsOK
  <2>3. Running' => Balanced("WlanProbe", "WlanProbeFinished", probe_in_flight)'
    BY <1>n, <1>s, <1>t DEF Counts, Balanced, Running, OneIf, FlagsOK
  <2>4. QED
    BY <2>1, <2>2, <2>3 DEF Counts
<1>7. NothingAwaitedInVain'
  BY <1>s, <1>t DEF NothingAwaitedInVain, Running
<1>8. OnlineIdle'
  BY <1>s, <1>t DEF OnlineIdle, Running
<1>9. KickedFresh'
  BY <1>s, <1>t DEF KickedFresh, Running
<1>10. QED
  BY <1>1, <1>2, <1>3, <1>4, <1>5, <1>6, <1>7, <1>8, <1>9

\* The brain lets the wireless side go.
LEMMA ReleaseStep == ASSUME IInv, SampleTaken, Release PROVE IInv'
<1> USE DEF IInv, SampleTaken, brainVars, flagVars, coreVars, workerVars,
        osVars, vars
<1>n. \A x, t : Queued(lane, x) \in Nat /\ Answers(results, t) \in Nat
  BY QueuedFacts, AnswersFacts DEF ChannelsOK
<1>s. /\ lane' \in Seq(Msg) /\ Len(lane') =< LaneCap
      /\ \A x : Queued(lane', x) = Queued(lane, x)
                   + (IF worker = "alive" /\ "TeardownRoutes" = x THEN 1 ELSE 0)
                   + (IF worker = "alive" /\ "Disassociate" = x THEN 1 ELSE 0)
  BY SentBoth DEF Release, Msg
<1>t. /\ phase' = "Off" /\ auth_busy' = FALSE /\ next_auth_at' = None
      /\ last_probe_at' = None /\ verdict' = "None" /\ join_since' = None
      /\ UNCHANGED <<auth_fail_count, associate_in_flight, auth_in_flight,
                     probe_in_flight>>
  BY DEF Release
<1>1. FlagsOK'
  BY <1>s, <1>t, Zenon DEF FlagsOK
<1>2. ClocksOK'
  BY <1>t, TakeoverAssumption DEF ClocksOK, None
<1>3. DataOK'
  BY <1>t DEF DataOK, Phase, Verdict
<1>4. ChannelsOK'
  BY <1>s, <1>t DEF ChannelsOK
<1>5. Quiet'
  BY <1>s, <1>t DEF Quiet, Running
<1>6. Counts'
  <2>1. Running' => Balanced("Associate", "AssociateFinished", associate_in_flight)'
    BY <1>n, <1>s, <1>t DEF Counts, Balanced, Running, OneIf, FlagsOK
  <2>2. Running' => Balanced("PortalAuth", "PortalFinished", auth_in_flight)'
    BY <1>n, <1>s, <1>t DEF Counts, Balanced, Running, OneIf, FlagsOK
  <2>3. Running' => Balanced("WlanProbe", "WlanProbeFinished", probe_in_flight)'
    BY <1>n, <1>s, <1>t DEF Counts, Balanced, Running, OneIf, FlagsOK
  <2>4. QED
    BY <2>1, <2>2, <2>3 DEF Counts
<1>7. NothingAwaitedInVain'
  BY <1>s, <1>t DEF NothingAwaitedInVain, Running
<1>8. OnlineIdle'
  BY <1>s, <1>t DEF OnlineIdle, Running
<1>9. KickedFresh'
  BY <1>s, <1>t DEF KickedFresh, Running
<1>10. QED
  BY <1>1, <1>2, <1>3, <1>4, <1>5, <1>6, <1>7, <1>8, <1>9

\* A login is asked for while one is under way: the brain waits for that one.
LEMMA LoginUnderWayStep ==
    ASSUME IInv, SampleTaken, BeginAuth, phase = "Online" => verdict = "Kicked",
           auth_in_flight
    PROVE  IInv'
<1> USE DEF IInv, SampleTaken, brainVars, flagVars, coreVars, workerVars,
        osVars, vars
<1>t. /\ phase' = "Authing" /\ auth_busy' = TRUE /\ next_auth_at' = None
      /\ UNCHANGED <<last_probe_at, auth_fail_count, verdict, flagVars, join_since, lane>>
  BY DEF BeginAuth
<1>1. FlagsOK'
  BY <1>t, Zenon DEF FlagsOK
<1>2. ClocksOK'
  BY <1>t, TakeoverAssumption DEF ClocksOK, None
<1>3. DataOK'
  BY <1>t DEF DataOK, Phase
<1>4. ChannelsOK'
  BY <1>t DEF ChannelsOK
<1>5. Quiet'
  BY <1>t DEF Quiet, Running
<1>6. Counts'
  BY <1>t DEF Counts, Balanced, Running
<1>7. NothingAwaitedInVain'
  BY <1>t DEF NothingAwaitedInVain, Running
<1>8. OnlineIdle'
  BY <1>t DEF OnlineIdle, Running
<1>9. KickedFresh'
  BY <1>t DEF KickedFresh, Running
<1>10. QED
  BY <1>1, <1>2, <1>3, <1>4, <1>5, <1>6, <1>7, <1>8, <1>9

\* Without address or gateway the login fails at once.
LEMMA LoginRefusedStep ==
    ASSUME IInv, SampleTaken, BeginAuth, ~auth_in_flight, wlan # "ready"
    PROVE  IInv'
<1> USE DEF IInv, SampleTaken, brainVars, flagVars, coreVars, workerVars,
        osVars, vars
<1>t. /\ AuthFailed /\ verdict' = "None"
      /\ UNCHANGED <<associate_in_flight, auth_in_flight, probe_in_flight, join_since,
                     lane>>
  BY DEF BeginAuth
<1>u. phase' = "Error" /\ auth_busy' = FALSE /\ last_probe_at' = last_probe_at
  BY <1>t DEF AuthFailed
<1>v. /\ auth_fail_count' \in 0..Len(AuthRetryDelays)
      /\ \E k \in DOMAIN AuthRetryDelays : next_auth_at' \in 0..AuthRetryDelays[k]
  BY <1>t, RetryIsInTable
<1>1. FlagsOK'
  BY <1>t, <1>u, Zenon DEF FlagsOK
<1>2. ClocksOK'
  BY <1>t, <1>u, <1>v, TakeoverAssumption DEF ClocksOK, None
<1>3. DataOK'
  BY <1>t, <1>u DEF DataOK, Phase, Verdict
<1>4. ChannelsOK'
  BY <1>t, <1>u DEF ChannelsOK
<1>5. Quiet'
  BY <1>t, <1>u DEF Quiet, Running
<1>6. Counts'
  BY <1>t, <1>u DEF Counts, Balanced, Running
<1>7. NothingAwaitedInVain'
  BY <1>t, <1>u DEF NothingAwaitedInVain, Running
<1>8. OnlineIdle'
  BY <1>t, <1>u DEF OnlineIdle, Running
<1>9. KickedFresh'
  BY <1>t, <1>u DEF KickedFresh, Running
<1>10. QED
  BY <1>1, <1>2, <1>3, <1>4, <1>5, <1>6, <1>7, <1>8, <1>9

\* The login is handed to the worker, behind the routes it needs.
LEMMA LoginStep ==
    ASSUME IInv, SampleTaken, BeginAuth, ~auth_in_flight, wlan = "ready"
    PROVE  IInv'
<1> USE DEF IInv, SampleTaken, brainVars, flagVars, coreVars, workerVars,
        osVars, vars
<1>n. \A x, t : Queued(lane, x) \in Nat /\ Answers(results, t) \in Nat
  BY QueuedFacts, AnswersFacts DEF ChannelsOK
<1>t. /\ Send(<<"Acquire", "PortalAuth">>) /\ auth_in_flight' = TRUE
      /\ phase' = "Authing" /\ auth_busy' = TRUE /\ next_auth_at' = None
      /\ UNCHANGED <<last_probe_at, auth_fail_count, verdict,
                     associate_in_flight, probe_in_flight, join_since>>
  BY DEF BeginAuth
<1>s. /\ lane' \in Seq(Msg) /\ Len(lane') =< LaneCap
      /\ \A x : Queued(lane', x) = Queued(lane, x)
                   + (IF worker = "alive" /\ "Acquire" = x THEN 1 ELSE 0)
                   + (IF worker = "alive" /\ "PortalAuth" = x THEN 1 ELSE 0)
  BY <1>t, SentBoth DEF Msg
<1>w. worker' = worker
  OBVIOUS
<1>q. worker = "alive" =>
          /\ Queued(lane', "Associate") = Queued(lane, "Associate")
          /\ Queued(lane', "PortalAuth") = Queued(lane, "PortalAuth") + 1
          /\ Queued(lane', "WlanProbe") = Queued(lane, "WlanProbe")
  <2> HIDE DEF SampleTaken, IInv
  <2>1. SUFFICES ASSUME worker = "alive"
                 PROVE  /\ Queued(lane', "Associate") = Queued(lane, "Associate") + 0 + 0
                        /\ Queued(lane', "PortalAuth") = Queued(lane, "PortalAuth") + 0 + 1
                        /\ Queued(lane', "WlanProbe") = Queued(lane, "WlanProbe") + 0 + 0
    BY <1>n
  <2>2. QED
    BY <1>s, <2>1
<1>1. FlagsOK'
  BY <1>s, <1>t, Zenon DEF FlagsOK
<1>2. ClocksOK'
  BY <1>t, TakeoverAssumption DEF ClocksOK, None
<1>3. DataOK'
  BY <1>t DEF DataOK, Phase
<1>4. ChannelsOK'
  BY <1>s, <1>t DEF ChannelsOK
<1>5. Quiet'
  BY <1>s, <1>t DEF Quiet, Running
<1>6. Counts'
  <2>1. Running' => Balanced("Associate", "AssociateFinished", associate_in_flight)'
    <3>1. Running' => Balanced("Associate", "AssociateFinished", associate_in_flight)
      BY <1>s, <1>t DEF Counts, Running
    <3>2. OneIf(associate_in_flight)' = OneIf(associate_in_flight)
      BY <1>s, <1>t DEF OneIf
    <3>3. worker = "alive" => Queued(lane', "Associate") = Queued(lane, "Associate")
      BY <1>q, <1>n
    <3>4. Answers(results', "AssociateFinished")
                = Answers(results, "AssociateFinished")
      BY <1>s, <1>t, <1>n
    <3>5. QED
      BY <1>n, <1>w, <3>1, <3>2, <3>3, <3>4 DEF Balanced
  <2>2. Running' => Balanced("PortalAuth", "PortalFinished", auth_in_flight)'
    <3>1. Running' => Balanced("PortalAuth", "PortalFinished", auth_in_flight)
      BY <1>s, <1>t DEF Counts, Running
    <3>2. OneIf(auth_in_flight) = 0 /\ OneIf(auth_in_flight)' = 1
      BY <1>s, <1>t DEF OneIf
    <3>3. worker = "alive" => Queued(lane', "PortalAuth") = Queued(lane, "PortalAuth") + 1
      BY <1>q, <1>n
    <3>4. Answers(results', "PortalFinished") = Answers(results, "PortalFinished")
      BY <1>s, <1>t, <1>n
    <3>5. QED
      BY <1>n, <1>w, <3>1, <3>2, <3>3, <3>4 DEF Balanced
  <2>3. Running' => Balanced("WlanProbe", "WlanProbeFinished", probe_in_flight)'
    <3>1. Running' => Balanced("WlanProbe", "WlanProbeFinished", probe_in_flight)
      BY <1>s, <1>t DEF Counts, Running
    <3>2. OneIf(probe_in_flight)' = OneIf(probe_in_flight)
      BY <1>s, <1>t DEF OneIf
    <3>3. worker = "alive" => Queued(lane', "WlanProbe") = Queued(lane, "WlanProbe")
      BY <1>q, <1>n
    <3>4. Answers(results', "WlanProbeFinished")
                = Answers(results, "WlanProbeFinished")
      BY <1>s, <1>t, <1>n
    <3>5. QED
      BY <1>n, <1>w, <3>1, <3>2, <3>3, <3>4 DEF Balanced
  <2>4. QED
    BY <2>1, <2>2, <2>3 DEF Counts
<1>7. NothingAwaitedInVain'
  BY <1>s, <1>t DEF NothingAwaitedInVain, Running
<1>8. OnlineIdle'
  BY <1>s, <1>t DEF OnlineIdle, Running
<1>9. KickedFresh'
  BY <1>s, <1>t DEF KickedFresh, Running
<1>10. QED
  BY <1>1, <1>2, <1>3, <1>4, <1>5, <1>6, <1>7, <1>8, <1>9

\* One beat, whatever it decides.
LEMMA SampledStep == ASSUME IInv, OnWirelessSampled PROVE IInv'
<1>1. SampleTaken
  BY Outcomes
<1>2. CASE BeginAuth /\ (phase = "Online" => verdict = "Kicked")
  BY <1>1, <1>2, LoginUnderWayStep, LoginRefusedStep, LoginStep
<1>3. CASE phase = "Joining" /\ JoinOrTimeOut /\ UNCHANGED <<associate_in_flight, lane>>
  BY <1>1, <1>3, StillJoiningStep
<1>4. QED
  BY <1>1, <1>2, <1>3, Outcomes, StartJoinStep, GoOnStep, ProbeNowStep, ReleaseStep

\* The association call has returned: the join timeout starts.
LEMMA AssociateFinishedStep == ASSUME IInv, OnAssociateFinished PROVE IInv'
<1> USE DEF IInv
<1>n. \A x, t : Queued(lane, x) \in Nat /\ Answers(results, t) \in Nat
  BY QueuedFacts, AnswersFacts DEF ChannelsOK
<1>a. /\ results \in Seq(Res) /\ results # <<>> /\ Head(results) \in Res
      /\ Head(results).type = "AssociateFinished" /\ results' = Tail(results)
      /\ results' \in Seq(Res)
  BY Taken DEF OnAssociateFinished
<1>m. \A t : Answers(results', t)
            = Answers(results, t) - (IF "AssociateFinished" = t THEN 1 ELSE 0)
  BY Taken DEF OnAssociateFinished
<1>b. /\ Running
      /\ UNCHANGED <<mode, unhealthy_since, healthy_since, brain, steady, stopped,
                     beat_due, lane, worker, egress_error, wlan, routes, assoc_task,
                     wired, kicked_since_login>>
  BY DEF OnAssociateFinished, Take, Running, workerVars, osVars
<1>e. Explained(results', kicked_since_login)
  BY <1>a, <1>b, ExplainedTail DEF KickedFresh, FlagsOK
<1>w. worker' = worker
  BY <1>b
<1>c. /\ associate_in_flight /\ associate_in_flight' = FALSE /\ join_since' = 0
      /\ UNCHANGED <<phase, last_probe_at, auth_busy, auth_fail_count,
                     next_auth_at, verdict, auth_in_flight, probe_in_flight>>
  BY DEF OnAssociateFinished
<1>1. FlagsOK'
  BY <1>b, <1>c, Zenon DEF FlagsOK
<1>2. ClocksOK'
  BY <1>b, <1>c, TakeoverAssumption DEF ClocksOK, None
<1>3. DataOK'
  BY <1>b, <1>c DEF DataOK
<1>4. ChannelsOK'
  BY <1>a, <1>b DEF ChannelsOK
<1>5. Quiet'
  BY <1>b, <1>c DEF Quiet, Running
<1>6. Counts'
  <2>1. Running' => Balanced("Associate", "AssociateFinished", associate_in_flight)'
    <3>1. Running' => Balanced("Associate", "AssociateFinished", associate_in_flight)
      BY <1>a, <1>b, <1>c DEF Counts, Running
    <3>2. OneIf(associate_in_flight) = 1 /\ OneIf(associate_in_flight)' = 0
      BY <1>a, <1>b, <1>c DEF OneIf
    <3>3. Queued(lane', "Associate") = Queued(lane, "Associate")
      BY <1>b, <1>n
    <3>4. Answers(results', "AssociateFinished")
                = Answers(results, "AssociateFinished") - 1
      BY <1>m, <1>n
    <3>5. QED
      BY <1>n, <1>w, <3>1, <3>2, <3>3, <3>4 DEF Balanced
  <2>2. Running' => Balanced("PortalAuth", "PortalFinished", auth_in_flight)'
    <3>1. Running' => Balanced("PortalAuth", "PortalFinished", auth_in_flight)
      BY <1>a, <1>b, <1>c DEF Counts, Running
    <3>2. OneIf(auth_in_flight)' = OneIf(auth_in_flight)
      BY <1>a, <1>b, <1>c DEF OneIf
    <3>3. Queued(lane', "PortalAuth") = Queued(lane, "PortalAuth")
      BY <1>b, <1>n
    <3>4. Answers(results', "PortalFinished") = Answers(results, "PortalFinished")
      BY <1>m, <1>n
    <3>5. QED
      BY <1>n, <1>w, <3>1, <3>2, <3>3, <3>4 DEF Balanced
  <2>3. Running' => Balanced("WlanProbe", "WlanProbeFinished", probe_in_flight)'
    <3>1. Running' => Balanced("WlanProbe", "WlanProbeFinished", probe_in_flight)
      BY <1>a, <1>b, <1>c DEF Counts, Running
    <3>2. OneIf(probe_in_flight)' = OneIf(probe_in_flight)
      BY <1>a, <1>b, <1>c DEF OneIf
    <3>3. Queued(lane', "WlanProbe") = Queued(lane, "WlanProbe")
      BY <1>b, <1>n
    <3>4. Answers(results', "WlanProbeFinished")
                = Answers(results, "WlanProbeFinished")
      BY <1>m, <1>n
    <3>5. QED
      BY <1>n, <1>w, <3>1, <3>2, <3>3, <3>4 DEF Balanced
  <2>4. QED
    BY <2>1, <2>2, <2>3 DEF Counts
<1>7. NothingAwaitedInVain'
  BY <1>b, <1>c DEF NothingAwaitedInVain, Running, None
<1>8. OnlineIdle'
  BY <1>b, <1>c DEF OnlineIdle, Running
<1>9. KickedFresh'
  BY <1>b, <1>c, <1>e DEF KickedFresh, Running
<1>10. QED
  BY <1>1, <1>2, <1>3, <1>4, <1>5, <1>6, <1>7, <1>8, <1>9

\* A login has been answered: a verdict of before it is dropped.
LEMMA PortalFinishedStep == ASSUME IInv, OnPortalFinished PROVE IInv'
<1> USE DEF IInv
<1>n. \A x, t : Queued(lane, x) \in Nat /\ Answers(results, t) \in Nat
  BY QueuedFacts, AnswersFacts DEF ChannelsOK
<1>a. /\ results \in Seq(Res) /\ results # <<>> /\ Head(results) \in Res
      /\ Head(results).type = "PortalFinished" /\ results' = Tail(results)
      /\ results' \in Seq(Res)
  BY Taken DEF OnPortalFinished
<1>m. \A t : Answers(results', t)
            = Answers(results, t) - (IF "PortalFinished" = t THEN 1 ELSE 0)
  BY Taken DEF OnPortalFinished
<1>b. /\ Running
      /\ UNCHANGED <<mode, unhealthy_since, healthy_since, brain, steady, stopped,
                     beat_due, lane, worker, egress_error, wlan, routes, assoc_task,
                     wired, kicked_since_login>>
  BY DEF OnPortalFinished, Take, Running, workerVars, osVars
<1>e. Explained(results', kicked_since_login)
  BY <1>a, <1>b, ExplainedTail DEF KickedFresh, FlagsOK
<1>w. worker' = worker
  BY <1>b
<1>c. /\ auth_in_flight /\ auth_in_flight' = FALSE /\ verdict' = "None"
      /\ UNCHANGED <<associate_in_flight, probe_in_flight, join_since>>
  BY DEF OnPortalFinished
<1>d. phase' \in {"Online", "Error"} /\ auth_busy' = FALSE
  BY DEF OnPortalFinished, AuthOk, AuthFailed
<1>f. /\ last_probe_at' \in {None, last_probe_at}
      /\ auth_fail_count' \in 0..Len(AuthRetryDelays)
      /\ next_auth_at' = None \/ \E k \in DOMAIN AuthRetryDelays :
                                    next_auth_at' \in 0..AuthRetryDelays[k]
  <2>1. CASE AuthOk
    BY <2>1, TakeoverAssumption DEF AuthOk
  <2>2. CASE AuthFailed
    BY <2>2, RetryIsInTable DEF AuthFailed
  <2>3. QED
    BY <2>1, <2>2 DEF OnPortalFinished
<1>1. FlagsOK'
  BY <1>b, <1>c, <1>d, Zenon DEF FlagsOK
<1>2. ClocksOK'
  BY <1>b, <1>c, <1>f, TakeoverAssumption DEF ClocksOK, None
<1>3. DataOK'
  BY <1>b, <1>c, <1>d DEF DataOK, Phase, Verdict
<1>4. ChannelsOK'
  BY <1>a, <1>b DEF ChannelsOK
<1>5. Quiet'
  BY <1>b, <1>c DEF Quiet, Running
<1>6. Counts'
  <2>1. Running' => Balanced("Associate", "AssociateFinished", associate_in_flight)'
    <3>1. Running' => Balanced("Associate", "AssociateFinished", associate_in_flight)
      BY <1>a, <1>b, <1>c DEF Counts, Running
    <3>2. OneIf(associate_in_flight)' = OneIf(associate_in_flight)
      BY <1>a, <1>b, <1>c DEF OneIf
    <3>3. Queued(lane', "Associate") = Queued(lane, "Associate")
      BY <1>b, <1>n
    <3>4. Answers(results', "AssociateFinished")
                = Answers(results, "AssociateFinished")
      BY <1>m, <1>n
    <3>5. QED
      BY <1>n, <1>w, <3>1, <3>2, <3>3, <3>4 DEF Balanced
  <2>2. Running' => Balanced("PortalAuth", "PortalFinished", auth_in_flight)'
    <3>1. Running' => Balanced("PortalAuth", "PortalFinished", auth_in_flight)
      BY <1>a, <1>b, <1>c DEF Counts, Running
    <3>2. OneIf(auth_in_flight) = 1 /\ OneIf(auth_in_flight)' = 0
      BY <1>a, <1>b, <1>c DEF OneIf
    <3>3. Queued(lane', "PortalAuth") = Queued(lane, "PortalAuth")
      BY <1>b, <1>n
    <3>4. Answers(results', "PortalFinished")
                = Answers(results, "PortalFinished") - 1
      BY <1>m, <1>n
    <3>5. QED
      BY <1>n, <1>w, <3>1, <3>2, <3>3, <3>4 DEF Balanced
  <2>3. Running' => Balanced("WlanProbe", "WlanProbeFinished", probe_in_flight)'
    <3>1. Running' => Balanced("WlanProbe", "WlanProbeFinished", probe_in_flight)
      BY <1>a, <1>b, <1>c DEF Counts, Running
    <3>2. OneIf(probe_in_flight)' = OneIf(probe_in_flight)
      BY <1>a, <1>b, <1>c DEF OneIf
    <3>3. Queued(lane', "WlanProbe") = Queued(lane, "WlanProbe")
      BY <1>b, <1>n
    <3>4. Answers(results', "WlanProbeFinished")
                = Answers(results, "WlanProbeFinished")
      BY <1>m, <1>n
    <3>5. QED
      BY <1>n, <1>w, <3>1, <3>2, <3>3, <3>4 DEF Balanced
  <2>4. QED
    BY <2>1, <2>2, <2>3 DEF Counts
<1>7. NothingAwaitedInVain'
  BY <1>d DEF NothingAwaitedInVain
<1>8. OnlineIdle'
  BY <1>b, <1>c DEF OnlineIdle, Running
<1>9. KickedFresh'
  BY <1>b, <1>c, <1>e DEF KickedFresh, Running
<1>10. QED
  BY <1>1, <1>2, <1>3, <1>4, <1>5, <1>6, <1>7, <1>8, <1>9

\* A probe has been answered.  If the brain is online no login is under way,
\* and the verdict is of after the last one.
LEMMA ProbeFinishedStep == ASSUME IInv, OnProbeFinished PROVE IInv'
<1> USE DEF IInv
<1>n. \A x, t : Queued(lane, x) \in Nat /\ Answers(results, t) \in Nat
  BY QueuedFacts, AnswersFacts DEF ChannelsOK
<1>a. /\ results \in Seq(Res) /\ results # <<>> /\ Head(results) \in Res
      /\ Head(results).type = "WlanProbeFinished" /\ results' = Tail(results)
      /\ results' \in Seq(Res)
  BY Taken DEF OnProbeFinished
<1>m. \A t : Answers(results', t)
            = Answers(results, t) - (IF "WlanProbeFinished" = t THEN 1 ELSE 0)
  BY Taken DEF OnProbeFinished
<1>b. /\ Running
      /\ UNCHANGED <<mode, unhealthy_since, healthy_since, brain, steady, stopped,
                     beat_due, lane, worker, egress_error, wlan, routes, assoc_task,
                     wired, kicked_since_login>>
  BY DEF OnProbeFinished, Take, Running, workerVars, osVars
<1>e. Explained(results', kicked_since_login)
  BY <1>a, <1>b, ExplainedTail DEF KickedFresh, FlagsOK
<1>w. worker' = worker
  BY <1>b
<1>c. /\ probe_in_flight /\ probe_in_flight' = FALSE
      /\ verdict' = Head(results).verdict
      /\ UNCHANGED <<phase, last_probe_at, auth_busy, auth_fail_count,
                     next_auth_at, associate_in_flight, auth_in_flight,
                     join_since>>
  BY DEF OnProbeFinished
<1>d. verdict' \in {"Kicked", "Other"}
  BY <1>a, <1>c, Kinds
<1>g. ASSUME phase = "Online", verdict' = "Kicked"
      PROVE  kicked_since_login
  <2>1. ~auth_in_flight
    BY <1>b, <1>g DEF OnlineIdle
  <2>2. Answers(results, "PortalFinished") = 0
    BY <1>b, <1>n, <2>1 DEF Counts, Balanced, OneIf
  <2>3. \A i \in DOMAIN results : results[i].type # "PortalFinished"
    BY <1>a, <2>2, NoAnswers
  <2>4. 1 \in DOMAIN results /\ results[1] = Head(results)
    BY <1>a
  <2>5. Explained(results, kicked_since_login)
    BY <1>b DEF KickedFresh
  <2>6. QED
    BY <1>a, <1>c, <1>g, <2>3, <2>4, <2>5 DEF Explained
<1>1. FlagsOK'
  BY <1>b, <1>c, Zenon DEF FlagsOK
<1>2. ClocksOK'
  BY <1>b, <1>c, TakeoverAssumption DEF ClocksOK, None
<1>3. DataOK'
  BY <1>b, <1>c, <1>d DEF DataOK, Verdict
<1>4. ChannelsOK'
  BY <1>a, <1>b DEF ChannelsOK
<1>5. Quiet'
  BY <1>b, <1>c DEF Quiet, Running
<1>6. Counts'
  <2>1. Running' => Balanced("Associate", "AssociateFinished", associate_in_flight)'
    <3>1. Running' => Balanced("Associate", "AssociateFinished", associate_in_flight)
      BY <1>a, <1>b, <1>c DEF Counts, Running
    <3>2. OneIf(associate_in_flight)' = OneIf(associate_in_flight)
      BY <1>a, <1>b, <1>c DEF OneIf
    <3>3. Queued(lane', "Associate") = Queued(lane, "Associate")
      BY <1>b, <1>n
    <3>4. Answers(results', "AssociateFinished")
                = Answers(results, "AssociateFinished")
      BY <1>m, <1>n
    <3>5. QED
      BY <1>n, <1>w, <3>1, <3>2, <3>3, <3>4 DEF Balanced
  <2>2. Running' => Balanced("PortalAuth", "PortalFinished", auth_in_flight)'
    <3>1. Running' => Balanced("PortalAuth", "PortalFinished", auth_in_flight)
      BY <1>a, <1>b, <1>c DEF Counts, Running
    <3>2. OneIf(auth_in_flight)' = OneIf(auth_in_flight)
      BY <1>a, <1>b, <1>c DEF OneIf
    <3>3. Queued(lane', "PortalAuth") = Queued(lane, "PortalAuth")
      BY <1>b, <1>n
    <3>4. Answers(results', "PortalFinished") = Answers(results, "PortalFinished")
      BY <1>m, <1>n
    <3>5. QED
      BY <1>n, <1>w, <3>1, <3>2, <3>3, <3>4 DEF Balanced
  <2>3. Running' => Balanced("WlanProbe", "WlanProbeFinished", probe_in_flight)'
    <3>1. Running' => Balanced("WlanProbe", "WlanProbeFinished", probe_in_flight)
      BY <1>a, <1>b, <1>c DEF Counts, Running
    <3>2. OneIf(probe_in_flight) = 1 /\ OneIf(probe_in_flight)' = 0
      BY <1>a, <1>b, <1>c DEF OneIf
    <3>3. Queued(lane', "WlanProbe") = Queued(lane, "WlanProbe")
      BY <1>b, <1>n
    <3>4. Answers(results', "WlanProbeFinished")
                = Answers(results, "WlanProbeFinished") - 1
      BY <1>m, <1>n
    <3>5. QED
      BY <1>n, <1>w, <3>1, <3>2, <3>3, <3>4 DEF Balanced
  <2>4. QED
    BY <2>1, <2>2, <2>3 DEF Counts
<1>7. NothingAwaitedInVain'
  BY <1>b, <1>c DEF NothingAwaitedInVain, Running
<1>8. OnlineIdle'
  BY <1>b, <1>c DEF OnlineIdle, Running
<1>9. KickedFresh'
  BY <1>b, <1>c, <1>e, <1>g DEF KickedFresh, Running
<1>10. QED
  BY <1>1, <1>2, <1>3, <1>4, <1>5, <1>6, <1>7, <1>8, <1>9

\* The worker is gone and its results are used up: the wireless half is given
\* up.
LEMMA WirelessDiedStep == ASSUME IInv, OnWirelessDied PROVE IInv'
<1> USE DEF IInv
<1>b. /\ worker = "dead" /\ results = <<>> /\ brain' = FALSE
      /\ UNCHANGED <<mode, steady, stopped, beat_due, lane, results, worker,
                     egress_error, wlan, routes, assoc_task, wired,
                     kicked_since_login>>
  BY DEF OnWirelessDied, workerVars, osVars
<1>c. /\ phase' = "Off" /\ unhealthy_since' = None /\ healthy_since' = None
      /\ last_probe_at' = None /\ auth_busy' = FALSE /\ auth_fail_count' = 0
      /\ next_auth_at' = None /\ verdict' = "None" /\ join_since' = None
      /\ associate_in_flight' = FALSE /\ auth_in_flight' = FALSE
      /\ probe_in_flight' = FALSE
  BY DEF OnWirelessDied, SetBack
<1>d. ~Running'
  BY <1>b DEF Running
<1>1. FlagsOK'
  BY <1>b, <1>c, Zenon DEF FlagsOK
<1>2. ClocksOK'
  BY <1>c, TakeoverAssumption DEF ClocksOK, None
<1>3. DataOK'
  BY <1>b, <1>c DEF DataOK, Phase, Verdict
<1>4. ChannelsOK'
  BY <1>b, <1>c DEF ChannelsOK
<1>5. Quiet'
  BY <1>b, <1>c DEF Quiet, Running
<1>6. Counts'
  BY <1>d DEF Counts
<1>7. NothingAwaitedInVain'
  BY <1>d DEF NothingAwaitedInVain
<1>8. OnlineIdle'
  BY <1>d DEF OnlineIdle
<1>9. KickedFresh'
  BY <1>d DEF KickedFresh
<1>10. QED
  BY <1>1, <1>2, <1>3, <1>4, <1>5, <1>6, <1>7, <1>8, <1>9

\* The service stops.
LEMMA StopStep == ASSUME IInv, OnStop PROVE IInv'
<1> USE DEF IInv
<1>b. /\ stopped' = TRUE /\ results' = <<>> /\ beat_due' = FALSE /\ wired' = FALSE
      /\ kicked_since_login' = FALSE
      /\ UNCHANGED <<mode, brain, steady, worker, egress_error, wlan, routes,
                     assoc_task>>
  BY DEF OnStop, workerVars, osVars
<1>s. lane' \in Seq(Msg) /\ Len(lane') =< LaneCap
  BY Sent1 DEF OnStop, Msg
<1>c. /\ phase' = "Off" /\ unhealthy_since' = None /\ healthy_since' = None
      /\ last_probe_at' = None /\ auth_busy' = FALSE /\ auth_fail_count' = 0
      /\ next_auth_at' = None /\ verdict' = "None" /\ join_since' = None
      /\ associate_in_flight' = FALSE /\ auth_in_flight' = FALSE
      /\ probe_in_flight' = FALSE
  BY DEF OnStop, SetBack
<1>d. ~Running'
  BY <1>b DEF Running
<1>1. FlagsOK'
  BY <1>b, <1>c, Zenon DEF FlagsOK
<1>2. ClocksOK'
  BY <1>c, TakeoverAssumption DEF ClocksOK, None
<1>3. DataOK'
  BY <1>b, <1>c DEF DataOK, Phase, Verdict
<1>4. ChannelsOK'
  BY <1>b, <1>s DEF ChannelsOK
<1>5. Quiet'
  BY <1>b, <1>c DEF Quiet, Running
<1>6. Counts'
  BY <1>d DEF Counts
<1>7. NothingAwaitedInVain'
  BY <1>d DEF NothingAwaitedInVain
<1>8. OnlineIdle'
  BY <1>d DEF OnlineIdle
<1>9. KickedFresh'
  BY <1>d DEF KickedFresh
<1>10. QED
  BY <1>1, <1>2, <1>3, <1>4, <1>5, <1>6, <1>7, <1>8, <1>9

\* The worker has made the association call.
LEMMA AssociateStep == ASSUME IInv, DoAssociate PROVE IInv'
<1> USE DEF IInv, LoopKept
<1>n. \A x, t : Queued(lane, x) \in Nat /\ Answers(results, t) \in Nat
  BY QueuedFacts, AnswersFacts DEF ChannelsOK
<1>a. lane' \in Seq(Msg) /\ Len(lane') =< LaneCap
  BY Executed DEF DoAssociate
<1>m. \A x : Queued(lane', x) = Queued(lane, x) - (IF "Associate" = x THEN 1 ELSE 0)
  BY Executed DEF DoAssociate
<1>o. Queued(lane', "Associate") \in Nat
  BY Executed DEF DoAssociate
<1>b. /\ worker = "alive"
      /\ LoopKept /\ UNCHANGED <<worker, egress_error, routes, assoc_task,
                    kicked_since_login>>
  BY DEF DoAssociate, Do, brainVars, coreVars, flagVars, workerVars,
     osVars
<1>t. /\ [type |-> "AssociateFinished"] \in Res
      /\ [type |-> "AssociateFinished"].type = "AssociateFinished"
  BY DEF Res
<1>r. /\ results' \in Seq(Res)
      /\ stopped => results' = results
      /\ ~stopped => results' = Append(results, [type |-> "AssociateFinished"])
  BY <1>t, Reported DEF DoAssociate
<1>u. \A t : ~stopped => Answers(results', t)
                    = Answers(results, t) + (IF "AssociateFinished" = t THEN 1 ELSE 0)
  BY <1>t, Reported DEF DoAssociate
<1>w. worker' = worker
  BY <1>b DEF DoAssociate
<1>d. wlan' \in WlanState
  BY DEF DoAssociate, DataOK, WlanState
<1>1. FlagsOK'
  BY <1>b, Zenon DEF FlagsOK
<1>2. ClocksOK'
  BY <1>b DEF ClocksOK
<1>3. DataOK'
  BY <1>b, <1>d DEF DataOK
<1>4. ChannelsOK'
  BY <1>a, <1>b, <1>r DEF ChannelsOK
<1>5. Quiet'
  BY <1>b, <1>r, <1>w DEF Quiet, Running
<1>6. Counts'
  <2>1. Running' => Balanced("Associate", "AssociateFinished", associate_in_flight)'
    <3>1. Running' => Balanced("Associate", "AssociateFinished", associate_in_flight)
      BY <1>b DEF Counts, Running
    <3>2. OneIf(associate_in_flight)' = OneIf(associate_in_flight)
      BY <1>b DEF OneIf
    <3>3. Queued(lane', "Associate") = Queued(lane, "Associate") - 1
      BY <1>m, <1>n
    <3>4. ~stopped => (Answers(results', "AssociateFinished")
                = Answers(results, "AssociateFinished") + 1)
      BY <1>u, <1>n
    <3>5. QED
      BY <1>b, <1>n, <1>o, <1>w, <3>1, <3>2, <3>3, <3>4 DEF Balanced, Running
  <2>2. Running' => Balanced("PortalAuth", "PortalFinished", auth_in_flight)'
    <3>1. Running' => Balanced("PortalAuth", "PortalFinished", auth_in_flight)
      BY <1>b DEF Counts, Running
    <3>2. OneIf(auth_in_flight)' = OneIf(auth_in_flight)
      BY <1>b DEF OneIf
    <3>3. Queued(lane', "PortalAuth") = Queued(lane, "PortalAuth")
      BY <1>m, <1>n
    <3>4. ~stopped => (Answers(results', "PortalFinished")
                = Answers(results, "PortalFinished"))
      BY <1>u, <1>n
    <3>5. QED
      BY <1>b, <1>n, <1>o, <1>w, <3>1, <3>2, <3>3, <3>4 DEF Balanced, Running
  <2>3. Running' => Balanced("WlanProbe", "WlanProbeFinished", probe_in_flight)'
    <3>1. Running' => Balanced("WlanProbe", "WlanProbeFinished", probe_in_flight)
      BY <1>b DEF Counts, Running
    <3>2. OneIf(probe_in_flight)' = OneIf(probe_in_flight)
      BY <1>b DEF OneIf
    <3>3. Queued(lane', "WlanProbe") = Queued(lane, "WlanProbe")
      BY <1>m, <1>n
    <3>4. ~stopped => (Answers(results', "WlanProbeFinished")
                = Answers(results, "WlanProbeFinished"))
      BY <1>u, <1>n
    <3>5. QED
      BY <1>b, <1>n, <1>o, <1>w, <3>1, <3>2, <3>3, <3>4 DEF Balanced, Running
  <2>4. QED
    BY <2>1, <2>2, <2>3 DEF Counts
<1>7. NothingAwaitedInVain'
  BY <1>b DEF NothingAwaitedInVain, Running
<1>8. OnlineIdle'
  BY <1>b DEF OnlineIdle, Running
<1>9. KickedFresh'
  <2>1. ASSUME ~stopped
        PROVE  Explained(results, kicked_since_login) => Explained(results', kicked_since_login)
    BY <1>b, <1>r, <1>t, <2>1, ExplainedAppend
       DEF ChannelsOK, FlagsOK
  <2>2. QED
    BY <1>b, <2>1 DEF KickedFresh, Running
<1>10. QED
  BY <1>1, <1>2, <1>3, <1>4, <1>5, <1>6, <1>7, <1>8, <1>9

\* The worker has left the WLAN.
LEMMA DisassociateStep == ASSUME IInv, DoDisassociate PROVE IInv'
<1> USE DEF IInv, LoopKept
<1>n. \A x, t : Queued(lane, x) \in Nat /\ Answers(results, t) \in Nat
  BY QueuedFacts, AnswersFacts DEF ChannelsOK
<1>a. lane' \in Seq(Msg) /\ Len(lane') =< LaneCap
  BY Executed DEF DoDisassociate
<1>m. \A x : Queued(lane', x)
            = Queued(lane, x) - (IF "Disassociate" = x THEN 1 ELSE 0)
  BY Executed DEF DoDisassociate
<1>o. Queued(lane', "Disassociate") \in Nat
  BY Executed DEF DoDisassociate
<1>b. /\ worker = "alive"
      /\ LoopKept /\ UNCHANGED <<worker, egress_error, routes, assoc_task,
                    results, kicked_since_login>>
  BY DEF DoDisassociate, Do, brainVars, coreVars, flagVars, workerVars,
     osVars
<1>w. worker' = worker
  BY <1>b DEF DoDisassociate
<1>d. wlan' \in WlanState
  BY DEF DoDisassociate, DataOK, WlanState
<1>1. FlagsOK'
  BY <1>b, Zenon DEF FlagsOK
<1>2. ClocksOK'
  BY <1>b DEF ClocksOK
<1>3. DataOK'
  BY <1>b, <1>d DEF DataOK
<1>4. ChannelsOK'
  BY <1>a, <1>b DEF ChannelsOK
<1>5. Quiet'
  BY <1>b DEF Quiet, Running
<1>6. Counts'
  <2>1. Running' => Balanced("Associate", "AssociateFinished", associate_in_flight)'
    <3>1. Running' => Balanced("Associate", "AssociateFinished", associate_in_flight)
      BY <1>b DEF Counts, Running
    <3>2. OneIf(associate_in_flight)' = OneIf(associate_in_flight)
      BY <1>b DEF OneIf
    <3>3. Queued(lane', "Associate") = Queued(lane, "Associate")
      BY <1>m, <1>n
    <3>4. Answers(results', "AssociateFinished")
                = Answers(results, "AssociateFinished")
      BY <1>b, <1>n
    <3>5. QED
      BY <1>n, <1>w, <3>1, <3>2, <3>3, <3>4 DEF Balanced
  <2>2. Running' => Balanced("PortalAuth", "PortalFinished", auth_in_flight)'
    <3>1. Running' => Balanced("PortalAuth", "PortalFinished", auth_in_flight)
      BY <1>b DEF Counts, Running
    <3>2. OneIf(auth_in_flight)' = OneIf(auth_in_flight)
      BY <1>b DEF OneIf
    <3>3. Queued(lane', "PortalAuth") = Queued(lane, "PortalAuth")
      BY <1>m, <1>n
    <3>4. Answers(results', "PortalFinished") = Answers(results, "PortalFinished")
      BY <1>b, <1>n
    <3>5. QED
      BY <1>n, <1>w, <3>1, <3>2, <3>3, <3>4 DEF Balanced
  <2>3. Running' => Balanced("WlanProbe", "WlanProbeFinished", probe_in_flight)'
    <3>1. Running' => Balanced("WlanProbe", "WlanProbeFinished", probe_in_flight)
      BY <1>b DEF Counts, Running
    <3>2. OneIf(probe_in_flight)' = OneIf(probe_in_flight)
      BY <1>b DEF OneIf
    <3>3. Queued(lane', "WlanProbe") = Queued(lane, "WlanProbe")
      BY <1>m, <1>n
    <3>4. Answers(results', "WlanProbeFinished")
                = Answers(results, "WlanProbeFinished")
      BY <1>b, <1>n
    <3>5. QED
      BY <1>n, <1>w, <3>1, <3>2, <3>3, <3>4 DEF Balanced
  <2>4. QED
    BY <2>1, <2>2, <2>3 DEF Counts
<1>7. NothingAwaitedInVain'
  BY <1>b DEF NothingAwaitedInVain, Running
<1>8. OnlineIdle'
  BY <1>b DEF OnlineIdle, Running
<1>9. KickedFresh'
  BY <1>b DEF KickedFresh, Running
<1>10. QED
  BY <1>1, <1>2, <1>3, <1>4, <1>5, <1>6, <1>7, <1>8, <1>9

\* The worker has tried to install the routes.
LEMMA AcquireStep == ASSUME IInv, DoAcquire PROVE IInv'
<1> USE DEF IInv, LoopKept
<1>n. \A x, t : Queued(lane, x) \in Nat /\ Answers(results, t) \in Nat
  BY QueuedFacts, AnswersFacts DEF ChannelsOK
<1>a. lane' \in Seq(Msg) /\ Len(lane') =< LaneCap
  BY Executed DEF DoAcquire
<1>m. \A x : Queued(lane', x) = Queued(lane, x) - (IF "Acquire" = x THEN 1 ELSE 0)
  BY Executed DEF DoAcquire
<1>o. Queued(lane', "Acquire") \in Nat
  BY Executed DEF DoAcquire
<1>b. /\ worker = "alive"
      /\ LoopKept /\ UNCHANGED <<worker, assoc_task, wlan, results,
                    kicked_since_login>>
  BY DEF DoAcquire, Do, brainVars, coreVars, flagVars, workerVars,
     osVars
<1>w. worker' = worker
  BY <1>b DEF DoAcquire
<1>d. egress_error' \in BOOLEAN
  BY DEF DoAcquire
<1>e. routes' \in BOOLEAN
  <2>1. routes' = TRUE \/ routes' = (routes \/ ~egress_error')
    BY DEF DoAcquire
  <2>2. (routes \/ ~egress_error') \in BOOLEAN
    BY Zenon
  <2>3. QED
    BY <2>1, <2>2, Zenon
<1>1. FlagsOK'
  BY <1>b, <1>d, <1>e, Zenon DEF FlagsOK
<1>2. ClocksOK'
  BY <1>b DEF ClocksOK
<1>3. DataOK'
  BY <1>b DEF DataOK
<1>4. ChannelsOK'
  BY <1>a, <1>b DEF ChannelsOK
<1>5. Quiet'
  BY <1>b DEF Quiet, Running
<1>6. Counts'
  <2>1. Running' => Balanced("Associate", "AssociateFinished", associate_in_flight)'
    <3>1. Running' => Balanced("Associate", "AssociateFinished", associate_in_flight)
      BY <1>b DEF Counts, Running
    <3>2. OneIf(associate_in_flight)' = OneIf(associate_in_flight)
      BY <1>b DEF OneIf
    <3>3. Queued(lane', "Associate") = Queued(lane, "Associate")
      BY <1>m, <1>n
    <3>4. Answers(results', "AssociateFinished")
                = Answers(results, "AssociateFinished")
      BY <1>b, <1>n
    <3>5. QED
      BY <1>n, <1>w, <3>1, <3>2, <3>3, <3>4 DEF Balanced
  <2>2. Running' => Balanced("PortalAuth", "PortalFinished", auth_in_flight)'
    <3>1. Running' => Balanced("PortalAuth", "PortalFinished", auth_in_flight)
      BY <1>b DEF Counts, Running
    <3>2. OneIf(auth_in_flight)' = OneIf(auth_in_flight)
      BY <1>b DEF OneIf
    <3>3. Queued(lane', "PortalAuth") = Queued(lane, "PortalAuth")
      BY <1>m, <1>n
    <3>4. Answers(results', "PortalFinished") = Answers(results, "PortalFinished")
      BY <1>b, <1>n
    <3>5. QED
      BY <1>n, <1>w, <3>1, <3>2, <3>3, <3>4 DEF Balanced
  <2>3. Running' => Balanced("WlanProbe", "WlanProbeFinished", probe_in_flight)'
    <3>1. Running' => Balanced("WlanProbe", "WlanProbeFinished", probe_in_flight)
      BY <1>b DEF Counts, Running
    <3>2. OneIf(probe_in_flight)' = OneIf(probe_in_flight)
      BY <1>b DEF OneIf
    <3>3. Queued(lane', "WlanProbe") = Queued(lane, "WlanProbe")
      BY <1>m, <1>n
    <3>4. Answers(results', "WlanProbeFinished")
                = Answers(results, "WlanProbeFinished")
      BY <1>b, <1>n
    <3>5. QED
      BY <1>n, <1>w, <3>1, <3>2, <3>3, <3>4 DEF Balanced
  <2>4. QED
    BY <2>1, <2>2, <2>3 DEF Counts
<1>7. NothingAwaitedInVain'
  BY <1>b DEF NothingAwaitedInVain, Running
<1>8. OnlineIdle'
  BY <1>b DEF OnlineIdle, Running
<1>9. KickedFresh'
  BY <1>b DEF KickedFresh, Running
<1>10. QED
  BY <1>1, <1>2, <1>3, <1>4, <1>5, <1>6, <1>7, <1>8, <1>9

\* The worker has withdrawn the routes.
LEMMA TeardownStep == ASSUME IInv, DoTeardownRoutes PROVE IInv'
<1> USE DEF IInv, LoopKept
<1>n. \A x, t : Queued(lane, x) \in Nat /\ Answers(results, t) \in Nat
  BY QueuedFacts, AnswersFacts DEF ChannelsOK
<1>a. lane' \in Seq(Msg) /\ Len(lane') =< LaneCap
  BY Executed DEF DoTeardownRoutes
<1>m. \A x : Queued(lane', x)
            = Queued(lane, x) - (IF "TeardownRoutes" = x THEN 1 ELSE 0)
  BY Executed DEF DoTeardownRoutes
<1>o. Queued(lane', "TeardownRoutes") \in Nat
  BY Executed DEF DoTeardownRoutes
<1>b. /\ worker = "alive"
      /\ LoopKept /\ UNCHANGED <<worker, assoc_task, wlan, results,
                    kicked_since_login>>
  BY DEF DoTeardownRoutes, Do, brainVars, coreVars, flagVars, workerVars,
     osVars
<1>w. worker' = worker
  BY <1>b DEF DoTeardownRoutes
<1>d. routes' = FALSE /\ egress_error' = FALSE
  BY DEF DoTeardownRoutes
<1>1. FlagsOK'
  BY <1>b, <1>d, Zenon DEF FlagsOK
<1>2. ClocksOK'
  BY <1>b DEF ClocksOK
<1>3. DataOK'
  BY <1>b DEF DataOK
<1>4. ChannelsOK'
  BY <1>a, <1>b DEF ChannelsOK
<1>5. Quiet'
  BY <1>b DEF Quiet, Running
<1>6. Counts'
  <2>1. Running' => Balanced("Associate", "AssociateFinished", associate_in_flight)'
    <3>1. Running' => Balanced("Associate", "AssociateFinished", associate_in_flight)
      BY <1>b DEF Counts, Running
    <3>2. OneIf(associate_in_flight)' = OneIf(associate_in_flight)
      BY <1>b DEF OneIf
    <3>3. Queued(lane', "Associate") = Queued(lane, "Associate")
      BY <1>m, <1>n
    <3>4. Answers(results', "AssociateFinished")
                = Answers(results, "AssociateFinished")
      BY <1>b, <1>n
    <3>5. QED
      BY <1>n, <1>w, <3>1, <3>2, <3>3, <3>4 DEF Balanced
  <2>2. Running' => Balanced("PortalAuth", "PortalFinished", auth_in_flight)'
    <3>1. Running' => Balanced("PortalAuth", "PortalFinished", auth_in_flight)
      BY <1>b DEF Counts, Running
    <3>2. OneIf(auth_in_flight)' = OneIf(auth_in_flight)
      BY <1>b DEF OneIf
    <3>3. Queued(lane', "PortalAuth") = Queued(lane, "PortalAuth")
      BY <1>m, <1>n
    <3>4. Answers(results', "PortalFinished") = Answers(results, "PortalFinished")
      BY <1>b, <1>n
    <3>5. QED
      BY <1>n, <1>w, <3>1, <3>2, <3>3, <3>4 DEF Balanced
  <2>3. Running' => Balanced("WlanProbe", "WlanProbeFinished", probe_in_flight)'
    <3>1. Running' => Balanced("WlanProbe", "WlanProbeFinished", probe_in_flight)
      BY <1>b DEF Counts, Running
    <3>2. OneIf(probe_in_flight)' = OneIf(probe_in_flight)
      BY <1>b DEF OneIf
    <3>3. Queued(lane', "WlanProbe") = Queued(lane, "WlanProbe")
      BY <1>m, <1>n
    <3>4. Answers(results', "WlanProbeFinished")
                = Answers(results, "WlanProbeFinished")
      BY <1>b, <1>n
    <3>5. QED
      BY <1>n, <1>w, <3>1, <3>2, <3>3, <3>4 DEF Balanced
  <2>4. QED
    BY <2>1, <2>2, <2>3 DEF Counts
<1>7. NothingAwaitedInVain'
  BY <1>b DEF NothingAwaitedInVain, Running
<1>8. OnlineIdle'
  BY <1>b DEF OnlineIdle, Running
<1>9. KickedFresh'
  BY <1>b DEF KickedFresh, Running
<1>10. QED
  BY <1>1, <1>2, <1>3, <1>4, <1>5, <1>6, <1>7, <1>8, <1>9

\* The worker has logged in, or tried to.  The login was under way, so the
\* brain is not online; the answer behind any earlier verdict will take that
\* one back.
LEMMA PortalAuthStep == ASSUME IInv, DoPortalAuth PROVE IInv'
<1> USE DEF IInv, LoopKept
<1>n. \A x, t : Queued(lane, x) \in Nat /\ Answers(results, t) \in Nat
  BY QueuedFacts, AnswersFacts DEF ChannelsOK
<1>a. lane' \in Seq(Msg) /\ Len(lane') =< LaneCap
  BY Executed DEF DoPortalAuth
<1>m. \A x : Queued(lane', x) = Queued(lane, x) - (IF "PortalAuth" = x THEN 1 ELSE 0)
  BY Executed DEF DoPortalAuth
<1>o. Queued(lane', "PortalAuth") \in Nat
  BY Executed DEF DoPortalAuth
<1>b. /\ worker = "alive"
      /\ LoopKept /\ UNCHANGED <<worker, wlan, routes, assoc_task>>
  BY DEF DoPortalAuth, Do, brainVars, coreVars, flagVars, workerVars,
     osVars
<1>p. PICK ok \in {FALSE, wlan = "ready" /\ ~egress_error} :
          Report([type |-> "PortalFinished", ok |-> ok])
  BY DEF DoPortalAuth
<1>t. /\ [type |-> "PortalFinished", ok |-> ok] \in Res
      /\ [type |-> "PortalFinished", ok |-> ok].type = "PortalFinished"
  <2>1. ok \in BOOLEAN
    BY Zenon
  <2>2. QED
    BY <2>1 DEF Res
<1>r. /\ results' \in Seq(Res)
      /\ stopped => results' = results
      /\ ~stopped => results' = Append(results, [type |-> "PortalFinished", ok |-> ok])
  BY <1>p, <1>t, Reported
<1>u. \A t : ~stopped => Answers(results', t)
                    = Answers(results, t) + (IF "PortalFinished" = t THEN 1 ELSE 0)
  BY <1>p, <1>t, Reported
<1>w. worker' = worker
  BY <1>b DEF DoPortalAuth
<1>d. egress_error' = FALSE /\ kicked_since_login' \in BOOLEAN
  <2>1. /\ egress_error' = FALSE
        /\ kicked_since_login' = (kicked_since_login /\ egress_error)
    BY DEF DoPortalAuth
  <2>2. (kicked_since_login /\ egress_error) \in BOOLEAN
    BY Zenon
  <2>3. QED
    BY <2>1, <2>2, Zenon
<1>e. Running => auth_in_flight
  <2>1. Queued(lane', "PortalAuth") = Queued(lane, "PortalAuth") - 1
    BY <1>m
  <2>2. QED
    BY <1>b, <1>n, <1>o, <2>1 DEF Counts, Balanced, OneIf
<1>1. FlagsOK'
  BY <1>b, <1>d, Zenon DEF FlagsOK
<1>2. ClocksOK'
  BY <1>b DEF ClocksOK
<1>3. DataOK'
  BY <1>b DEF DataOK
<1>4. ChannelsOK'
  BY <1>a, <1>b, <1>r DEF ChannelsOK
<1>5. Quiet'
  BY <1>b, <1>r, <1>w DEF Quiet, Running
<1>6. Counts'
  <2>1. Running' => Balanced("Associate", "AssociateFinished", associate_in_flight)'
    <3>1. Running' => Balanced("Associate", "AssociateFinished", associate_in_flight)
      BY <1>b DEF Counts, Running
    <3>2. OneIf(associate_in_flight)' = OneIf(associate_in_flight)
      BY <1>b DEF OneIf
    <3>3. Queued(lane', "Associate") = Queued(lane, "Associate")
      BY <1>m, <1>n
    <3>4. ~stopped => (Answers(results', "AssociateFinished")
                = Answers(results, "AssociateFinished"))
      BY <1>u, <1>n
    <3>5. QED
      BY <1>b, <1>n, <1>o, <1>w, <3>1, <3>2, <3>3, <3>4 DEF Balanced, Running
  <2>2. Running' => Balanced("PortalAuth", "PortalFinished", auth_in_flight)'
    <3>1. Running' => Balanced("PortalAuth", "PortalFinished", auth_in_flight)
      BY <1>b DEF Counts, Running
    <3>2. OneIf(auth_in_flight)' = OneIf(auth_in_flight)
      BY <1>b DEF OneIf
    <3>3. Queued(lane', "PortalAuth") = Queued(lane, "PortalAuth") - 1
      BY <1>m, <1>n
    <3>4. ~stopped => (Answers(results', "PortalFinished")
                = Answers(results, "PortalFinished") + 1)
      BY <1>u, <1>n
    <3>5. QED
      BY <1>b, <1>n, <1>o, <1>w, <3>1, <3>2, <3>3, <3>4 DEF Balanced, Running
  <2>3. Running' => Balanced("WlanProbe", "WlanProbeFinished", probe_in_flight)'
    <3>1. Running' => Balanced("WlanProbe", "WlanProbeFinished", probe_in_flight)
      BY <1>b DEF Counts, Running
    <3>2. OneIf(probe_in_flight)' = OneIf(probe_in_flight)
      BY <1>b DEF OneIf
    <3>3. Queued(lane', "WlanProbe") = Queued(lane, "WlanProbe")
      BY <1>m, <1>n
    <3>4. ~stopped => (Answers(results', "WlanProbeFinished")
                = Answers(results, "WlanProbeFinished"))
      BY <1>u, <1>n
    <3>5. QED
      BY <1>b, <1>n, <1>o, <1>w, <3>1, <3>2, <3>3, <3>4 DEF Balanced, Running
  <2>4. QED
    BY <2>1, <2>2, <2>3 DEF Counts
<1>7. NothingAwaitedInVain'
  BY <1>b DEF NothingAwaitedInVain, Running
<1>8. OnlineIdle'
  BY <1>b DEF OnlineIdle, Running
<1>9. KickedFresh'
  <2>1. Running' => phase' # "Online"
    BY <1>b, <1>e DEF OnlineIdle, Running
  <2>2. ASSUME ~stopped, Explained(results, kicked_since_login)
        PROVE  Explained(results', kicked_since_login')
    BY <1>b, <1>d, <1>r, <1>t, <2>2, ExplainedAppend
       DEF ChannelsOK, FlagsOK
  <2>3. QED
    BY <1>b, <2>1, <2>2 DEF KickedFresh, Running
<1>10. QED
  BY <1>1, <1>2, <1>3, <1>4, <1>5, <1>6, <1>7, <1>8, <1>9

\* The worker has probed the network.
LEMMA WlanProbeStep == ASSUME IInv, DoWlanProbe PROVE IInv'
<1> USE DEF IInv, LoopKept
<1>n. \A x, t : Queued(lane, x) \in Nat /\ Answers(results, t) \in Nat
  BY QueuedFacts, AnswersFacts DEF ChannelsOK
<1>a. lane' \in Seq(Msg) /\ Len(lane') =< LaneCap
  BY Executed DEF DoWlanProbe
<1>m. \A x : Queued(lane', x) = Queued(lane, x) - (IF "WlanProbe" = x THEN 1 ELSE 0)
  BY Executed DEF DoWlanProbe
<1>o. Queued(lane', "WlanProbe") \in Nat
  BY Executed DEF DoWlanProbe
<1>b. /\ worker = "alive"
      /\ LoopKept /\ UNCHANGED <<worker, egress_error, wlan, routes,
                    assoc_task>>
  BY DEF DoWlanProbe, Do, brainVars, coreVars, flagVars, workerVars,
     osVars
<1>p. PICK v \in {"Kicked", "Other"} :
          /\ Report([type |-> "WlanProbeFinished", verdict |-> v])
          /\ kicked_since_login' = (kicked_since_login \/ v = "Kicked")
  BY DEF DoWlanProbe
<1>t. /\ [type |-> "WlanProbeFinished", verdict |-> v] \in Res
      /\ [type |-> "WlanProbeFinished", verdict |-> v].type = "WlanProbeFinished"
      /\ [type |-> "WlanProbeFinished", verdict |-> v].verdict = v
  BY DEF Res
<1>r. /\ results' \in Seq(Res)
      /\ stopped => results' = results
      /\ ~stopped => results' = Append(results, [type |-> "WlanProbeFinished", verdict |-> v])
  BY <1>p, <1>t, Reported
<1>u. \A t : ~stopped => Answers(results', t)
                    = Answers(results, t) + (IF "WlanProbeFinished" = t THEN 1 ELSE 0)
  BY <1>p, <1>t, Reported
<1>w. worker' = worker
  BY <1>b DEF DoWlanProbe
<1>d. kicked_since_login' \in BOOLEAN
  <2>1. (kicked_since_login \/ v = "Kicked") \in BOOLEAN
    BY Zenon
  <2>2. QED
    BY <1>p, <2>1, Zenon
<1>1. FlagsOK'
  BY <1>b, <1>d, Zenon DEF FlagsOK
<1>2. ClocksOK'
  BY <1>b DEF ClocksOK
<1>3. DataOK'
  BY <1>b DEF DataOK
<1>4. ChannelsOK'
  BY <1>a, <1>b, <1>r DEF ChannelsOK
<1>5. Quiet'
  BY <1>b, <1>r, <1>w DEF Quiet, Running
<1>6. Counts'
  <2>1. Running' => Balanced("Associate", "AssociateFinished", associate_in_flight)'
    <3>1. Running' => Balanced("Associate", "AssociateFinished", associate_in_flight)
      BY <1>b DEF Counts, Running
    <3>2. OneIf(associate_in_flight)' = OneIf(associate_in_flight)
      BY <1>b DEF OneIf
    <3>3. Queued(lane', "Associate") = Queued(lane, "Associate")
      BY <1>m, <1>n
    <3>4. ~stopped => (Answers(results', "AssociateFinished")
                = Answers(results, "AssociateFinished"))
      BY <1>u, <1>n
    <3>5. QED
      BY <1>b, <1>n, <1>o, <1>w, <3>1, <3>2, <3>3, <3>4 DEF Balanced, Running
  <2>2. Running' => Balanced("PortalAuth", "PortalFinished", auth_in_flight)'
    <3>1. Running' => Balanced("PortalAuth", "PortalFinished", auth_in_flight)
      BY <1>b DEF Counts, Running
    <3>2. OneIf(auth_in_flight)' = OneIf(auth_in_flight)
      BY <1>b DEF OneIf
    <3>3. Queued(lane', "PortalAuth") = Queued(lane, "PortalAuth")
      BY <1>m, <1>n
    <3>4. ~stopped => (Answers(results', "PortalFinished")
                = Answers(results, "PortalFinished"))
      BY <1>u, <1>n
    <3>5. QED
      BY <1>b, <1>n, <1>o, <1>w, <3>1, <3>2, <3>3, <3>4 DEF Balanced, Running
  <2>3. Running' => Balanced("WlanProbe", "WlanProbeFinished", probe_in_flight)'
    <3>1. Running' => Balanced("WlanProbe", "WlanProbeFinished", probe_in_flight)
      BY <1>b DEF Counts, Running
    <3>2. OneIf(probe_in_flight)' = OneIf(probe_in_flight)
      BY <1>b DEF OneIf
    <3>3. Queued(lane', "WlanProbe") = Queued(lane, "WlanProbe") - 1
      BY <1>m, <1>n
    <3>4. ~stopped => (Answers(results', "WlanProbeFinished")
                = Answers(results, "WlanProbeFinished") + 1)
      BY <1>u, <1>n
    <3>5. QED
      BY <1>b, <1>n, <1>o, <1>w, <3>1, <3>2, <3>3, <3>4 DEF Balanced, Running
  <2>4. QED
    BY <2>1, <2>2, <2>3 DEF Counts
<1>7. NothingAwaitedInVain'
  BY <1>b DEF NothingAwaitedInVain, Running
<1>8. OnlineIdle'
  BY <1>b DEF OnlineIdle, Running
<1>9. KickedFresh'
  <2>1. kicked_since_login => kicked_since_login'
    BY <1>p
  <2>2. v = "Kicked" => kicked_since_login'
    BY <1>p
  <2>3. ASSUME ~stopped, Explained(results, kicked_since_login)
        PROVE  Explained(results', kicked_since_login')
    BY <1>b, <1>d, <1>r, <1>t, <2>1, <2>2, <2>3, ExplainedAppend
       DEF ChannelsOK, FlagsOK
  <2>4. QED
    BY <1>b, <2>1, <2>3 DEF KickedFresh, Running
<1>10. QED
  BY <1>1, <1>2, <1>3, <1>4, <1>5, <1>6, <1>7, <1>8, <1>9

\* The worker shuts down and is gone.
LEMMA ShutdownStep == ASSUME IInv, DoShutdown PROVE IInv'
<1> USE DEF IInv, LoopKept
<1>a. lane' \in Seq(Msg) /\ Len(lane') =< LaneCap
  BY Executed DEF DoShutdown
<1>b. /\ worker' = "exited" /\ routes' = FALSE /\ egress_error' = FALSE
      /\ LoopKept /\ UNCHANGED <<results, assoc_task, kicked_since_login>>
  BY DEF DoShutdown, Do, brainVars, coreVars, flagVars
<1>d. wlan' \in WlanState
  BY DEF DoShutdown, DataOK, WlanState
<1>1. FlagsOK'
  BY <1>b, Zenon DEF FlagsOK
<1>2. ClocksOK'
  BY <1>b DEF ClocksOK
<1>3. DataOK'
  BY <1>b, <1>d DEF DataOK
<1>4. ChannelsOK'
  BY <1>a, <1>b DEF ChannelsOK
<1>5. Quiet'
  BY <1>b DEF Quiet, Running
<1>6. Counts'
  BY <1>b DEF Counts, Balanced, Running
<1>7. NothingAwaitedInVain'
  BY <1>b DEF NothingAwaitedInVain, Running
<1>8. OnlineIdle'
  BY <1>b DEF OnlineIdle, Running
<1>9. KickedFresh'
  BY <1>b DEF KickedFresh, Running
<1>10. QED
  BY <1>1, <1>2, <1>3, <1>4, <1>5, <1>6, <1>7, <1>8, <1>9

\* The worker panics: what is on the lane is lost with it.
LEMMA WorkerDiesStep == ASSUME IInv, WorkerDies PROVE IInv'
<1> USE DEF IInv, LoopKept
<1>a. <<>> \in Seq(Msg) /\ Len(<<>>) = 0 /\ LaneCap \in Nat
  BY TakeoverAssumption
<1>b. /\ worker' = "dead" /\ lane' = <<>> /\ routes' = FALSE /\ egress_error' = FALSE
      /\ LoopKept /\ UNCHANGED <<results, wlan, assoc_task,
                    kicked_since_login>>
  BY DEF WorkerDies, brainVars, coreVars, flagVars
<1>1. FlagsOK'
  BY <1>b, Zenon DEF FlagsOK
<1>2. ClocksOK'
  BY <1>b DEF ClocksOK
<1>3. DataOK'
  BY <1>b DEF DataOK
<1>4. ChannelsOK'
  BY <1>a, <1>b DEF ChannelsOK
<1>5. Quiet'
  BY <1>b DEF Quiet, Running
<1>6. Counts'
  BY <1>b DEF Counts, Balanced, Running
<1>7. NothingAwaitedInVain'
  BY <1>b DEF NothingAwaitedInVain, Running
<1>8. OnlineIdle'
  BY <1>b DEF OnlineIdle, Running
<1>9. KickedFresh'
  BY <1>b DEF KickedFresh, Running
<1>10. QED
  BY <1>1, <1>2, <1>3, <1>4, <1>5, <1>6, <1>7, <1>8, <1>9

\* After the stop the worker gives a waiting call up.
LEMMA AbandonStep == ASSUME IInv, Abandon PROVE IInv'
<1> USE DEF IInv, LoopKept
<1>a. lane' \in Seq(Msg) /\ Len(lane') =< LaneCap
  BY Executed DEF Abandon
<1>b. /\ stopped
      /\ LoopKept /\ UNCHANGED <<results, worker, egress_error, wlan, routes,
                    kicked_since_login>>
  BY DEF Abandon, Do, brainVars, coreVars, flagVars,
     workerVars
<1>c. assoc_task' \in BOOLEAN
  BY Zenon DEF Abandon, FlagsOK
<1>d. ~Running'
  BY <1>b DEF Running
<1>1. FlagsOK'
  BY <1>b, <1>c, Zenon DEF FlagsOK
<1>2. ClocksOK'
  BY <1>b DEF ClocksOK
<1>3. DataOK'
  BY <1>b DEF DataOK
<1>4. ChannelsOK'
  BY <1>a, <1>b DEF ChannelsOK
<1>5. Quiet'
  BY <1>b DEF Quiet, Running
<1>6. Counts'
  BY <1>d DEF Counts
<1>7. NothingAwaitedInVain'
  BY <1>d DEF NothingAwaitedInVain
<1>8. OnlineIdle'
  BY <1>d DEF OnlineIdle
<1>9. KickedFresh'
  BY <1>d DEF KickedFresh
<1>10. QED
  BY <1>1, <1>2, <1>3, <1>4, <1>5, <1>6, <1>7, <1>8, <1>9

\* No step leads out of the invariant.
LEMMA StepInv == ASSUME IInv, [Next]_vars PROVE IInv'
<1>1. CASE OnResult
  BY <1>1, AssociateFinishedStep, PortalFinishedStep, ProbeFinishedStep,
     WirelessDiedStep DEF OnResult
<1>2. CASE Worker
  BY <1>2, AssociateStep, DisassociateStep, AcquireStep, PortalAuthStep,
     WlanProbeStep, TeardownStep, ShutdownStep DEF Worker
<1>3. CASE WlanComesUp \/ WlanDrops \/ SetMode \/ LateAssociation
  BY <1>3, QuietStep
<1>4. CASE Done \/ UNCHANGED vars
  BY <1>4, QuietStep DEF Done
<1>5. QED
  BY <1>1, <1>2, <1>3, <1>4, BeatStep, SampledStep, StopStep, AbandonStep,
     WorkerDiesStep DEF Next

-----------------------------------------------------------------------------
(***************************************************************************)
(* The theorems                                                            *)
(***************************************************************************)
\* The invariant holds throughout every behaviour.
THEOREM TakeoverInvariance == Spec => []IInv
<1>1. Init => IInv
  BY InitInv
<1>2. IInv /\ [Next]_vars => IInv'
  BY StepInv
<1>3. QED
  BY <1>1, <1>2, PTL DEF Spec

\* What is counted here is what the specification counts.
LEMMA SameCounts ==
    ASSUME ChannelsOK
    PROVE  /\ \A x : CountIn(lane, x) = Queued(lane, x)
           /\ \A t : ResultsOf(t) = Answers(results, t)
<1>1. ASSUME NEW x
      PROVE  {i \in DOMAIN lane : lane[i] = x} = Hits(lane, {x})
  BY DEF Hits
<1>2. ASSUME NEW t
      PROVE  {i \in DOMAIN results : results[i].type = t} = Hits(results, Kind(t))
  <2>1. \A i \in DOMAIN results : results[i] \in Res
    BY DEF ChannelsOK
  <2>2. QED
    BY <2>1 DEF Hits, Kind
<1>3. QED
  BY <1>1, <1>2 DEF CountIn, ResultsOf, Queued, Answers

\* Once the wireless half is given up, no flag is set again.
GivenUp == ~brain => ~associate_in_flight /\ ~auth_in_flight /\ ~probe_in_flight

\* handle_wireless_died clears the flags, and only a living brain sets them.
LEMMA NoFlagAfterDeath == Spec => []GivenUp
<1>1. Init => GivenUp
  BY DEF Init, GivenUp
<1>2. ASSUME GivenUp, [Next]_vars PROVE GivenUp'
  <2>1. CASE OnWirelessSampled
    BY <2>1 DEF OnWirelessSampled, GivenUp
  <2>2. CASE OnAssociateFinished \/ OnPortalFinished \/ OnProbeFinished
    BY <2>2 DEF OnAssociateFinished, OnPortalFinished, OnProbeFinished, Take, GivenUp
  <2>3. CASE OnWirelessDied \/ OnStop
    BY <2>3 DEF OnWirelessDied, OnStop, SetBack, GivenUp
  <2>4. CASE Beat \/ SetMode
    BY <1>2, <2>4 DEF Beat, SetMode, coreVars, flagVars, GivenUp
  <2>5. CASE Worker \/ Abandon
    BY <1>2, <2>5 DEF Worker, Abandon, DoAssociate, DoDisassociate, DoAcquire,
       DoPortalAuth, DoWlanProbe, DoTeardownRoutes, DoShutdown, Do, brainVars,
       coreVars, flagVars, GivenUp
  <2>6. CASE WlanComesUp \/ WlanDrops \/ LateAssociation \/ WorkerDies
    BY <1>2, <2>6 DEF WlanComesUp, WlanDrops, World, LateAssociation, WorkerDies,
       brainVars, coreVars, flagVars, GivenUp
  <2>7. CASE Done \/ UNCHANGED vars
    BY <1>2, <2>7 DEF Done, vars, brainVars, coreVars, flagVars, GivenUp
  <2>8. QED
    BY <1>2, <2>1, <2>2, <2>3, <2>4, <2>5, <2>6, <2>7 DEF Next, OnResult
<1>3. QED
  BY <1>1, <1>2, PTL DEF Spec

\* Each in-flight flag of the supervisor stands for exactly one effect on the
\* lane or one result on its way back: nothing is issued twice, and nothing is
\* lost with its flag left set; of a worker that died only awaited results are
\* left, and nothing once its death is known.
THEOREM FlagsStandForWork == Spec => []FlagsMatchWork
<1>1. ASSUME IInv, GivenUp PROVE FlagsMatchWork
  <2>1. /\ \A x : CountIn(lane, x) = Queued(lane, x)
        /\ \A t : ResultsOf(t) = Answers(results, t)
    BY <1>1, SameCounts DEF IInv
  <2>2. ~brain => results = <<>>
    BY <1>1 DEF IInv, Quiet, Running
  <2>3. QED
    BY <1>1, <2>1, <2>2 DEF IInv, Counts, Balanced, GivenUp, FlagsMatchWork
<1>2. QED
  BY <1>1, NoFlagAfterDeath, TakeoverInvariance, PTL

\* The brain never waits for something that is not coming: neither for a login
\* nor for an association.
THEOREM BrainNeverStuck == Spec => []NothingAwaitedInVain
<1>1. IInv => NothingAwaitedInVain
  BY DEF IInv
<1>2. QED
  BY <1>1, TakeoverInvariance, PTL

\* Only a probe made after the last login sends an online brain back to
\* logging in.
THEOREM NoLoginOnOldVerdict == Spec => NoStaleReauth
<1>1. ASSUME IInv, [Next]_vars, phase = "Online", phase' = "Authing"
      PROVE  kicked_since_login
  <2>1. OnWirelessSampled
    <3>1. phase' # phase
      BY <1>1
    <3>2. ~OnResult
      BY <1>1, <3>1 DEF OnResult, OnAssociateFinished, OnPortalFinished,
         OnProbeFinished, OnWirelessDied, AuthOk, AuthFailed, SetBack
    <3>3. ~Worker /\ ~Abandon
      BY <3>1 DEF Worker, Abandon, DoAssociate, DoDisassociate, DoAcquire,
         DoPortalAuth, DoWlanProbe, DoTeardownRoutes, DoShutdown, Do, brainVars
    <3>4. /\ ~WlanComesUp /\ ~WlanDrops /\ ~LateAssociation /\ ~WorkerDies
          /\ ~SetMode /\ ~Beat /\ ~Done /\ ~(UNCHANGED vars)
      BY <3>1 DEF WlanComesUp, WlanDrops, World, LateAssociation, WorkerDies,
         SetMode, Beat, Done, vars, brainVars
    <3>5. ~OnStop
      BY <1>1 DEF OnStop, SetBack
    <3>6. QED
      BY <1>1, <3>2, <3>3, <3>4, <3>5 DEF Next
  <2>2. SampleTaken /\ verdict = "Kicked"
    <3>1. ~StartJoin /\ ~GoOn /\ ~JoinOrTimeOut /\ ~ProbeNow /\ ~Release
      BY <1>1 DEF StartJoin, GoOn, JoinOrTimeOut, ProbeNow, Release
    <3>2. QED
      BY <1>1, <2>1, <3>1, Outcomes
  <2>3. QED
    BY <1>1, <2>2 DEF IInv, KickedFresh, SampleTaken
<1>2. IInv /\ [Next]_vars => [phase = "Online" /\ phase' = "Authing"
                                 => kicked_since_login]_vars
  BY <1>1
<1>3. QED
  BY <1>2, TakeoverInvariance, PTL DEF Spec, NoStaleReauth

\* Every result is of one of three kinds: their numbers bound the length.
LEMMA ResultsByKind ==
    ASSUME NEW s \in Seq(Res)
    PROVE  Len(s) =< Answers(s, "AssociateFinished") + Answers(s, "PortalFinished")
                        + Answers(s, "WlanProbeFinished")
<1> DEFINE A == Hits(s, Kind("AssociateFinished"))
           P == Hits(s, Kind("PortalFinished"))
           W == Hits(s, Kind("WlanProbeFinished"))
<1>1. /\ IsFiniteSet(A) /\ IsFiniteSet(P) /\ IsFiniteSet(W)
      /\ Cardinality(A) \in Nat /\ Cardinality(P) \in Nat /\ Cardinality(W) \in Nat
  BY HitsFinite
<1>2. 1..Len(s) = A \cup P \cup W
  <2>1. DOMAIN s = 1..Len(s) /\ \A i \in DOMAIN s : s[i] \in Res
    OBVIOUS
  <2>2. \A i \in DOMAIN s : \/ s[i].type = "AssociateFinished"
                            \/ s[i].type = "PortalFinished"
                            \/ s[i].type = "WlanProbeFinished"
    BY <2>1, Kinds
  <2>3. QED
    BY <2>1, <2>2 DEF Hits, Kind
<1> HIDE DEF A, P, W
<1>3. /\ IsFiniteSet(A \cup P) /\ Cardinality(A \cup P) \in Nat
      /\ Cardinality(A \cup P) =< Cardinality(A) + Cardinality(P)
  <2>1. /\ IsFiniteSet(A \cup P) /\ IsFiniteSet(A \cap P)
        /\ Cardinality(A \cup P) = Cardinality(A) + Cardinality(P) - Cardinality(A \cap P)
    BY <1>1, FS_Union, FS_Intersection
  <2>2. Cardinality(A \cup P) \in Nat /\ Cardinality(A \cap P) \in Nat
    BY <2>1, FS_CardinalityType
  <2>3. QED
    BY <1>1, <2>1, <2>2
<1>4. Cardinality(A \cup P \cup W) =< Cardinality(A \cup P) + Cardinality(W)
  <2>1. /\ IsFiniteSet((A \cup P) \cap W) /\ IsFiniteSet(A \cup P \cup W)
        /\ Cardinality(A \cup P \cup W)
              = Cardinality(A \cup P) + Cardinality(W) - Cardinality((A \cup P) \cap W)
    BY <1>1, <1>3, FS_Union, FS_Intersection
  <2>2. Cardinality((A \cup P) \cap W) \in Nat /\ Cardinality(A \cup P \cup W) \in Nat
    BY <2>1, FS_CardinalityType
  <2>3. QED
    BY <1>1, <1>3, <2>1, <2>2
<1>5. Cardinality(1..Len(s)) = Len(s) /\ Len(s) \in Nat
  BY FS_Interval
<1>6. Len(s) =< Cardinality(A) + Cardinality(P) + Cardinality(W)
  <2>1. Len(s) = Cardinality(A \cup P \cup W)
    BY <1>2, <1>5
  <2>2. Len(s) =< Cardinality(A \cup P) + Cardinality(W) /\ Len(s) \in Nat
    BY <1>4, <1>5, <2>1
  <2>3. QED
    BY <1>1, <1>3, <2>2
<1>7. QED
  BY <1>6 DEF Answers, A, P, W

\* Types; the lane keeps to its capacity, at most three results are under way
\* and a login waits no longer than its retry delay.
THEOREM WithinBounds == Spec => []TypeOK
<1>1. ASSUME IInv PROVE TypeOK
  <2>1. FlagsOK /\ ClocksOK /\ DataOK /\ ChannelsOK /\ Quiet /\ Counts
    BY <1>1 DEF IInv
  <2>2. \A f \in {brain, auth_busy, associate_in_flight, auth_in_flight,
                  probe_in_flight, stopped, beat_due, egress_error, routes,
                  assoc_task, wired, steady, kicked_since_login} :
           f \in BOOLEAN
    BY <2>1, Zenon DEF FlagsOK
  <2>3. results \in Seq(Res) /\ \A t : Answers(results, t) \in Nat
    BY <2>1, AnswersFacts DEF ChannelsOK
  <2>4. ASSUME Running
        PROVE  /\ Answers(results, "AssociateFinished") =< 1
               /\ Answers(results, "PortalFinished") =< 1
               /\ Answers(results, "WlanProbeFinished") =< 1
    BY <2>1, <2>3, <2>4 DEF Counts, Balanced, OneIf
  <2>5. Len(results) =< 3
    <3>1. CASE Running
      <4>1. /\ Len(results) \in Nat
            /\ Len(results) =< Answers(results, "AssociateFinished")
                  + Answers(results, "PortalFinished")
                  + Answers(results, "WlanProbeFinished")
        BY <2>3, ResultsByKind
      <4>2. QED
        BY <2>3, <2>4, <3>1, <4>1
    <3>2. CASE ~Running
      BY <2>1, <3>2 DEF Quiet
    <3>3. QED
      BY <3>1, <3>2
  <2>6. QED
    BY <2>1, <2>2, <2>5 DEF TypeOK, ClocksOK, DataOK, ChannelsOK
<1>2. QED
  BY <1>1, TakeoverInvariance, PTL
============================================================================
