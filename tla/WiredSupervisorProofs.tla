----------------------- MODULE WiredSupervisorProofs -----------------------
(***************************************************************************)
(* The wired control loop never stalls, stays in step with its watchdog,   *)
(* which always has the newest reading of the cable, honours the delays    *)
(* that the watchdog asks for, steps on a fresh link sample only and       *)
(* throttles its toasts: for all timing constants, wherever the wireless   *)
(* half's sample falls, and in any                                         *)
(* order of commands, heartbeats, cable changes and slow effects.          *)
(***************************************************************************)
EXTENDS WiredSupervisor, SequenceTheorems, TLAPS

Sample == Effect("SampleLink")
Ask    == Effect("RequestRedial")
Step   == Effect("StepWatchdog")
Hangup == Effect("Hangup")

\* The wireless half's sample and its result, and what is left of the lists
\* without them: the wired effects and the wired event at hand.
AskWlan == Effect("SampleWireless")
Wlan    == Event("WirelessSampled")
WiredList(x) == IF x = <<AskWlan>> THEN <<>>
                ELSE IF x = <<Sample, AskWlan>> THEN <<Sample>> ELSE x
WiredQueue(q) == IF q = <<>> THEN q
                 ELSE IF Head(q) = Wlan THEN Tail(q)
                 ELSE IF Tail(q) = <<Wlan>> THEN <<Head(q)>> ELSE q
wt == WiredList(todo)
wq == WiredQueue(queue)

\* The wired event at hand, and the first wired effect, are of a kind.
Ev(t) == wq # <<>> /\ Head(wq).type = t
Ef(t) == wt # <<>> /\ Head(wt).type = t

\* What the shell may have at hand: the effects that end in a step of the
\* watchdog, the other ones, and the events.
StepList ==
    {<<Step>>, <<Ask, Step>>}
    \cup {<<SetLink(l), Step>> : l \in Link}
    \cup {<<SetLink(l), Ask, Step>> : l \in Link}
OtherList ==
    {<<Sample>>, <<Hangup>>} \cup {<<SetLink(l)>> : l \in Link}
    \cup {<<Notify(k)>> : k \in ToastKey}
Events ==
    {Event(t) : t \in {"Started", "Wake", "Redial", "Stop"}}
    \cup [type : {"Heartbeat"}, status : {"Running", "Error"}]
    \cup [type : {"LinkSampled"}, up : Link]
    \cup [type : {"WatchdogStepped"}, status : Status, delay : Nat,
          link_down : BOOLEAN]
    \cup [type : {"NotifyResult"}, key : ToastKey, delivered : BOOLEAN]

\* One wired thing at hand at a time: an event, or the effects of one.
Shape ==
    \/ wq = <<>> /\ wt = <<>>
    \/ wt = <<>> /\ wq # <<>> /\ Head(wq) \in Events /\ wq = <<Head(wq)>>
    \/ wq = <<>> /\ wt \in StepList \cup OtherList

\* Where the wireless sample stands among the wired things: nowhere; asked for
\* after the link's; read after the link's; its result before the effects of
\* the link's, or before the answer to a step.
Mixed(q, x) ==
    \/ WiredQueue(q) = q /\ WiredList(x) = x
    \/ q = <<>> /\ x \in {<<AskWlan>>, <<Sample, AskWlan>>}
    \/ \E e \in Events : /\ e.type = "LinkSampled"
                         /\ \/ q = <<e>> /\ x = <<AskWlan>>
                            \/ q = <<e, Wlan>> /\ x = <<>>
    \/ /\ q = <<Wlan>>
       /\ x \in {<<>>} \cup StepList \cup {<<SetLink(l)>> : l \in Link}
    \/ \E e \in Events : /\ e.type = "WatchdogStepped"
                         /\ q = <<Wlan, e>> /\ x = <<>>
Between == Mixed(queue, todo)

FlagsOK ==
    /\ started \in BOOLEAN /\ stopped \in BOOLEAN /\ link_sample_seen \in BOOLEAN
    /\ sample_in_flight \in BOOLEAN /\ step_pending \in BOOLEAN
    /\ wd_redial \in BOOLEAN /\ fresh \in BOOLEAN
DataOK ==
    /\ eth_link \in Link /\ wd_link \in Link /\ cable \in {"Up", "Down"}
    /\ watchdog_deadline \in Nat \cup {None} /\ link_poll_at \in -1..LinkPoll
    /\ status \in Status /\ wd_status \in Status
    /\ failing_since \in -1..ToastAfter /\ dials_failing \in -1..ToastAfter
    /\ rest \in Nat
    /\ delivered \in [ToastKey -> 0..Throttle]
    /\ toast_rest \in [ToastKey -> 0..Throttle] /\ seen \in Link

\* The loop begins with Started, and polls the link from then on.
Begun ==
    /\ ~started <=> Ev("Started")
    /\ ~started => rest = 0
    /\ started => link_poll_at \in 0..LinkPoll

\* A sample is in flight exactly while it is asked for or its answer is at
\* hand, and a step waits only for a sample in flight.
Sampling ==
    /\ sample_in_flight <=> Ef("SampleLink") \/ Ev("LinkSampled")
    /\ step_pending => sample_in_flight

\* The next step of the watchdog has its deadline, waits for a sample, is
\* being executed, or has its answer at hand.
Armed ==
    started => \/ watchdog_deadline # None \/ step_pending
               \/ wt \in StepList \/ Ev("WatchdogStepped")

\* A step that waits for a sample or is being executed has no deadline.
OneStep == step_pending \/ wt \in StepList => watchdog_deadline = None

\* The reducer knows the watchdog's state, up to an answer at hand, and the
\* watchdog the link's, up to an effect at hand; a redial that was asked for
\* is about to be executed.
Agreed ==
    /\ IF Ev("WatchdogStepped") THEN Head(wq).status = wd_status
       ELSE status = wd_status
    /\ IF Ef("SetWatchdogLink") THEN Head(wt).up = eth_link
       ELSE wd_link = eth_link
    /\ wd_redial => wt = <<Step>>

\* The rest a step asked for has passed when its deadline has, and when a step
\* waits for a sample; a step that nobody asked for comes with both.
Rested ==
    /\ watchdog_deadline # None => rest =< watchdog_deadline
    /\ Ev("WatchdogStepped") => rest = Head(wq).delay
    /\ step_pending => rest = 0
    /\ Ev("LinkSampled") => fresh
    /\ wt = <<Step>> /\ ~wd_redial => rest = 0 /\ fresh
    /\ \A l \in Link : wt = <<SetLink(l), Step>> => rest = 0 /\ fresh

\* A toast is in flight exactly while it is being shown or its result is at
\* hand; the ledger's window covers the time in which none may follow.
Toasts ==
    /\ in_flight = IF Ef("Notify") THEN {Head(wt).key}
                   ELSE IF Ev("NotifyResult") THEN {Head(wq).key} ELSE {}
    /\ \A k \in ToastKey :
          \/ toast_rest[k] =< delivered[k]
          \/ Ev("NotifyResult") /\ Head(wq).key = k /\ Head(wq).delivered
    /\ Ef("Notify") => toast_rest[Head(wt).key] = 0

\* The newest reading that succeeded is the known link state, or at hand; until
\* the first answer nothing is known.
Seen ==
    /\ IF Ev("LinkSampled") /\ Head(wq).up # "None" THEN seen = Head(wq).up
       ELSE eth_link = seen
    /\ ~link_sample_seen => eth_link = "None"

\* The inductive invariant.
IInv == /\ Shape /\ Between /\ FlagsOK /\ DataOK /\ Begun /\ Sampling /\ Armed
        /\ Agreed /\ OneStep /\ Rested /\ Toasts /\ Seen

-----------------------------------------------------------------------------
(***************************************************************************)
(* Events and effects                                                      *)
(***************************************************************************)
\* What is first and what is left of a short sequence: of one entry.
LEMMA Seq1 ==
    ASSUME NEW a
    PROVE  /\ <<a>> # <<>> /\ Head(<<a>>) = a /\ Tail(<<a>>) = <<>>
           /\ Append(<<>>, a) = <<a>>
OBVIOUS

\* Two entries.
LEMMA Seq2 ==
    ASSUME NEW a, NEW b
    PROVE  <<a, b>> # <<>> /\ Head(<<a, b>>) = a /\ Tail(<<a, b>>) = <<b>>
OBVIOUS

\* Three entries.
LEMMA Seq3 ==
    ASSUME NEW a, NEW b, NEW d
    PROVE  /\ <<a, b, d>> # <<>> /\ Head(<<a, b, d>>) = a
           /\ Tail(<<a, b, d>>) = <<b, d>>
OBVIOUS

\* Lists put together entry by entry: two entries.
LEMMA Concat2 ==
    ASSUME NEW x, NEW y
    PROVE  <<x>> \o <<y>> = <<x, y>>
<1> DEFINE S == {x, y}
           s == <<x>> \o <<y>>
           t == <<x, y>>
<1>1. <<x>> \in Seq(S) /\ <<y>> \in Seq(S) /\ t \in Seq(S)
  OBVIOUS
<1>2. s \in Seq(S) /\ Len(s) = 2 /\ s[1] = x /\ s[2] = y
  BY <1>1
<1>3. Len(t) = 2 /\ t[1] = x /\ t[2] = y
  OBVIOUS
<1>4. \A i \in 1..Len(s) : s[i] = t[i]
  <2> HIDE DEF s, t
  <2> QED
    BY <1>2, <1>3
<1> HIDE DEF s, t, S
<1>5. s = t
  BY <1>1, <1>2, <1>3, <1>4, SeqEqual
<1>6. QED
  BY <1>5 DEF s, t

\* An entry behind another.
LEMMA Append2 ==
    ASSUME NEW x, NEW y
    PROVE  Append(<<x>>, y) = <<x, y>>
<1> DEFINE S == {x, y}
           s == Append(<<x>>, y)
           t == <<x, y>>
<1>1. <<x>> \in Seq(S) /\ y \in S /\ t \in Seq(S)
  OBVIOUS
<1>2. s \in Seq(S) /\ Len(s) = 2 /\ s[1] = x /\ s[2] = y
  BY <1>1
<1>3. Len(t) = 2 /\ t[1] = x /\ t[2] = y
  OBVIOUS
<1>4. \A i \in 1..Len(s) : s[i] = t[i]
  <2> HIDE DEF s, t
  <2> QED
    BY <1>2, <1>3
<1> HIDE DEF s, t, S
<1>5. s = t
  BY <1>1, <1>2, <1>3, <1>4, SeqEqual
<1>6. QED
  BY <1>5 DEF s, t

\* The same for three.
LEMMA Concat3 ==
    ASSUME NEW x, NEW y, NEW z
    PROVE  <<x, y>> \o <<z>> = <<x, y, z>>
<1> DEFINE S == {x, y, z}
           s == <<x, y>> \o <<z>>
           t == <<x, y, z>>
<1>1. <<x, y>> \in Seq(S) /\ <<z>> \in Seq(S) /\ t \in Seq(S)
  OBVIOUS
<1>2. s \in Seq(S) /\ Len(s) = 3 /\ s[1] = x /\ s[2] = y /\ s[3] = z
  BY <1>1
<1>3. Len(t) = 3 /\ t[1] = x /\ t[2] = y /\ t[3] = z
  OBVIOUS
<1>4. \A i \in 1..Len(s) : s[i] = t[i]
  <2> HIDE DEF s, t
  <2> QED
    BY <1>2, <1>3
<1> HIDE DEF s, t, S
<1>5. s = t
  BY <1>1, <1>2, <1>3, <1>4, SeqEqual
<1>6. QED
  BY <1>5 DEF s, t

\* The kinds of the effects.
LEMMA Kinds ==
    /\ Sample.type = "SampleLink" /\ Ask.type = "RequestRedial"
    /\ Step.type = "StepWatchdog" /\ Hangup.type = "Hangup"
    /\ AskWlan.type = "SampleWireless" /\ Wlan.type = "WirelessSampled"
    /\ \A l \in Link : SetLink(l).type = "SetWatchdogLink" /\ SetLink(l).up = l
    /\ \A k \in ToastKey : Notify(k).type = "Notify" /\ Notify(k).key = k
BY DEF Sample, Ask, Step, Hangup, AskWlan, Wlan, Event, Effect, SetLink, Notify

\* With nothing to execute, no step is about to be executed.
LEMMA EmptyList == <<>> \notin StepList
BY Seq1, Seq2, Seq3 DEF StepList

\* How a list that ends in a step may begin.
LEMMA StepHeads ==
    ASSUME NEW t \in StepList
    PROVE  /\ t # <<>>
           /\ Head(t).type \in {"StepWatchdog", "RequestRedial", "SetWatchdogLink"}
BY Seq1, Seq2, Seq3, Kinds DEF StepList

\* The first effect says which list it is and what is left of it.
LEMMA Lists ==
    ASSUME wt \in StepList \cup OtherList
    PROVE  /\ Ef("SampleLink") => wt = <<Sample>> /\ Tail(wt) = <<>>
           /\ Ef("SetWatchdogLink") =>
                 /\ Head(wt).up \in Link
                 /\ \/ wt = <<Head(wt)>> /\ Tail(wt) = <<>>
                    \/ wt = <<SetLink(Head(wt).up), Step>> /\ Tail(wt) = <<Step>>
                    \/ wt = <<SetLink(Head(wt).up), Ask, Step>>
                       /\ Tail(wt) = <<Ask, Step>>
           /\ Ef("RequestRedial") => wt = <<Ask, Step>> /\ Tail(wt) = <<Step>>
           /\ Ef("StepWatchdog") => wt = <<Step>> /\ Tail(wt) = <<>>
           /\ Ef("Notify") => /\ Head(wt).key \in ToastKey
                              /\ wt = <<Notify(Head(wt).key)>> /\ Tail(wt) = <<>>
           /\ Ef("Hangup") => wt = <<Hangup>> /\ Tail(wt) = <<>>
<1>1. CASE wt = <<Step>>
  <2>1. Head(wt).type = "StepWatchdog" /\ Tail(wt) = <<>>
    BY <1>1, Seq1, Kinds
  <2>2. QED
    BY <1>1, <2>1 DEF Ef
<1>2. CASE wt = <<Ask, Step>>
  <2>1. Head(wt).type = "RequestRedial" /\ Tail(wt) = <<Step>>
    BY <1>2, Seq2, Kinds
  <2>2. QED
    BY <1>2, <2>1 DEF Ef
<1>3. CASE wt = <<Sample>>
  <2>1. Head(wt).type = "SampleLink" /\ Tail(wt) = <<>>
    BY <1>3, Seq1, Kinds
  <2>2. QED
    BY <1>3, <2>1 DEF Ef
<1>4. CASE wt = <<Hangup>>
  <2>1. Head(wt).type = "Hangup" /\ Tail(wt) = <<>>
    BY <1>4, Seq1, Kinds
  <2>2. QED
    BY <1>4, <2>1 DEF Ef
<1>5. ASSUME NEW l \in Link,
             \/ wt = <<SetLink(l)>>
             \/ wt = <<SetLink(l), Step>>
             \/ wt = <<SetLink(l), Ask, Step>>
      PROVE  /\ Head(wt).type = "SetWatchdogLink" /\ Head(wt).up = l
             /\ \/ wt = <<Head(wt)>> /\ Tail(wt) = <<>>
                \/ wt = <<SetLink(l), Step>> /\ Tail(wt) = <<Step>>
                \/ wt = <<SetLink(l), Ask, Step>> /\ Tail(wt) = <<Ask, Step>>
  <2>1. CASE wt = <<SetLink(l)>>
    BY <2>1, Seq1, Kinds
  <2>2. CASE wt = <<SetLink(l), Step>>
    BY <2>2, Seq2, Kinds
  <2>3. CASE wt = <<SetLink(l), Ask, Step>>
    BY <2>3, Seq3, Kinds
  <2>4. QED
    BY <1>5, <2>1, <2>2, <2>3
<1>6. ASSUME NEW k \in ToastKey, wt = <<Notify(k)>>
      PROVE  Head(wt).type = "Notify" /\ Head(wt).key = k /\ Tail(wt) = <<>>
  BY <1>6, Seq1, Kinds
<1>7. CASE \E l \in Link : \/ wt = <<SetLink(l)>>
                           \/ wt = <<SetLink(l), Step>>
                           \/ wt = <<SetLink(l), Ask, Step>>
  BY <1>5, <1>7 DEF Ef
<1>8. CASE \E k \in ToastKey : wt = <<Notify(k)>>
  BY <1>6, <1>8 DEF Ef
<1>9. QED
  BY <1>1, <1>2, <1>3, <1>4, <1>7, <1>8 DEF StepList, OtherList

\* With an event at hand there is no effect, with an effect no event.
LEMMA AtHand ==
    ASSUME Shape
    PROVE  /\ wq # <<>> =>
                 wt = <<>> /\ Head(wq) \in Events /\ Tail(wq) = <<>>
           /\ wt # <<>> => wq = <<>> /\ wt \in StepList \cup OtherList
BY Seq1 DEF Shape

\* What the events carry.
LEMMA EventFacts ==
    ASSUME NEW e \in Events
    PROVE  /\ e.type # "WirelessSampled"
           /\ e.type = "LinkSampled" => e.up \in Link
           /\ e.type = "WatchdogStepped" =>
                 e.status \in Status /\ e.delay \in Nat /\ e.link_down \in BOOLEAN
           /\ e.type = "NotifyResult" => e.key \in ToastKey /\ e.delivered \in BOOLEAN
<1>1. CASE e \in {Event(t) : t \in {"Started", "Wake", "Redial", "Stop"}}
  <2>1. PICK t \in {"Started", "Wake", "Redial", "Stop"} : e = Event(t)
    BY <1>1
  <2>2. e.type = t
    BY <2>1 DEF Event
  <2>3. QED
    BY <2>2
<1>2. CASE e \in [type : {"Heartbeat"}, status : {"Running", "Error"}]
  BY <1>2
<1>3. CASE e \in [type : {"LinkSampled"}, up : Link]
  BY <1>3
<1>4. CASE e \in [type : {"WatchdogStepped"}, status : Status, delay : Nat,
                  link_down : BOOLEAN]
  BY <1>4
<1>5. CASE e \in [type : {"NotifyResult"}, key : ToastKey, delivered : BOOLEAN]
  BY <1>5
<1>6. QED
  BY <1>1, <1>2, <1>3, <1>4, <1>5 DEF Events

\* What is left of a list after its first effect.
LEMMA Tails ==
    /\ \A x \in OtherList : Tail(x) = <<>>
    /\ \A x \in StepList : Tail(x) \in {<<>>, <<Step>>, <<Ask, Step>>}
<1>1. ASSUME NEW x \in OtherList PROVE Tail(x) = <<>>
  <2>1. PICK a : x = <<a>>
    BY DEF OtherList
  <2>2. QED
    BY <2>1, Seq1
<1>2. ASSUME NEW x \in StepList PROVE Tail(x) \in {<<>>, <<Step>>, <<Ask, Step>>}
  <2>1. x = <<Step>> \/ (\E a : x = <<a, Step>>) \/ (\E a : x = <<a, Ask, Step>>)
    BY DEF StepList
  <2>2. Tail(<<Step>>) = <<>>
    BY Seq1
  <2>3. \A a : Tail(<<a, Step>>) = <<Step>>
    BY Seq2
  <2>4. \A a : Tail(<<a, Ask, Step>>) = <<Ask, Step>>
    BY Seq3
  <2>5. QED
    BY <2>1, <2>2, <2>3, <2>4, Zenon
<1>3. QED
  BY <1>1, <1>2

\* Lists without the wireless sample are wired lists.
LEMMA PlainList ==
    ASSUME NEW x \in {<<>>} \cup StepList \cup OtherList
    PROVE  WiredList(x) = x
<1>1. x # <<AskWlan>>
  <2>1. Head(<<AskWlan>>).type = "SampleWireless" /\ <<AskWlan>> # <<>>
    BY Seq1, Kinds
  <2>2. x # <<>> => Head(x).type # "SampleWireless"
    BY Seq1, Seq2, Seq3, Kinds DEF StepList, OtherList
  <2>3. QED
    BY <2>1, <2>2
<1>2. x # <<Sample, AskWlan>>
  <2>1. /\ Head(<<Sample, AskWlan>>).type = "SampleLink" /\ <<Sample, AskWlan>> # <<>>
        /\ Tail(<<Sample, AskWlan>>) = <<AskWlan>> /\ <<AskWlan>> # <<>>
    BY Seq1, Seq2, Kinds
  <2>2. x # <<>> /\ Head(x).type = "SampleLink" => Tail(x) = <<>>
    BY StepHeads, Tails
  <2>3. QED
    BY <2>1, <2>2
<1>3. QED
  BY <1>1, <1>2 DEF WiredList

\* The empty list is one of them.
LEMMA EmptyPlain == WiredList(<<>>) = <<>>
BY PlainList

\* The lists with the wireless sample.
LEMMA WlanList ==
    WiredList(<<AskWlan>>) = <<>> /\ WiredList(<<Sample, AskWlan>>) = <<Sample>>
<1>1. <<Sample, AskWlan>> # <<AskWlan>>
  BY Seq1, Seq2
<1>2. QED
  BY <1>1 DEF WiredList

\* The queues without and with the wireless sample.
LEMMA Queues ==
    /\ WiredQueue(<<>>) = <<>> /\ WiredQueue(<<Wlan>>) = <<>>
    /\ \A e \in Events : /\ WiredQueue(<<e>>) = <<e>>
                         /\ WiredQueue(<<e, Wlan>>) = <<e>>
                         /\ WiredQueue(<<Wlan, e>>) = <<e>>
<1>1. WiredQueue(<<>>) = <<>> /\ WiredQueue(<<Wlan>>) = <<>>
  BY Seq1 DEF WiredQueue
<1>2. ASSUME NEW e \in Events
      PROVE  /\ WiredQueue(<<e>>) = <<e>> /\ WiredQueue(<<e, Wlan>>) = <<e>>
             /\ WiredQueue(<<Wlan, e>>) = <<e>>
  <2>1. e # Wlan
    BY EventFacts, Kinds
  <2>2. WiredQueue(<<e>>) = <<e>>
    BY <2>1, Seq1 DEF WiredQueue
  <2>3. WiredQueue(<<e, Wlan>>) = <<e>> /\ WiredQueue(<<Wlan, e>>) = <<e>>
    BY <2>1, Seq2 DEF WiredQueue
  <2>4. QED
    BY <2>2, <2>3
<1>3. QED
  BY <1>1, <1>2

\* An empty queue goes with every wired list, a queue that holds the wireless
\* result with the effects of a link sample.
LEMMA PlainView ==
    /\ \A x \in {<<>>} \cup StepList \cup OtherList : Mixed(<<>>, x)
    /\ \A x \in {<<>>} \cup StepList : Mixed(<<Wlan>>, x)
    /\ \A l \in Link : Mixed(<<Wlan>>, <<SetLink(l)>>)
BY PlainList, Queues DEF Mixed

\* The reducer takes the wired event at hand; only behind a link sample may
\* the wireless one be left.
LEMMA ReduceView ==
    ASSUME Shape, Between, NEW t, t # "WirelessSampled", Reduce(t)
    PROVE  /\ todo = <<>> /\ wt = <<>> /\ wq # <<>> /\ wq' = <<>>
           /\ Head(wq) = Head(queue) /\ Head(wq) \in Events /\ Head(wq).type = t
           /\ \/ queue' = <<>>
              \/ t = "LinkSampled" /\ queue' = <<Wlan>>
<1>1. todo = <<>> /\ queue # <<>> /\ Head(queue).type = t /\ queue' = Tail(queue)
  BY DEF Reduce
<1>2. wt = <<>>
  BY <1>1, EmptyPlain DEF wt
<1>3. Mixed(queue, <<>>)
  BY <1>1 DEF Between
<1>4. /\ <<>> # <<AskWlan>> /\ <<>> # <<Sample, AskWlan>>
      /\ Head(<<Wlan>>).type = "WirelessSampled"
      /\ \A e : Head(<<Wlan, e>>).type = "WirelessSampled"
  BY Seq1, Seq2, Kinds
<1>5. CASE WiredQueue(queue) = queue
  <2>1. wq = queue
    BY <1>5 DEF wq
  <2>2. Head(queue) \in Events /\ queue = <<Head(queue)>>
    BY <1>1, <1>2, <2>1, EmptyList, Seq1 DEF Shape, OtherList
  <2>3. queue' = <<>>
    BY <1>1, <2>2, Seq1
  <2>4. wq' = <<>>
    BY <2>3, Queues DEF wq
  <2>5. QED
    BY <1>1, <1>2, <2>1, <2>2, <2>3, <2>4
<1>6. CASE \E e \in Events : e.type = "LinkSampled" /\ queue = <<e, Wlan>>
  <2>1. PICK e \in Events : e.type = "LinkSampled" /\ queue = <<e, Wlan>>
    BY <1>6
  <2>2. wq = <<e>> /\ Head(queue) = e /\ queue' = <<Wlan>>
    BY <1>1, <2>1, Queues, Seq2 DEF wq
  <2>3. wq' = <<>> /\ wq # <<>> /\ Head(wq) = e
    BY <2>2, Queues, Seq1 DEF wq
  <2>4. QED
    BY <1>1, <1>2, <2>1, <2>2, <2>3
<1>7. QED
  BY <1>1, <1>3, <1>4, <1>5, <1>6 DEF Mixed

\* The first effect is the first wired one, unless it is the wireless sample.
LEMMA FirstView ==
    ASSUME Shape, Between, todo # <<>>, Head(todo).type # "SampleWireless"
    PROVE  /\ wt # <<>> /\ Head(wt) = Head(todo)
           /\ wt \in StepList \cup OtherList /\ wq = <<>>
           /\ \/ queue = <<>>
              \/ queue = <<Wlan>> /\ Head(wt).type \notin {"SampleLink", "Notify"}
           /\ todo = wt \/ (todo = <<Sample, AskWlan>> /\ wt = <<Sample>>)
<1>1. Head(<<AskWlan>>).type = "SampleWireless"
  BY Seq1, Kinds
<1>2. ASSUME wt = todo
      PROVE  wt \in StepList \cup OtherList /\ wq = <<>>
  BY <1>2 DEF Shape
<1>3. CASE WiredQueue(queue) = queue /\ WiredList(todo) = todo
  <2>1. wt = todo /\ wq = queue
    BY <1>3 DEF wt, wq
  <2>2. QED
    BY <1>2, <2>1
<1>4. CASE queue = <<>> /\ todo = <<Sample, AskWlan>>
  <2>1. wq = <<>> /\ wt = <<Sample>>
    BY <1>4, WlanList, Queues DEF wq, wt
  <2>2. wt # <<>> /\ Head(wt) = Sample /\ Head(todo) = Sample
    BY <1>4, <2>1, Seq1, Seq2
  <2>3. QED
    BY <1>4, <2>1, <2>2 DEF OtherList
<1>5. CASE /\ queue = <<Wlan>>
           /\ todo \in {<<>>} \cup StepList \cup {<<SetLink(l)>> : l \in Link}
  <2>1. todo \in StepList \cup {<<SetLink(l)>> : l \in Link}
    BY <1>5
  <2>2. wt = todo
    BY <2>1, PlainList DEF wt, OtherList
  <2>3. Head(todo).type \notin {"SampleLink", "Notify"}
    BY <2>1, StepHeads, Seq1, Kinds
  <2>4. QED
    BY <1>2, <1>5, <2>2, <2>3
<1>6. QED
  BY <1>1, <1>3, <1>4, <1>5 DEF Between, Mixed

\* The shell executes the first wired effect.
LEMMA ExecView ==
    ASSUME Shape, Between, NEW t, t # "SampleWireless", Exec(t)
    PROVE  /\ wt # <<>> /\ Head(wt) = Head(todo) /\ Head(wt).type = t
           /\ wt \in StepList \cup OtherList /\ wq = <<>> /\ wt' = Tail(wt)
           /\ \/ queue = <<>>
              \/ queue = <<Wlan>> /\ t \notin {"SampleLink", "Notify"}
           /\ \/ todo' = Tail(wt)
              \/ t = "SampleLink" /\ todo' = <<AskWlan>>
           /\ t = "SampleLink" => Tail(wt) = <<>>
<1>1. todo # <<>> /\ Head(todo).type = t /\ todo' = Tail(todo)
  BY DEF Exec
<1>2. /\ wt # <<>> /\ Head(wt) = Head(todo)
      /\ wt \in StepList \cup OtherList /\ wq = <<>>
      /\ queue = <<>> \/ (queue = <<Wlan>> /\ t \notin {"SampleLink", "Notify"})
      /\ todo = wt \/ (todo = <<Sample, AskWlan>> /\ wt = <<Sample>>)
  BY <1>1, FirstView
<1>3. t = "SampleLink" => Tail(wt) = <<>>
  BY <1>1, <1>2, Lists DEF Ef
<1>4. CASE todo = wt
  <2>1. \/ Tail(wt) = <<>> \/ Tail(wt) = <<Step>> \/ Tail(wt) = <<Ask, Step>>
    BY <1>2, Tails
  <2>2. WiredList(Tail(wt)) = Tail(wt)
    BY <2>1, PlainList DEF StepList
  <2>3. wt' = Tail(wt)
    BY <1>1, <1>4, <2>2 DEF wt
  <2>4. QED
    BY <1>1, <1>2, <1>3, <1>4, <2>3
<1>5. CASE todo = <<Sample, AskWlan>> /\ wt = <<Sample>>
  <2>1. Head(wt) = Sample /\ Tail(wt) = <<>> /\ todo' = <<AskWlan>>
    BY <1>1, <1>5, Seq1, Seq2
  <2>2. wt' = <<>>
    BY <2>1, WlanList DEF wt
  <2>3. QED
    BY <1>1, <1>2, <1>3, <2>1, <2>2, Kinds
<1>6. QED
  BY <1>2, <1>4, <1>5

\* The wireless sample is read last, behind nothing but the link's.
LEMMA WlanView ==
    ASSUME Shape, Between, todo # <<>>, Head(todo).type = "SampleWireless"
    PROVE  /\ todo = <<AskWlan>> /\ wt = <<>>
           /\ \/ queue = <<>>
              \/ \E e \in Events : e.type = "LinkSampled" /\ queue = <<e>>
<1>1. /\ <<>> # <<AskWlan>> /\ Head(<<Sample, AskWlan>>).type # "SampleWireless"
      /\ \A l \in Link : Head(<<SetLink(l)>>).type # "SampleWireless"
  BY Seq1, Seq2, Kinds
<1>2. \A x \in StepList \cup OtherList : Head(x).type # "SampleWireless"
  BY Seq1, Seq2, Seq3, Kinds DEF StepList, OtherList
<1>3. todo \notin StepList \cup OtherList
  BY <1>2
<1>4. WiredList(todo) # todo
  <2>1. ASSUME wt = todo PROVE FALSE
    BY <1>3, <2>1 DEF Shape
  <2>2. QED
    BY <2>1 DEF wt
<1>5. /\ todo = <<AskWlan>>
      /\ \/ queue = <<>>
         \/ \E e \in Events : e.type = "LinkSampled" /\ queue = <<e>>
  BY <1>1, <1>3, <1>4 DEF Between, Mixed, OtherList
<1>6. QED
  BY <1>5, WlanList DEF wt

\* An effect's answer is the wired event at hand.
LEMMA AnswerView ==
    ASSUME NEW e \in Events, queue \in {<<>>, <<Wlan>>}, queue' = Append(queue, e)
    PROVE  /\ wq' = <<e>>
           /\ \/ queue = <<>> /\ queue' = <<e>>
              \/ queue = <<Wlan>> /\ queue' = <<Wlan, e>>
<1>1. Append(<<>>, e) = <<e>> /\ Append(<<Wlan>>, e) = <<Wlan, e>>
  BY Seq1, Append2
<1>2. \/ queue = <<>> /\ queue' = <<e>>
      \/ queue = <<Wlan>> /\ queue' = <<Wlan, e>>
  BY <1>1
<1>3. QED
  BY <1>2, Queues DEF wq

\* The initial states.
LEMMA InitInv == ASSUME Init PROVE IInv
<1>a. queue = <<Event("Started")>> /\ todo = <<>> /\ Event("Started") \in Events
  BY DEF Init, Events
<1>b. WiredQueue(queue) = queue /\ WiredList(todo) = todo
  BY <1>a, Queues, EmptyPlain
<1>0. /\ Head(wq) = Event("Started") /\ wq = <<Head(wq)>> /\ wq # <<>>
      /\ Head(wq).type = "Started" /\ wt = <<>>
  BY <1>a, <1>b, Seq1 DEF wq, wt, Event
<1>1. Shape /\ Between
  BY <1>0, <1>b DEF Shape, Between, Mixed, Events
<1>2. FlagsOK
  BY Zenon DEF Init, FlagsOK
<1>3. DataOK
  BY SupervisorAssumption DEF Init, DataOK, Link, Status, None
<1>4. Begun /\ Sampling /\ Armed
  BY <1>0, Zenon DEF Init, Begun, Sampling, Armed, Ev, Ef
<1>5. Agreed /\ Rested
  BY <1>0 DEF Init, Agreed, Rested, Ev, Ef
<1>6. Toasts
  BY <1>0 DEF Init, Toasts, Ev, Ef
<1>7. OneStep /\ Seen
  BY <1>0, EmptyList DEF Init, OneStep, Seen, Ev
<1>8. QED
  BY <1>1, <1>2, <1>3, <1>4, <1>5, <1>6, <1>7 DEF IInv

\* Started: the two deadlines are due, and perhaps the first wireless sample.
LEMMA StartedInv == ASSUME IInv, OnStarted PROVE IInv'
<1>z. Shape /\ Between /\ Reduce("Started")
  BY DEF IInv, OnStarted
<1>q. /\ todo = <<>> /\ wt = <<>> /\ wq # <<>> /\ wq' = <<>> /\ Head(wq) = Head(queue)
      /\ Head(wq) \in Events /\ Head(wq).type = "Started"
  BY <1>z, ReduceView
<1>c. queue' = <<>>
  BY <1>z, ReduceView
<1> USE DEF IInv, OnStarted, Reduce, wiredVars, timers, sessVars, toastVars,
        wdVars, ghostVars
<1>a. todo' = <<>> \/ todo' = <<AskWlan>>
  BY DEF AskWlan
<1>t. wt' = <<>> /\ Between'
  BY <1>a, <1>c, EmptyPlain, WlanList, PlainView DEF wt, Between, Mixed
<1>1. Shape'
  BY <1>q, <1>t DEF Shape
<1>2. Between'
  BY <1>t
<1>3. FlagsOK'
  BY Zenon, <1>q DEF FlagsOK
<1>4. DataOK'
  BY SupervisorAssumption DEF DataOK, None
<1>5. Begun'
  BY <1>q, SupervisorAssumption DEF Begun, Ev
<1>6. Sampling'
  BY <1>q, <1>t DEF Sampling, Ev, Ef
<1>7. Armed'
  BY DEF Armed, None
<1>8. Agreed'
  BY <1>q, <1>t, Seq1 DEF Agreed, Ev, Ef
<1>9. Rested'
  BY <1>q, <1>t, Seq1, Seq2 DEF Rested, Begun, Ev
<1>10. OneStep'
  BY <1>q, <1>t, EmptyList DEF OneStep, Sampling, Ev, Ef
<1>11. Toasts'
  BY <1>q, <1>t DEF Toasts, Ev, Ef
<1>12. Seen'
  BY <1>q DEF Seen, Ev
<1>13. QED
  BY <1>1, <1>2, <1>3, <1>4, <1>5, <1>6, <1>7, <1>8, <1>9, <1>10, <1>11, <1>12

\* A redial command.
LEMMA RedialInv == ASSUME IInv, OnRedial PROVE IInv'
<1>z. Shape /\ Between /\ Reduce("Redial")
  BY DEF IInv, OnRedial
<1>q. /\ todo = <<>> /\ wt = <<>> /\ wq # <<>> /\ wq' = <<>> /\ Head(wq) = Head(queue)
      /\ Head(wq) \in Events /\ Head(wq).type = "Redial"
  BY <1>z, ReduceView
<1>c. queue' = <<>>
  BY <1>z, ReduceView
<1> USE DEF IInv, OnRedial, Reduce, wiredVars, timers, sessVars, toastVars,
        wdVars, ghostVars
<1>a. todo' = <<Ask, Step>>
  BY DEF Ask, Step
<1>t. wt' = <<Ask, Step>> /\ Between'
  BY <1>a, <1>c, PlainList, PlainView DEF wt, Between, StepList
<1>f. wt' # <<>> /\ Head(wt').type = "RequestRedial"
  BY <1>t, Seq2, Kinds
<1>g. wt' # <<Step>> /\ \A l \in Link : wt' # <<SetLink(l), Step>>
  BY <1>f, Seq1, Seq2, Kinds
<1>1. Shape'
  BY <1>q, <1>t DEF Shape, StepList
<1>2. Between'
  BY <1>t
<1>3. FlagsOK'
  BY Zenon, <1>q DEF FlagsOK
<1>4. DataOK'
  BY <1>q DEF DataOK, Ev, Ef
<1>5. Begun'
  BY <1>q DEF Begun, Ev, Ef
<1>6. Sampling'
  BY <1>q, <1>t, <1>f DEF Sampling, Ev, Ef
<1>7. Armed'
  BY <1>t DEF Armed, StepList
<1>8. Agreed'
  BY <1>q, <1>f, Seq1 DEF Agreed, Ev, Ef
<1>9. Rested'
  BY <1>q, <1>t, <1>g DEF Rested, Ev
<1>10. OneStep'
  BY DEF OneStep
<1>11. Toasts'
  BY <1>q, <1>t, <1>f DEF Toasts, Ev, Ef
<1>12. Seen'
  BY <1>q DEF Seen, Ev
<1>13. QED
  BY <1>1, <1>2, <1>3, <1>4, <1>5, <1>6, <1>7, <1>8, <1>9, <1>10, <1>11, <1>12

\* The service stops.
LEMMA StopInv == ASSUME IInv, OnStop PROVE IInv'
<1>z. Shape /\ Between /\ Reduce("Stop")
  BY DEF IInv, OnStop
<1>q. /\ todo = <<>> /\ wt = <<>> /\ wq # <<>> /\ wq' = <<>> /\ Head(wq) = Head(queue)
      /\ Head(wq) \in Events /\ Head(wq).type = "Stop"
  BY <1>z, ReduceView
<1>c. queue' = <<>>
  BY <1>z, ReduceView
<1> USE DEF IInv, OnStop, Reduce, wiredVars, timers, sessVars, toastVars,
        wdVars, ghostVars
<1>a. todo' = <<Hangup>>
  BY DEF Hangup
<1>t. wt' = <<Hangup>> /\ Between'
  BY <1>a, <1>c, PlainList, PlainView DEF wt, Between, OtherList
<1>f. wt' # <<>> /\ Head(wt').type = "Hangup"
  BY <1>t, Seq1, Kinds
<1>g. wt' # <<Step>> /\ \A l \in Link : wt' # <<SetLink(l), Step>>
  BY <1>f, Seq1, Seq2, Kinds
<1>1. Shape'
  BY <1>q, <1>t DEF Shape, OtherList
<1>2. Between'
  BY <1>t
<1>3. FlagsOK'
  BY Zenon, <1>q DEF FlagsOK
<1>4. DataOK'
  BY <1>q DEF DataOK, Ev, Ef
<1>5. Begun'
  BY <1>q DEF Begun, Ev, Ef
<1>6. Sampling'
  BY <1>q, <1>f DEF Sampling, Ev, Ef
<1>7. Armed'
  BY <1>q, EmptyList DEF Armed, Ev
<1>8. Agreed'
  BY <1>q, <1>t, <1>f DEF Agreed, Ev, Ef
<1>9. Rested'
  BY <1>q, <1>g DEF Rested, Ev
<1>10. OneStep'
  BY <1>f, <1>q, StepHeads DEF OneStep
<1>11. Toasts'
  BY <1>q, <1>f DEF Toasts, Ev, Ef
<1>12. Seen'
  BY <1>q DEF Seen, Ev
<1>13. QED
  BY <1>1, <1>2, <1>3, <1>4, <1>5, <1>6, <1>7, <1>8, <1>9, <1>10, <1>11, <1>12

\* A wake-up: a due step waits for a sample.
LEMMA WakeInv == ASSUME IInv, OnWake PROVE IInv'
<1>z. Shape /\ Between /\ Reduce("Wake")
  BY DEF IInv, OnWake
<1>q. /\ todo = <<>> /\ wt = <<>> /\ wq # <<>> /\ wq' = <<>> /\ Head(wq) = Head(queue)
      /\ Head(wq) \in Events /\ Head(wq).type = "Wake"
  BY <1>z, ReduceView
<1>c. queue' = <<>>
  BY <1>z, ReduceView
<1> USE DEF IInv, OnWake, Reduce, wiredVars, timers, sessVars, toastVars,
        wdVars, ghostVars
<1>e. ~sample_in_flight /\ ~step_pending /\ ~wd_redial
  BY <1>q, Seq1 DEF Sampling, Agreed, Ev, Ef
<1>s. started
  BY <1>q DEF Begun, Ev
<1> DEFINE due == watchdog_deadline = 0
<1>d. /\ watchdog_deadline' = IF due THEN None ELSE watchdog_deadline
      /\ due => step_pending' /\ rest = 0
      /\ step_pending' => due
  <2>1. step_pending' = (step_pending \/ due)
    OBVIOUS
  <2>2. due => rest = 0
    BY DEF DataOK, Rested, None
  <2>3. watchdog_deadline' = IF due THEN None ELSE watchdog_deadline
    OBVIOUS
  <2> HIDE DEF due
  <2>4. QED
    BY <1>e, <2>1, <2>2, <2>3, Zenon
<1>o. \/ /\ todo' \in {<<Sample>>, <<Sample, AskWlan>>} /\ sample_in_flight' = TRUE
         /\ link_poll_at' = LinkPoll
      \/ /\ todo' \in {<<>>, <<AskWlan>>} /\ ~due /\ sample_in_flight' = sample_in_flight
         /\ link_poll_at' = IF link_poll_at = 0 THEN LinkPoll ELSE link_poll_at
  BY <1>e, <1>q DEF Sample, AskWlan
<1>t. Between'
  BY <1>c, <1>o, PlainView DEF Between, Mixed, OtherList
<1>p. \/ /\ wt' = <<Sample>> /\ sample_in_flight' = TRUE /\ link_poll_at' = LinkPoll
      \/ /\ wt' = <<>> /\ ~due /\ sample_in_flight' = sample_in_flight
         /\ link_poll_at' = IF link_poll_at = 0 THEN LinkPoll ELSE link_poll_at
  <2>1. WiredList(<<Sample>>) = <<Sample>>
    BY PlainList DEF OtherList
  <2>2. QED
    BY <1>o, <2>1, EmptyPlain, WlanList DEF wt
<1>f. /\ wt' # <<Step>> /\ \A l \in Link : wt' # <<SetLink(l), Step>>
      /\ wt' # <<>> => Head(wt').type = "SampleLink"
  <2>1. wt' # <<>> => Head(wt').type = "SampleLink"
    BY <1>p, Seq1, Kinds
  <2>2. <<Step>> # <<>> /\ Head(<<Step>>).type = "StepWatchdog"
    BY Seq1, Kinds
  <2>3. \A l \in Link : /\ <<SetLink(l), Step>> # <<>>
                        /\ Head(<<SetLink(l), Step>>).type = "SetWatchdogLink"
    BY Seq2, Kinds
  <2>4. QED
    BY <2>1, <2>2, <2>3
<1>u. UNCHANGED <<started, stopped, eth_link, link_sample_seen, sessVars, toastVars,
                  wdVars, cable, ghostVars>>
  OBVIOUS
<1> HIDE DEF OnWake, Reduce
<1>1. Shape'
  BY <1>p, <1>q DEF Shape, OtherList
<1>2. Between'
  BY <1>t
<1>3. FlagsOK'
  <2>1. sample_in_flight' \in BOOLEAN
    BY <1>p, Zenon DEF FlagsOK
  <2>2. step_pending' \in BOOLEAN
    BY Zenon DEF OnWake
  <2>3. QED
    BY <1>u, <2>1, <2>2, Zenon DEF FlagsOK
<1>4. DataOK'
  BY <1>d, <1>p, <1>u, SupervisorAssumption DEF DataOK, None
<1>5. Begun'
  BY <1>p, <1>q, <1>s, <1>u, SupervisorAssumption DEF Begun, Ev
<1>6. Sampling'
  <2>1. CASE wt' = <<Sample>> /\ sample_in_flight' = TRUE
    BY <1>f, <1>q, <2>1, Seq1 DEF Sampling, Ev, Ef
  <2>2. CASE wt' = <<>> /\ ~due /\ sample_in_flight' = sample_in_flight
    BY <1>d, <1>e, <1>q, <2>2 DEF Sampling, Ev, Ef
  <2>3. QED
    BY <1>p, <2>1, <2>2
<1>7. Armed'
  BY <1>d, <1>q, <1>s, <1>u, <1>e, EmptyList DEF Armed, Ev
<1>8. Agreed'
  BY <1>e, <1>f, <1>q, <1>u DEF Agreed, Ev, Ef
<1>9. Rested'
  BY <1>d, <1>f, <1>q, <1>u DEF Rested, Ev
<1>10. OneStep'
  BY <1>d, <1>f, StepHeads DEF OneStep
<1>11. Toasts'
  BY <1>f, <1>q, <1>u DEF Toasts, Ev, Ef
<1>12. Seen'
  BY <1>q, <1>u DEF Seen, Ev
<1>13. QED
  BY <1>1, <1>2, <1>3, <1>4, <1>5, <1>6, <1>7, <1>8, <1>9, <1>10, <1>11, <1>12

\* The result of a toast.
LEMMA NotifyResultInv == ASSUME IInv, OnNotifyResult PROVE IInv'
<1>z. Shape /\ Between /\ Reduce("NotifyResult")
  BY DEF IInv, OnNotifyResult
<1>q. /\ todo = <<>> /\ wt = <<>> /\ wq # <<>> /\ wq' = <<>> /\ Head(wq) = Head(queue)
      /\ Head(wq) \in Events /\ Head(wq).type = "NotifyResult"
  BY <1>z, ReduceView
<1>c. queue' = <<>>
  BY <1>z, ReduceView
<1> USE DEF IInv, OnNotifyResult, Reduce, wiredVars, timers, sessVars,
        toastVars, wdVars, ghostVars
<1>a. todo' = <<>>
  BY <1>q
<1>t. wt' = <<>> /\ Between'
  BY <1>a, <1>c, EmptyPlain, PlainView DEF wt, Between
<1>e. Head(wq).key \in ToastKey
  BY <1>q, EventFacts
<1>1. Shape'
  BY <1>q, <1>t DEF Shape
<1>2. Between'
  BY <1>t
<1>3. FlagsOK'
  BY Zenon, <1>q DEF FlagsOK
<1>4. DataOK'
  <2>1. CASE Head(wq).delivered
    BY <1>e, <1>q, <2>1, SupervisorAssumption DEF DataOK
  <2>2. CASE ~Head(wq).delivered
    BY <1>q, <2>2 DEF DataOK
  <2>3. QED
    BY <2>1, <2>2
<1>5. Begun'
  BY <1>q DEF Begun, Ev, Ef
<1>6. Sampling'
  BY <1>q, <1>t DEF Sampling, Ev, Ef
<1>7. Armed'
  BY <1>q, EmptyList DEF Armed, Ev
<1>8. Agreed'
  BY <1>q, <1>t, Seq1 DEF Agreed, Ev, Ef
<1>9. Rested'
  BY <1>q, <1>t, Seq1, Seq2 DEF Rested, Ev
<1>10. OneStep'
  BY <1>q, <1>t, EmptyList DEF OneStep
<1>11. Toasts'
  <2>1. in_flight' = {}
    BY <1>q DEF Toasts, Ev, Ef
  <2>2. ASSUME NEW k \in ToastKey PROVE toast_rest[k] =< delivered'[k]
    <3>1. CASE Head(wq).delivered /\ Head(wq).key = k
      BY <1>e, <1>q, <3>1 DEF DataOK
    <3>2. CASE ~(Head(wq).delivered /\ Head(wq).key = k)
      <4>1. toast_rest[k] =< delivered[k]
        BY <3>2 DEF Toasts
      <4>2. delivered'[k] = delivered[k]
        BY <1>e, <1>q, <3>2 DEF DataOK
      <4>3. QED
        BY <4>1, <4>2
    <3>3. QED
      BY <3>1, <3>2
  <2>3. QED
    BY <1>q, <1>t, <2>1, <2>2 DEF Toasts, Ev, Ef
<1>12. Seen'
  BY <1>q DEF Seen, Ev
<1>13. QED
  BY <1>1, <1>2, <1>3, <1>4, <1>5, <1>6, <1>7, <1>8, <1>9, <1>10, <1>11, <1>12

\* News of the heartbeat.
LEMMA HeartbeatInv == ASSUME IInv, OnHeartbeat PROVE IInv'
<1>z. Shape /\ Between /\ Reduce("Heartbeat")
  BY DEF IInv, OnHeartbeat
<1>q. /\ todo = <<>> /\ wt = <<>> /\ wq # <<>> /\ wq' = <<>> /\ Head(wq) = Head(queue)
      /\ Head(wq) \in Events /\ Head(wq).type = "Heartbeat"
  BY <1>z, ReduceView
<1>c. queue' = <<>>
  BY <1>z, ReduceView
<1> USE DEF IInv, OnHeartbeat, Reduce, wiredVars, timers, sessVars, toastVars,
        wdVars, ghostVars
<1>o. \/ todo' = <<>> /\ UNCHANGED toastVars
      \/ \E k \in ToastKey : /\ todo' = <<Notify(k)>> /\ delivered[k] = 0
                             /\ in_flight' = in_flight \cup {k}
                             /\ UNCHANGED delivered
  <2>1. ASSUME NEW k \in ToastKey, MaybeNotify(k)
        PROVE  \/ todo' = <<>> /\ UNCHANGED toastVars
               \/ /\ todo' = <<Notify(k)>> /\ delivered[k] = 0
                  /\ in_flight' = in_flight \cup {k} /\ UNCHANGED delivered
    BY <1>q, <2>1 DEF MaybeNotify, DataOK
  <2>2. "HeartbeatError" \in ToastKey /\ "RedialFailing" \in ToastKey
    BY DEF ToastKey
  <2>3. QED
    BY <1>q, <2>1, <2>2 DEF NoToast
<1>t. Between' /\ wt' = todo'
  BY <1>c, <1>o, PlainList, PlainView DEF Between, wt, OtherList
<1>n. \/ wt' = <<>> /\ UNCHANGED toastVars
      \/ \E k \in ToastKey : /\ wt' = <<Notify(k)>> /\ delivered[k] = 0
                             /\ in_flight' = in_flight \cup {k}
                             /\ UNCHANGED delivered
  BY <1>o, <1>t
<1>i. in_flight = {}
  BY <1>q DEF Toasts, Ev, Ef
<1>f. /\ wt' # <<Step>> /\ \A l \in Link : wt' # <<SetLink(l), Step>>
      /\ wt' # <<>> => Head(wt').type = "Notify"
  <2>1. wt' # <<>> => Head(wt').type = "Notify"
    BY <1>n, Seq1, Kinds
  <2>2. <<Step>> # <<>> /\ Head(<<Step>>).type = "StepWatchdog"
    BY Seq1, Kinds
  <2>3. \A l \in Link : /\ <<SetLink(l), Step>> # <<>>
                        /\ Head(<<SetLink(l), Step>>).type = "SetWatchdogLink"
    BY Seq2, Kinds
  <2>4. QED
    BY <2>1, <2>2, <2>3
<1>m. Shape' /\ Toasts'
  <2>1. CASE wt' = <<>> /\ UNCHANGED toastVars
    BY <1>i, <1>q, <2>1 DEF Shape, Toasts, Ev, Ef
  <2>2. ASSUME NEW k \in ToastKey, wt' = <<Notify(k)>>, delivered[k] = 0,
               in_flight' = in_flight \cup {k}, UNCHANGED delivered
        PROVE  Shape' /\ Toasts'
    <3>1. wt' # <<>> /\ Head(wt').type = "Notify" /\ Head(wt').key = k
      BY <2>2, Seq1, Kinds
    <3>2. \A j \in ToastKey : toast_rest[j] =< delivered[j]
      BY <1>q DEF Toasts, Ev
    <3>3. toast_rest[k] = 0
      BY <2>2, <3>2 DEF DataOK
    <3>4. Toasts'
      BY <1>i, <1>q, <2>2, <3>1, <3>2, <3>3 DEF Toasts, Ev, Ef
    <3>5. Shape'
      BY <1>q, <2>2 DEF Shape, OtherList
    <3>6. QED
      BY <3>4, <3>5
  <2>3. QED
    BY <1>n, <2>1, <2>2
<1>u. UNCHANGED <<started, stopped, wiredVars, timers, sessVars, wdVars, cable,
                  ghostVars, delivered>>
  BY <1>n
<1> HIDE DEF OnHeartbeat, Reduce
<1>1. Shape'
  BY <1>m
<1>2. Between'
  BY <1>t
<1>3. FlagsOK'
  BY <1>u, Zenon DEF FlagsOK
<1>4. DataOK'
  BY <1>u DEF DataOK
<1>5. Begun'
  BY <1>q, <1>u DEF Begun, Ev
<1>6. Sampling'
  BY <1>f, <1>q, <1>u DEF Sampling, Ev, Ef
<1>7. Armed'
  BY <1>q, <1>u, EmptyList DEF Armed, Ev
<1>8. Agreed'
  BY <1>f, <1>q, <1>u, Seq1 DEF Agreed, Ev, Ef
<1>9. Rested'
  BY <1>f, <1>q, <1>u DEF Rested, Ev
<1>10. OneStep'
  BY <1>f, <1>u, StepHeads DEF OneStep
<1>11. Toasts'
  BY <1>m
<1>12. Seen'
  BY <1>q, <1>u DEF Seen, Ev
<1>13. QED
  BY <1>1, <1>2, <1>3, <1>4, <1>5, <1>6, <1>7, <1>8, <1>9, <1>10, <1>11, <1>12

\* The watchdog has stepped: its next deadline.
LEMMA SteppedInv == ASSUME IInv, OnWatchdogStepped PROVE IInv'
<1>z. Shape /\ Between /\ Reduce("WatchdogStepped")
  BY DEF IInv, OnWatchdogStepped
<1>q. /\ todo = <<>> /\ wt = <<>> /\ wq # <<>> /\ wq' = <<>> /\ Head(wq) = Head(queue)
      /\ Head(wq) \in Events /\ Head(wq).type = "WatchdogStepped"
  BY <1>z, ReduceView
<1>c. queue' = <<>>
  BY <1>z, ReduceView
<1> USE DEF IInv, OnWatchdogStepped, Reduce, wiredVars, timers, sessVars,
        toastVars, wdVars, ghostVars
<1>e. /\ Head(wq).status \in Status /\ Head(wq).delay \in Nat
      /\ Head(wq).status = wd_status /\ rest = Head(wq).delay
  BY <1>q, EventFacts DEF Agreed, Rested, Ev
<1>o. \/ todo' = <<>> /\ UNCHANGED toastVars
      \/ \E k \in ToastKey : /\ todo' = <<Notify(k)>> /\ delivered[k] = 0
                             /\ in_flight' = in_flight \cup {k}
                             /\ UNCHANGED delivered
  <2>1. ASSUME NEW k \in ToastKey, MaybeNotify(k)
        PROVE  \/ todo' = <<>> /\ UNCHANGED toastVars
               \/ /\ todo' = <<Notify(k)>> /\ delivered[k] = 0
                  /\ in_flight' = in_flight \cup {k} /\ UNCHANGED delivered
    BY <1>q, <2>1 DEF MaybeNotify, DataOK
  <2>2. "HeartbeatError" \in ToastKey /\ "RedialFailing" \in ToastKey
    BY DEF ToastKey
  <2>3. QED
    BY <1>q, <2>1, <2>2 DEF NoToast
<1>t. Between' /\ wt' = todo'
  BY <1>c, <1>o, PlainList, PlainView DEF Between, wt, OtherList
<1>n. \/ wt' = <<>> /\ UNCHANGED toastVars
      \/ \E k \in ToastKey : /\ wt' = <<Notify(k)>> /\ delivered[k] = 0
                             /\ in_flight' = in_flight \cup {k}
                             /\ UNCHANGED delivered
  BY <1>o, <1>t
<1>i. in_flight = {}
  BY <1>q DEF Toasts, Ev, Ef
<1>f. /\ wt' # <<Step>> /\ \A l \in Link : wt' # <<SetLink(l), Step>>
      /\ wt' # <<>> => Head(wt').type = "Notify"
  <2>1. wt' # <<>> => Head(wt').type = "Notify"
    BY <1>n, Seq1, Kinds
  <2>2. <<Step>> # <<>> /\ Head(<<Step>>).type = "StepWatchdog"
    BY Seq1, Kinds
  <2>3. \A l \in Link : /\ <<SetLink(l), Step>> # <<>>
                        /\ Head(<<SetLink(l), Step>>).type = "SetWatchdogLink"
    BY Seq2, Kinds
  <2>4. QED
    BY <2>1, <2>2, <2>3
<1>m. Shape' /\ Toasts'
  <2>1. CASE wt' = <<>> /\ UNCHANGED toastVars
    BY <1>i, <1>q, <2>1 DEF Shape, Toasts, Ev, Ef
  <2>2. ASSUME NEW k \in ToastKey, wt' = <<Notify(k)>>, delivered[k] = 0,
               in_flight' = in_flight \cup {k}, UNCHANGED delivered
        PROVE  Shape' /\ Toasts'
    <3>1. wt' # <<>> /\ Head(wt').type = "Notify" /\ Head(wt').key = k
      BY <2>2, Seq1, Kinds
    <3>2. \A j \in ToastKey : toast_rest[j] =< delivered[j]
      BY <1>q DEF Toasts, Ev
    <3>3. toast_rest[k] = 0
      BY <2>2, <3>2 DEF DataOK
    <3>4. Toasts'
      BY <1>i, <1>q, <2>2, <3>1, <3>2, <3>3 DEF Toasts, Ev, Ef
    <3>5. Shape'
      BY <1>q, <2>2 DEF Shape, OtherList
    <3>6. QED
      BY <3>4, <3>5
  <2>3. QED
    BY <1>n, <2>1, <2>2
<1>u. /\ status' = Head(wq).status /\ step_pending' = FALSE
      /\ watchdog_deadline' = Head(wq).delay
      /\ UNCHANGED <<started, stopped, eth_link, link_sample_seen, sample_in_flight,
                     link_poll_at, wdVars, cable, ghostVars, delivered>>
  BY <1>n, <1>q
<1>g. failing_since' \in -1..ToastAfter
  BY SupervisorAssumption DEF DataOK, None
<1>j. ~sample_in_flight /\ ~wd_redial
  BY <1>q, Seq1 DEF Sampling, Agreed, Ev, Ef
<1> HIDE DEF OnWatchdogStepped, Reduce
<1>1. Shape'
  BY <1>m
<1>2. Between'
  BY <1>t
<1>3. FlagsOK'
  BY <1>u, Zenon DEF FlagsOK
<1>4. DataOK'
  BY <1>e, <1>g, <1>u DEF DataOK
<1>5. Begun'
  BY <1>q, <1>u DEF Begun, Ev
<1>6. Sampling'
  BY <1>f, <1>j, <1>q, <1>u DEF Sampling, Ev, Ef
<1>7. Armed'
  BY <1>e, <1>u DEF Armed, None
<1>8. Agreed'
  BY <1>e, <1>f, <1>j, <1>q, <1>u DEF Agreed, Ev, Ef
<1>9. Rested'
  BY <1>e, <1>f, <1>q, <1>u DEF Rested, Ev
<1>10. OneStep'
  BY <1>f, <1>u, StepHeads DEF OneStep
<1>11. Toasts'
  BY <1>m
<1>12. Seen'
  BY <1>q, <1>u DEF Seen, Ev
<1>13. QED
  BY <1>1, <1>2, <1>3, <1>4, <1>5, <1>6, <1>7, <1>8, <1>9, <1>10, <1>11, <1>12

\* What a link sample makes the shell do.
LEMMA LinkLists ==
    ASSUME NEW next \in Link
    PROVE  /\ next = eth_link /\ ~step_pending => LinkEffects(next) = <<>>
           /\ next = eth_link /\ step_pending => LinkEffects(next) = <<Step>>
           /\ next # eth_link /\ ~PluggedIn(next) /\ ~step_pending =>
                 LinkEffects(next) = <<SetLink(next)>>
           /\ next # eth_link /\ ~PluggedIn(next) /\ step_pending =>
                 LinkEffects(next) = <<SetLink(next), Step>>
           /\ PluggedIn(next) =>
                 next # eth_link /\ LinkEffects(next) = <<SetLink(next), Ask, Step>>
<1> DEFINE a == IF next # eth_link THEN <<SetLink(next)>> ELSE <<>>
           b == IF PluggedIn(next) THEN <<Ask>> ELSE <<>>
           d == IF PluggedIn(next) \/ step_pending THEN <<Step>> ELSE <<>>
<1>1. LinkEffects(next) = a \o b \o d
  BY DEF LinkEffects, Ask, Step
<1>2. PluggedIn(next) => next # eth_link
  BY DEF PluggedIn
<1>3. /\ <<>> \o <<>> \o <<>> = <<>> /\ <<>> \o <<>> \o <<Step>> = <<Step>>
      /\ \A x : <<x>> \o <<>> \o <<>> = <<x>> /\ <<x>> \o <<>> \o <<Step>> = <<x, Step>>
      /\ \A x : <<x>> \o <<Ask>> \o <<Step>> = <<x, Ask, Step>>
  <2>1. <<>> \o <<>> = <<>> /\ <<>> \o <<Step>> = <<Step>>
    OBVIOUS
  <2>2. ASSUME NEW x PROVE <<x>> \o <<>> = <<x>>
    OBVIOUS
  <2>3. <<>> \o <<>> \o <<>> = <<>> /\ <<>> \o <<>> \o <<Step>> = <<Step>>
    BY <2>1
  <2>4. ASSUME NEW x
        PROVE  /\ <<x>> \o <<>> \o <<>> = <<x>> /\ <<x>> \o <<>> \o <<Step>> = <<x, Step>>
               /\ <<x>> \o <<Ask>> \o <<Step>> = <<x, Ask, Step>>
    <3>1. <<x>> \o <<Step>> = <<x, Step>> /\ <<x>> \o <<Ask>> = <<x, Ask>>
      BY Concat2
    <3>2. <<x, Ask>> \o <<Step>> = <<x, Ask, Step>>
      BY Concat3
    <3>3. QED
      BY <2>2, <3>1, <3>2, Zenon
  <2>5. QED
    BY <2>3, <2>4
<1>4. CASE PluggedIn(next)
  <2>1. a = <<SetLink(next)>> /\ b = <<Ask>> /\ d = <<Step>>
    BY <1>2, <1>4
  <2>2. QED
    BY <1>1, <1>2, <1>3, <1>4, <2>1
<1>5. CASE ~PluggedIn(next) /\ next = eth_link
  <2>1. a = <<>> /\ b = <<>>
    BY <1>5
  <2>2. CASE step_pending
    BY <1>1, <1>3, <1>5, <2>1, <2>2
  <2>3. CASE ~step_pending
    BY <1>1, <1>3, <1>5, <2>1, <2>3
  <2>4. QED
    BY <2>2, <2>3
<1>6. CASE ~PluggedIn(next) /\ next # eth_link
  <2>1. a = <<SetLink(next)>> /\ b = <<>>
    BY <1>6
  <2>2. CASE step_pending
    BY <1>1, <1>3, <1>6, <2>1, <2>2
  <2>3. CASE ~step_pending
    BY <1>1, <1>3, <1>6, <2>1, <2>3
  <2>4. QED
    BY <2>2, <2>3
<1>7. QED
  BY <1>4, <1>5, <1>6

\* A link sample: the watchdog is told, and a waiting step goes ahead.
LEMMA LinkSampledInv == ASSUME IInv, OnLinkSampled PROVE IInv'
<1>z. Shape /\ Between /\ Reduce("LinkSampled")
  BY DEF IInv, OnLinkSampled
<1>q. /\ todo = <<>> /\ wt = <<>> /\ wq # <<>> /\ wq' = <<>> /\ Head(wq) = Head(queue)
      /\ Head(wq) \in Events /\ Head(wq).type = "LinkSampled"
  BY <1>z, ReduceView
<1>c. queue' \in {<<>>, <<Wlan>>}
  BY <1>z, ReduceView
<1> USE DEF IInv, OnLinkSampled, Reduce, wiredVars, timers, sessVars,
        toastVars, wdVars, ghostVars
<1> DEFINE next == IF link_sample_seen /\ Head(wq).up = "None" THEN eth_link
                   ELSE Head(wq).up
<1>x. next \in Link
  BY <1>q, EventFacts DEF DataOK
<1>u. /\ sample_in_flight' = FALSE /\ link_sample_seen' = TRUE /\ eth_link' = next
      /\ todo' = LinkEffects(next) /\ step_pending' = FALSE
      /\ link_poll_at' = LinkPoll
      /\ watchdog_deadline' = IF PluggedIn(next) THEN None ELSE watchdog_deadline
      /\ UNCHANGED <<started, stopped, sessVars, toastVars, wdVars, cable, ghostVars>>
  BY <1>q
<1> HIDE DEF OnLinkSampled, Reduce, next
<1>e. ~wd_redial /\ fresh /\ wd_link = eth_link /\ status = wd_status
  BY <1>q, Seq1 DEF Agreed, Rested, Ev, Ef
<1>s. started /\ (step_pending => rest = 0)
  BY <1>q DEF Begun, Rested, Ev
<1>t. Between' /\ wt' = todo'
  <2>1. todo' \in {<<>>} \cup StepList \cup {<<SetLink(next)>>}
    BY <1>u, <1>x, LinkLists DEF StepList
  <2>2. WiredList(todo') = todo'
    BY <1>x, <2>1, PlainList DEF OtherList
  <2>3. Mixed(<<>>, todo') /\ Mixed(<<Wlan>>, todo')
    BY <1>x, <2>1, PlainView DEF OtherList
  <2>4. QED
    BY <1>c, <2>2, <2>3 DEF Between, wt
<1>l. \/ wt' = <<>> /\ next = eth_link /\ ~step_pending /\ ~PluggedIn(next)
      \/ wt' = <<Step>> /\ next = eth_link /\ step_pending /\ ~PluggedIn(next)
      \/ wt' = <<SetLink(next)>> /\ ~step_pending /\ ~PluggedIn(next)
      \/ wt' = <<SetLink(next), Step>> /\ step_pending /\ ~PluggedIn(next)
      \/ wt' = <<SetLink(next), Ask, Step>>
  <2>1. \/ todo' = <<>> /\ next = eth_link /\ ~step_pending /\ ~PluggedIn(next)
        \/ todo' = <<Step>> /\ next = eth_link /\ step_pending /\ ~PluggedIn(next)
        \/ todo' = <<SetLink(next)>> /\ ~step_pending /\ ~PluggedIn(next)
        \/ todo' = <<SetLink(next), Step>> /\ step_pending /\ ~PluggedIn(next)
        \/ todo' = <<SetLink(next), Ask, Step>>
    BY <1>u, <1>x, LinkLists, Zenon
  <2>2. QED
    BY <1>t, <2>1
<1>f. \/ wt' = <<>> /\ next = eth_link
      \/ wt' = <<Step>> /\ next = eth_link /\ Head(wt').type = "StepWatchdog"
         /\ rest = 0
      \/ Head(wt').type = "SetWatchdogLink" /\ Head(wt').up = next /\ wt' # <<>>
         /\ \A l \in Link : wt' = <<SetLink(l), Step>> => rest = 0
  <2>1. CASE wt' = <<>> /\ next = eth_link /\ ~step_pending /\ ~PluggedIn(next)
    BY <2>1
  <2>2. CASE wt' = <<Step>> /\ next = eth_link /\ step_pending /\ ~PluggedIn(next)
    BY <1>s, <2>2, Seq1, Kinds
  <2>3. CASE wt' = <<SetLink(next)>>
    <3>1. Head(wt') = SetLink(next) /\ wt' # <<>> /\ Tail(wt') = <<>>
      BY <2>3, Seq1
    <3>2. \A l \in Link : Tail(<<SetLink(l), Step>>) # <<>>
      BY Seq1, Seq2
    <3>3. QED
      BY <1>x, <3>1, <3>2, Kinds
  <2>4. CASE wt' = <<SetLink(next), Step>> /\ step_pending
    BY <1>s, <1>x, <2>4, Seq2, Kinds
  <2>5. CASE wt' = <<SetLink(next), Ask, Step>>
    <3>1. Head(wt') = SetLink(next) /\ wt' # <<>> /\ Tail(wt') = <<Ask, Step>>
      BY <2>5, Seq3
    <3>2. \A l \in Link : Tail(<<SetLink(l), Step>>) # <<Ask, Step>>
      BY Seq1, Seq2, Kinds
    <3>3. QED
      BY <1>x, <3>1, <3>2, Kinds
  <2>6. QED
    BY <1>l, <2>1, <2>2, <2>3, <2>4, <2>5
<1>1. Shape'
  BY <1>l, <1>q, <1>x DEF Shape, StepList, OtherList
<1>2. Between'
  BY <1>t
<1>3. FlagsOK'
  BY <1>u, Zenon DEF FlagsOK
<1>4. DataOK'
  BY <1>u, <1>x, SupervisorAssumption DEF DataOK
<1>5. Begun'
  BY <1>q, <1>s, <1>u, SupervisorAssumption DEF Begun, Ev
<1>6. Sampling'
  BY <1>f, <1>q, <1>u DEF Sampling, Ev, Ef
<1>7. Armed'
  <2>1. CASE wt' = <<>> \/ wt' = <<SetLink(next)>>
    <3>1. ~step_pending /\ ~PluggedIn(next)
      <4>1. <<>> # <<Step>> /\ <<SetLink(next)>> # <<Step>>
        BY <1>x, Seq1, Kinds
      <4>2. /\ <<>> # <<SetLink(next), Step>> /\ <<>> # <<SetLink(next), Ask, Step>>
            /\ <<SetLink(next)>> # <<SetLink(next), Step>>
            /\ <<SetLink(next)>> # <<SetLink(next), Ask, Step>>
        BY Seq1, Seq2, Seq3
      <4>3. QED
        BY <1>l, <2>1, <4>1, <4>2
    <3>2. watchdog_deadline # None
      BY <1>q, <1>s, <3>1, EmptyList DEF Armed, Ev
    <3>3. QED
      BY <1>u, <3>1, <3>2 DEF Armed
  <2>2. CASE wt' \in StepList
    BY <2>2 DEF Armed
  <2>3. QED
    BY <1>l, <1>x, <2>1, <2>2 DEF StepList
<1>8. Agreed'
  BY <1>e, <1>f, <1>q, <1>u DEF Agreed, Ev, Ef
<1>9. Rested'
  <2>1. watchdog_deadline' # None => rest' =< watchdog_deadline'
    <3>1. CASE PluggedIn(next)
      BY <1>u, <3>1
    <3>2. CASE ~PluggedIn(next)
      BY <1>u, <3>2 DEF Rested
    <3>3. QED
      BY <3>1, <3>2
  <2>2. Head(<<Step>>).type = "StepWatchdog"
    BY Seq1, Kinds
  <2>3. wt' = <<Step>> => rest = 0
    BY <1>f, <2>2, Seq1
  <2>4. \A l \in Link : wt' = <<SetLink(l), Step>> => rest = 0
    BY <1>f, Seq2, Kinds
  <2>5. QED
    BY <1>e, <1>q, <1>u, <2>1, <2>3, <2>4 DEF Rested, Ev
<1>10. OneStep'
  <2>1. CASE step_pending \/ PluggedIn(next)
    BY <1>u, <2>1 DEF OneStep
  <2>2. CASE ~step_pending /\ ~PluggedIn(next)
    <3>1. wt' = <<>> \/ wt' = <<SetLink(next)>>
      BY <1>t, <1>u, <1>x, <2>2, LinkLists
    <3>2. <<SetLink(next)>> \notin StepList
      BY <1>x, Seq1, Seq2, Seq3, Kinds DEF StepList
    <3>3. QED
      BY <1>u, <3>1, <3>2, EmptyList DEF OneStep
  <2>3. QED
    BY <2>1, <2>2
<1>11. Toasts'
  BY <1>f, <1>q, <1>u DEF Toasts, Ev, Ef
<1>12. Seen'
  <2>1. eth_link' = seen
    BY <1>q, <1>u DEF Seen, Ev, next
  <2>2. QED
    BY <1>q, <1>u, <2>1 DEF Seen, Ev
<1>13. QED
  BY <1>1, <1>2, <1>3, <1>4, <1>5, <1>6, <1>7, <1>8, <1>9, <1>10, <1>11, <1>12

\* The watchdog is told the link state.
LEMMA SetLinkInv == ASSUME IInv, ExecSetWatchdogLink PROVE IInv'
<1>z. Shape /\ Between /\ Exec("SetWatchdogLink")
  BY DEF IInv, ExecSetWatchdogLink
<1>x. /\ Ef("SetWatchdogLink") /\ wq = <<>> /\ wt \in StepList \cup OtherList
      /\ Head(wt) = Head(todo) /\ wt' = Tail(wt)
  BY <1>z, ExecView DEF Ef
<1>c. queue \in {<<>>, <<Wlan>>} /\ todo' = Tail(wt)
  BY <1>z, ExecView
<1> USE DEF IInv, ExecSetWatchdogLink, Exec, wiredVars, timers, sessVars,
        toastVars, wdVars, ghostVars
<1>l. /\ Head(wt).up = eth_link
      /\ \/ wt' = <<>>
         \/ wt' = <<Step>> /\ wt \in StepList /\ rest = 0 /\ fresh
         \/ wt' = <<Ask, Step>> /\ wt \in StepList
  <2>1. Head(wt).up = eth_link
    BY <1>x DEF Agreed
  <2>2. \A l \in Link : <<SetLink(l), Step>> \in StepList /\ <<SetLink(l), Ask, Step>> \in StepList
    BY DEF StepList
  <2>3. \A l \in Link : wt = <<SetLink(l), Step>> => rest = 0 /\ fresh
    BY DEF Rested
  <2>4. QED
    BY <1>x, <2>1, <2>2, <2>3, Lists
<1>k. /\ wt \in StepList => wt' # <<>>
      /\ wt' = <<>> \/ (wt' # <<>> /\ Head(wt').type \in {"StepWatchdog", "RequestRedial"})
  <2>1. /\ <<Step>> # <<>> /\ Head(<<Step>>).type = "StepWatchdog"
        /\ <<Ask, Step>> # <<>> /\ Head(<<Ask, Step>>).type = "RequestRedial"
    BY Seq1, Seq2, Kinds
  <2>2. wt \in StepList => wt' # <<>>
    <3>1. ASSUME NEW l \in Link
          PROVE  /\ Tail(<<SetLink(l), Step>>) = <<Step>>
                 /\ Tail(<<SetLink(l), Ask, Step>>) = <<Ask, Step>>
      BY Seq2, Seq3
    <3>2. wt # <<Step>> /\ wt # <<Ask, Step>>
      BY <1>x, <2>1 DEF Ef
    <3>3. QED
      BY <1>x, <2>1, <3>1, <3>2 DEF StepList
  <2>3. QED
    BY <1>l, <2>1, <2>2
<1>f. \A l \in Link : wt' # <<SetLink(l), Step>>
  <2>1. \A l \in Link : /\ <<SetLink(l), Step>> # <<>>
                        /\ Head(<<SetLink(l), Step>>).type = "SetWatchdogLink"
    BY Seq2, Kinds
  <2>2. QED
    BY <1>k, <2>1
<1>w. ~wd_redial
  BY <1>x, Seq1, Kinds DEF Agreed, Ef
<1>b. Between' /\ wq' = wq
  <2>1. queue' = queue
    OBVIOUS
  <2>2. todo' \in {<<>>, <<Step>>, <<Ask, Step>>}
    BY <1>c, <1>l, <1>x
  <2>3. QED
    BY <1>c, <2>1, <2>2, PlainView DEF Between, StepList, wq
<1>u. /\ wd_link' = Head(wt).up /\ wt' = Tail(wt) /\ wq' = wq
      /\ UNCHANGED <<started, stopped, wiredVars, timers, sessVars, toastVars, cable,
                     wd_redial, wd_status, ghostVars>>
  BY <1>b, <1>x
<1> HIDE DEF ExecSetWatchdogLink, Exec
<1>1. Shape'
  BY <1>l, <1>u, <1>x DEF Shape, StepList
<1>2. Between'
  BY <1>b
<1>3. FlagsOK'
  BY <1>u, Zenon DEF FlagsOK
<1>4. DataOK'
  BY <1>l, <1>u DEF DataOK
<1>5. Begun'
  BY <1>u DEF Begun, Ev
<1>6. Sampling'
  BY <1>k, <1>u, <1>x DEF Sampling, Ev, Ef
<1>7. Armed'
  BY <1>l, <1>k, <1>u, <1>x DEF Armed, Ev, StepList
<1>8. Agreed'
  BY <1>l, <1>k, <1>u, <1>w, <1>x DEF Agreed, Ev, Ef
<1>9. Rested'
  BY <1>l, <1>f, <1>k, <1>u, <1>x, Seq2, Kinds DEF Rested, Ev
<1>10. OneStep'
  BY <1>l, <1>u, EmptyList DEF OneStep
<1>11. Toasts'
  BY <1>k, <1>u, <1>x DEF Toasts, Ev, Ef
<1>12. Seen'
  BY <1>u, <1>x DEF Seen, Ev
<1>13. QED
  BY <1>1, <1>2, <1>3, <1>4, <1>5, <1>6, <1>7, <1>8, <1>9, <1>10, <1>11, <1>12

\* A redial is asked for.
LEMMA AskInv == ASSUME IInv, ExecRequestRedial PROVE IInv'
<1>z. Shape /\ Between /\ Exec("RequestRedial")
  BY DEF IInv, ExecRequestRedial
<1>x. /\ Ef("RequestRedial") /\ wq = <<>> /\ wt \in StepList \cup OtherList
      /\ Head(wt) = Head(todo) /\ wt' = Tail(wt)
  BY <1>z, ExecView DEF Ef
<1>c. queue \in {<<>>, <<Wlan>>} /\ todo' = Tail(wt)
  BY <1>z, ExecView
<1> USE DEF IInv, ExecRequestRedial, Exec, wiredVars, timers, sessVars,
        toastVars, wdVars, ghostVars
<1>b. queue' = queue /\ wq' = wq
  BY DEF wq
<1>l. /\ wt' = <<Step>> /\ wt' # <<>> /\ Head(wt').type = "StepWatchdog"
      /\ wt = <<Ask, Step>> /\ wq' = wq
  BY <1>b, <1>x, Lists, Seq1, Kinds
<1>f. \A l \in Link : wt' # <<SetLink(l), Step>>
  BY <1>l, Seq2, Kinds
<1>1. Shape'
  BY <1>l, <1>x DEF Shape, StepList
<1>2. Between'
  BY <1>b, <1>c, <1>l, <1>x, PlainView DEF Between, StepList
<1>3. FlagsOK'
  BY Zenon DEF FlagsOK
<1>4. DataOK'
  BY DEF DataOK
<1>5. Begun'
  BY <1>l DEF Begun, Ev
<1>6. Sampling'
  BY <1>l, <1>x DEF Sampling, Ev, Ef
<1>7. Armed'
  BY <1>l DEF Armed, StepList
<1>8. Agreed'
  BY <1>l, <1>x DEF Agreed, Ev, Ef
<1>9. Rested'
  BY <1>f, <1>l, <1>x DEF Rested, Ev
<1>10. OneStep'
  BY <1>l DEF OneStep, StepList
<1>11. Toasts'
  BY <1>l, <1>x DEF Toasts, Ev, Ef
<1>12. Seen'
  BY <1>l, <1>x DEF Seen, Ev
<1>13. QED
  BY <1>1, <1>2, <1>3, <1>4, <1>5, <1>6, <1>7, <1>8, <1>9, <1>10, <1>11, <1>12

\* The session is hung up.
LEMMA HangupInv == ASSUME IInv, ExecHangup PROVE IInv'
<1>z. Shape /\ Between /\ Exec("Hangup")
  BY DEF IInv, ExecHangup
<1>x. /\ Ef("Hangup") /\ wq = <<>> /\ wt \in StepList \cup OtherList
      /\ Head(wt) = Head(todo) /\ wt' = Tail(wt)
  BY <1>z, ExecView DEF Ef
<1>c. queue \in {<<>>, <<Wlan>>} /\ todo' = Tail(wt)
  BY <1>z, ExecView
<1> USE DEF IInv, ExecHangup, Exec, wiredVars, timers, sessVars, toastVars,
        wdVars, ghostVars
<1>b. queue' = queue /\ wq' = wq
  BY DEF wq
<1>l. wt' = <<>> /\ wt = <<Hangup>> /\ wq' = wq /\ wt \notin StepList
  <2>1. wt = <<Hangup>> /\ Tail(wt) = <<>>
    BY <1>x, Lists
  <2>2. \A l \in Link : /\ Head(<<SetLink(l), Step>>).type = "SetWatchdogLink"
                        /\ Head(<<SetLink(l), Ask, Step>>).type = "SetWatchdogLink"
    BY Seq2, Seq3, Kinds
  <2>3. Head(<<Step>>).type = "StepWatchdog" /\ Head(<<Ask, Step>>).type = "RequestRedial"
    BY Seq1, Seq2, Kinds
  <2>4. wt \notin StepList
    BY <1>x, <2>1, <2>2, <2>3 DEF Ef, StepList
  <2>5. QED
    BY <1>b, <1>x, <2>1, <2>4
<1>f. wt' # <<Step>> /\ wt # <<Step>> /\ \A l \in Link : wt' # <<SetLink(l), Step>>
  BY <1>l, <1>x, Seq1, Seq2, Kinds DEF Ef
<1>1. Shape'
  BY <1>l, <1>x DEF Shape
<1>2. Between'
  BY <1>b, <1>c, <1>l, <1>x, PlainView DEF Between
<1>3. FlagsOK'
  BY Zenon DEF FlagsOK
<1>4. DataOK'
  BY DEF DataOK
<1>5. Begun'
  BY <1>l DEF Begun, Ev
<1>6. Sampling'
  BY <1>l, <1>x DEF Sampling, Ev, Ef
<1>7. Armed'
  BY <1>l DEF Armed, Ev
<1>8. Agreed'
  BY <1>f, <1>l, <1>x DEF Agreed, Ev, Ef
<1>9. Rested'
  BY <1>f, <1>l, <1>x DEF Rested, Ev
<1>10. OneStep'
  BY <1>l, EmptyList DEF OneStep
<1>11. Toasts'
  BY <1>l, <1>x DEF Toasts, Ev, Ef
<1>12. Seen'
  BY <1>l, <1>x DEF Seen, Ev
<1>13. QED
  BY <1>1, <1>2, <1>3, <1>4, <1>5, <1>6, <1>7, <1>8, <1>9, <1>10, <1>11, <1>12

\* The link is sampled, or cannot be.
LEMMA SampleInv == ASSUME IInv, ExecSampleLink PROVE IInv'
<1>z. Shape /\ Between /\ Exec("SampleLink")
  BY DEF IInv, ExecSampleLink
<1>x. /\ Ef("SampleLink") /\ wq = <<>> /\ wt \in StepList \cup OtherList
      /\ Head(wt) = Head(todo) /\ wt' = Tail(wt)
  BY <1>z, ExecView DEF Ef
<1>c. queue = <<>> /\ todo' \in {<<>>, <<AskWlan>>}
  BY <1>z, ExecView
<1> USE DEF IInv, ExecSampleLink, Exec, wiredVars, timers, sessVars, toastVars,
        wdVars, ghostVars
<1>n. wt \notin StepList
  <2>1. \A l \in Link : /\ Head(<<SetLink(l), Step>>).type = "SetWatchdogLink"
                        /\ Head(<<SetLink(l), Ask, Step>>).type = "SetWatchdogLink"
    BY Seq2, Seq3, Kinds
  <2>2. Head(<<Step>>).type = "StepWatchdog" /\ Head(<<Ask, Step>>).type = "RequestRedial"
    BY Seq1, Seq2, Kinds
  <2>3. QED
    BY <1>x, <2>1, <2>2 DEF Ef, StepList
<1>r. ~wd_redial
  BY <1>x, Seq1, Kinds DEF Agreed, Ef
<1>p. PICK up \in {"None", cable} :
          /\ queue' = Append(queue, [type |-> "LinkSampled", up |-> up])
          /\ seen' = IF up = "None" THEN seen ELSE up
  OBVIOUS
<1> DEFINE e == [type |-> "LinkSampled", up |-> up]
<1>e. e \in Events /\ e.type = "LinkSampled" /\ e.up = up
  BY DEF Events, DataOK, Link
<1>q. wq' = <<e>> /\ queue' = <<e>>
  BY <1>c, <1>e, <1>p, AnswerView, Seq1
<1>u. /\ wt' = Tail(wt) /\ fresh' = TRUE /\ seen' = IF up = "None" THEN seen ELSE up
      /\ UNCHANGED <<started, stopped, wiredVars, timers, sessVars, toastVars, cable,
                     wdVars, rest, dials_failing, toast_rest>>
  BY <1>p, <1>x
<1> HIDE DEF e, ExecSampleLink, Exec
<1>l. /\ wt' = <<>> /\ wq' = <<e>> /\ wq' # <<>> /\ Head(wq') = e
      /\ wq' = <<Head(wq')>>
  BY <1>q, <1>u, <1>x, Lists, Seq1
<1>y. wt' # <<Step>> /\ \A l \in Link : wt' # <<SetLink(l), Step>>
  BY <1>l, Seq1, Seq2
<1>1. Shape'
  BY <1>e, <1>l DEF Shape
<1>2. Between'
  BY <1>c, <1>e, <1>q, Queues, EmptyPlain DEF Between, Mixed
<1>3. FlagsOK'
  BY <1>u, Zenon DEF FlagsOK
<1>4. DataOK'
  BY <1>u DEF DataOK, Link
<1>5. Begun'
  BY <1>e, <1>l, <1>u, <1>x DEF Begun, Ev
<1>6. Sampling'
  BY <1>e, <1>l, <1>u, <1>x DEF Sampling, Ev, Ef
<1>7. Armed'
  BY <1>n, <1>u, <1>x DEF Armed, Ev
<1>8. Agreed'
  BY <1>e, <1>l, <1>r, <1>u, <1>x DEF Agreed, Ev, Ef
<1>9. Rested'
  BY <1>e, <1>l, <1>u, <1>x, <1>y DEF Rested, Ev
<1>10. OneStep'
  BY <1>l, <1>u, EmptyList DEF OneStep
<1>11. Toasts'
  BY <1>e, <1>l, <1>u, <1>x DEF Toasts, Ev, Ef
<1>12. Seen'
  BY <1>e, <1>l, <1>u, <1>x DEF Seen, Ev
<1>13. QED
  BY <1>1, <1>2, <1>3, <1>4, <1>5, <1>6, <1>7, <1>8, <1>9, <1>10, <1>11, <1>12

\* A toast is shown, or cannot be.
LEMMA NotifyInv == ASSUME IInv, ExecNotify PROVE IInv'
<1>z. Shape /\ Between /\ Exec("Notify")
  BY DEF IInv, ExecNotify
<1>x. /\ Ef("Notify") /\ wq = <<>> /\ wt \in StepList \cup OtherList
      /\ Head(wt) = Head(todo) /\ wt' = Tail(wt)
  BY <1>z, ExecView DEF Ef
<1>c. queue = <<>> /\ todo' = Tail(wt)
  BY <1>z, ExecView
<1> USE DEF IInv, ExecNotify, Exec, wiredVars, timers, sessVars, toastVars,
        wdVars, ghostVars
<1>n. wt \notin StepList
  <2>1. \A l \in Link : /\ Head(<<SetLink(l), Step>>).type = "SetWatchdogLink"
                        /\ Head(<<SetLink(l), Ask, Step>>).type = "SetWatchdogLink"
    BY Seq2, Seq3, Kinds
  <2>2. Head(<<Step>>).type = "StepWatchdog" /\ Head(<<Ask, Step>>).type = "RequestRedial"
    BY Seq1, Seq2, Kinds
  <2>3. QED
    BY <1>x, <2>1, <2>2 DEF Ef, StepList
<1>r. ~wd_redial
  BY <1>x, Seq1, Kinds DEF Agreed, Ef
<1>k. Head(wt).key \in ToastKey
  BY <1>x, Lists
<1>p. PICK ok \in BOOLEAN :
          /\ queue' = Append(queue, [type |-> "NotifyResult",
                                     key |-> Head(wt).key, delivered |-> ok])
          /\ toast_rest' = IF ok THEN [toast_rest EXCEPT
                                           ![Head(wt).key] = Throttle]
                           ELSE toast_rest
  BY <1>x
<1> DEFINE e == [type |-> "NotifyResult", key |-> Head(wt).key, delivered |-> ok]
<1>e. e.type = "NotifyResult" /\ e.key = Head(wt).key /\ (ok => e.delivered)
  OBVIOUS
<1>v. e \in Events
  BY <1>k DEF Events
<1>q. wq' = <<e>> /\ queue' = <<e>>
  BY <1>c, <1>v, <1>p, AnswerView, Seq1
<1>u. /\ wt' = Tail(wt)
      /\ UNCHANGED <<started, stopped, wiredVars, timers, sessVars, toastVars, cable,
                     wdVars, rest, fresh, dials_failing, seen>>
  BY <1>x
<1>t. /\ toast_rest' \in [ToastKey -> 0..Throttle]
      /\ \A k \in ToastKey : toast_rest'[k] = toast_rest[k] \/ (k = Head(wt).key /\ ok)
  <2>1. CASE ok
    BY <1>k, <1>p, <2>1, SupervisorAssumption DEF DataOK
  <2>2. CASE ~ok
    BY <1>p, <2>2 DEF DataOK
  <2>3. QED
    BY <2>1, <2>2
<1> HIDE DEF e, ExecNotify, Exec
<1>l. /\ wt' = <<>> /\ wq' = <<e>> /\ wq' # <<>> /\ Head(wq') = e
      /\ wq' = <<Head(wq')>>
  BY <1>q, <1>u, <1>x, Lists, Seq1
<1>y. wt' # <<Step>> /\ \A l \in Link : wt' # <<SetLink(l), Step>>
  BY <1>l, Seq1, Seq2
<1>1. Shape'
  BY <1>v, <1>l DEF Shape
<1>2. Between'
  BY <1>c, <1>l, <1>q, <1>u, <1>v, Queues, EmptyPlain DEF Between, Mixed
<1>3. FlagsOK'
  BY <1>u, Zenon DEF FlagsOK
<1>4. DataOK'
  BY <1>t, <1>u DEF DataOK
<1>5. Begun'
  BY <1>e, <1>l, <1>u, <1>x DEF Begun, Ev
<1>6. Sampling'
  BY <1>e, <1>l, <1>u, <1>x DEF Sampling, Ev, Ef
<1>7. Armed'
  BY <1>n, <1>u, <1>x DEF Armed, Ev
<1>8. Agreed'
  BY <1>e, <1>l, <1>r, <1>u, <1>x DEF Agreed, Ev, Ef
<1>9. Rested'
  BY <1>e, <1>l, <1>u, <1>x, <1>y DEF Rested, Ev
<1>10. OneStep'
  BY <1>l, <1>u, EmptyList DEF OneStep
<1>11. Toasts'
  <2>1. in_flight' = {e.key}
    BY <1>e, <1>u, <1>x DEF Toasts
  <2>2. \A k \in ToastKey : \/ toast_rest'[k] =< delivered'[k]
                            \/ e.key = k /\ e.delivered
    BY <1>e, <1>t, <1>u, <1>x DEF Toasts, Ev
  <2>3. QED
    BY <1>e, <1>l, <2>1, <2>2 DEF Toasts, Ev, Ef
<1>12. Seen'
  BY <1>e, <1>l, <1>u, <1>x DEF Seen, Ev
<1>13. QED
  BY <1>1, <1>2, <1>3, <1>4, <1>5, <1>6, <1>7, <1>8, <1>9, <1>10, <1>11, <1>12

\* What a step of the watchdog may return.
LEMMA Results ==
    ASSUME DataOK, NEW r \in StepResults
    PROVE  r.status \in Status /\ r.delay \in Nat /\ r.link_down \in BOOLEAN
<1>1. ASSUME NEW st \in Status, NEW d \in Nat, NEW down \in BOOLEAN, r = Result(st, d, down)
      PROVE  r.status \in Status /\ r.delay \in Nat /\ r.link_down \in BOOLEAN
  BY <1>1 DEF Result
<1>2. /\ LinkDownRetry \in Nat /\ ProbeInterval \in Nat /\ AuthFailDelay \in Nat
      /\ ProbeInterval \div 4 \in Nat /\ \A d \in BackoffDelays : d \in Nat
  BY SupervisorAssumption
<1>3. {"Backoff", "Connected", "AuthFail"} \subseteq Status
  BY DEF Status
<1>4. \/ r = Result("Backoff", LinkDownRetry, TRUE)
      \/ r = Result("Connected", ProbeInterval, FALSE)
      \/ r = Result("AuthFail", AuthFailDelay, FALSE)
      \/ \E d \in BackoffDelays : r = Result("Backoff", d, FALSE)
      \/ r = Result("Connected", ProbeInterval \div 4, FALSE)
  BY Zenon DEF StepResults, DialResults
<1>5. QED
  BY <1>1, <1>2, <1>3, <1>4

\* The watchdog steps.
LEMMA StepInv == ASSUME IInv, ExecStepWatchdog PROVE IInv'
<1>z. Shape /\ Between /\ Exec("StepWatchdog")
  BY DEF IInv, ExecStepWatchdog
<1>x. /\ Ef("StepWatchdog") /\ wq = <<>> /\ wt \in StepList \cup OtherList
      /\ Head(wt) = Head(todo) /\ wt' = Tail(wt)
  BY <1>z, ExecView DEF Ef
<1>c. queue \in {<<>>, <<Wlan>>} /\ todo' = Tail(wt)
  BY <1>z, ExecView
<1> USE DEF IInv, ExecStepWatchdog, Exec, wiredVars, timers, sessVars,
        toastVars, wdVars, ghostVars
<1>p. PICK r \in StepResults :
          /\ wd_status' = r.status /\ rest' = r.delay
          /\ queue' = Append(queue, [type |-> "WatchdogStepped",
                                     status |-> r.status, delay |-> r.delay,
                                     link_down |-> r.link_down])
          /\ dials_failing' = IF r.status = "Connected" \/ r.link_down THEN None
                              ELSE IF dials_failing = None THEN 0
                              ELSE dials_failing
  OBVIOUS
<1>r. r.status \in Status /\ r.delay \in Nat /\ r.link_down \in BOOLEAN
  BY Results
<1> DEFINE e == [type |-> "WatchdogStepped", status |-> r.status, delay |-> r.delay,
                 link_down |-> r.link_down]
<1>e. e.type = "WatchdogStepped" /\ e.status = wd_status' /\ e.delay = rest'
  BY <1>p
<1>v. e \in Events
  BY <1>r DEF Events
<1>q. wq' = <<e>> /\ (queue' = <<e>> \/ queue' = <<Wlan, e>>)
  BY <1>c, <1>v, <1>p, AnswerView
<1>d. dials_failing' \in -1..ToastAfter
  <2>1. dials_failing' \in {None, 0, dials_failing}
    BY <1>p, Zenon
  <2>2. QED
    BY <2>1, SupervisorAssumption DEF DataOK, None
<1>u. /\ wt' = Tail(wt) /\ wd_redial' = FALSE
      /\ UNCHANGED <<started, stopped, wiredVars, timers, sessVars, toastVars, cable,
                     wd_link, fresh, toast_rest, seen>>
  BY <1>x
<1> HIDE DEF e, ExecStepWatchdog, Exec
<1>l. /\ wt' = <<>> /\ wq' = <<e>> /\ wq' # <<>> /\ Head(wq') = e
      /\ wq' = <<Head(wq')>>
  BY <1>q, <1>u, <1>x, Lists, Seq1
<1>y. wt' # <<Step>> /\ \A l \in Link : wt' # <<SetLink(l), Step>>
  BY <1>l, Seq1, Seq2
<1>1. Shape'
  BY <1>v, <1>l DEF Shape
<1>2. Between'
  BY <1>c, <1>e, <1>l, <1>q, <1>u, <1>v, Queues, EmptyPlain DEF Between, Mixed
<1>3. FlagsOK'
  BY <1>u, Zenon DEF FlagsOK
<1>4. DataOK'
  BY <1>d, <1>p, <1>r, <1>u DEF DataOK
<1>5. Begun'
  BY <1>e, <1>l, <1>u, <1>x DEF Begun, Ev
<1>6. Sampling'
  BY <1>e, <1>l, <1>u, <1>x DEF Sampling, Ev, Ef
<1>7. Armed'
  BY <1>e, <1>l DEF Armed, Ev
<1>8. Agreed'
  BY <1>e, <1>l, <1>u, <1>x DEF Agreed, Ev, Ef
<1>9. Rested'
  <2>1. watchdog_deadline = None
    BY <1>x, Lists DEF OneStep, StepList
  <2>2. ~step_pending
    BY <1>x, Kinds DEF Sampling, Ev, Ef
  <2>3. QED
    BY <1>e, <1>l, <1>u, <1>y, <2>1, <2>2 DEF Rested, Ev
<1>10. OneStep'
  BY <1>l, <1>u, EmptyList DEF OneStep
<1>11. Toasts'
  BY <1>e, <1>l, <1>u, <1>x DEF Toasts, Ev, Ef
<1>12. Seen'
  BY <1>e, <1>l, <1>u, <1>x DEF Seen, Ev
<1>13. QED
  BY <1>1, <1>2, <1>3, <1>4, <1>5, <1>6, <1>7, <1>8, <1>9, <1>10, <1>11, <1>12

\* The wireless sample is handed on.
LEMMA WirelessSampledInv == ASSUME IInv, OnWirelessSampled PROVE IInv'
<1> USE DEF IInv, OnWirelessSampled, Reduce, wiredVars, timers, sessVars,
        toastVars, wdVars, ghostVars
<1>a. /\ todo = <<>> /\ todo' = todo /\ queue # <<>> /\ queue' = Tail(queue)
      /\ Head(queue).type = "WirelessSampled"
  BY DEF Reduce
<1>b. \/ queue = <<Wlan>>
      \/ \E e \in Events : e.type = "WatchdogStepped" /\ queue = <<Wlan, e>>
  <2>1. <<>> # <<AskWlan>> /\ <<>> # <<Sample, AskWlan>>
    BY Seq1, Seq2
  <2>2. \A e \in Events : Head(<<e, Wlan>>).type # "WirelessSampled"
    BY EventFacts, Seq2
  <2>3. WiredQueue(queue) # queue
    <3>1. ASSUME wq = queue PROVE Head(queue) \in Events
      BY <1>a, <3>1 DEF Shape
    <3>2. wq # queue
      BY <1>a, <3>1, EventFacts
    <3>3. QED
      BY <3>2 DEF wq
  <2>4. QED
    BY <1>a, <2>1, <2>2, <2>3 DEF Between, Mixed
<1>t. wq' = wq /\ wt' = wt /\ Between'
  <2>1. CASE queue = <<Wlan>>
    <3>1. queue' = <<>>
      BY <1>a, <2>1, Seq1
    <3>2. QED
      BY <1>a, <2>1, <3>1, Queues, PlainView DEF wq, wt, Between
  <2>2. ASSUME NEW e \in Events, queue = <<Wlan, e>>
        PROVE  wq' = wq /\ wt' = wt /\ Between'
    <3>1. queue' = <<e>>
      BY <1>a, <2>2, Seq2
    <3>2. wq' = <<e>> /\ wq = <<e>> /\ WiredQueue(queue') = queue'
      BY <2>2, <3>1, Queues DEF wq
    <3>3. QED
      BY <1>a, <3>2, EmptyPlain DEF wt, Between, Mixed
  <2>3. QED
    BY <1>b, <2>1, <2>2
<1>u. UNCHANGED <<started, stopped, wiredVars, timers, sessVars, toastVars, wdVars, cable,
                  ghostVars>>
  BY DEF Reduce
<1> HIDE DEF OnWirelessSampled, Reduce
<1>1. Shape'
  BY <1>t, <1>u DEF Shape, Ev, Ef
<1>2. Between'
  BY <1>t
<1>3. FlagsOK'
  BY <1>u, Zenon DEF FlagsOK
<1>4. DataOK'
  BY <1>t, <1>u DEF DataOK, Ev, Ef
<1>5. Begun'
  BY <1>t, <1>u DEF Begun, Ev, Ef
<1>6. Sampling'
  BY <1>t, <1>u DEF Sampling, Ev, Ef
<1>7. Armed'
  BY <1>t, <1>u DEF Armed, Ev, Ef
<1>8. Agreed'
  BY <1>t, <1>u DEF Agreed, Ev, Ef
<1>9. Rested'
  BY <1>t, <1>u DEF Rested, Ev, Ef
<1>10. OneStep'
  BY <1>t, <1>u DEF OneStep, Ev, Ef
<1>11. Toasts'
  BY <1>t, <1>u DEF Toasts, Ev, Ef
<1>12. Seen'
  BY <1>t, <1>u DEF Seen, Ev, Ef
<1>13. QED
  BY <1>1, <1>2, <1>3, <1>4, <1>5, <1>6, <1>7, <1>8, <1>9, <1>10, <1>11, <1>12

\* The wireless adapter is sampled.
LEMMA SampleWirelessInv == ASSUME IInv, ExecSampleWireless PROVE IInv'
<1> USE DEF IInv, ExecSampleWireless, Exec, wiredVars, timers, sessVars,
        toastVars, wdVars, ghostVars
<1>a. /\ todo # <<>> /\ todo' = Tail(todo) /\ Head(todo).type = "SampleWireless"
      /\ queue' = Append(queue, Wlan)
  BY DEF Exec, Wlan
<1>b. /\ todo = <<AskWlan>> /\ wt = <<>>
      /\ \/ queue = <<>>
         \/ \E e \in Events : e.type = "LinkSampled" /\ queue = <<e>>
  BY <1>a, WlanView
<1>c. todo' = <<>> /\ wt' = wt
  BY <1>a, <1>b, Seq1, EmptyPlain DEF wt
<1>t. wq' = wq /\ wt' = wt /\ Between'
  <2>1. CASE queue = <<>>
    <3>1. queue' = <<Wlan>>
      BY <1>a, <2>1, Seq1
    <3>2. QED
      BY <1>c, <2>1, <3>1, Queues, PlainView DEF wq, Between
  <2>2. ASSUME NEW e \in Events, e.type = "LinkSampled", queue = <<e>>
        PROVE  wq' = wq /\ wt' = wt /\ Between'
    <3>1. queue' = <<e, Wlan>>
      BY <1>a, <2>2, Append2
    <3>2. wq' = <<e>> /\ wq = <<e>>
      BY <2>2, <3>1, Queues DEF wq
    <3>3. QED
      BY <1>c, <2>2, <3>1, <3>2 DEF Between, Mixed
  <2>3. QED
    BY <1>b, <2>1, <2>2
<1>u. UNCHANGED <<started, stopped, wiredVars, timers, sessVars, toastVars, wdVars, cable,
                  ghostVars>>
  BY DEF Exec
<1> HIDE DEF ExecSampleWireless, Exec
<1>1. Shape'
  BY <1>t, <1>u DEF Shape, Ev, Ef
<1>2. Between'
  BY <1>t
<1>3. FlagsOK'
  BY <1>u, Zenon DEF FlagsOK
<1>4. DataOK'
  BY <1>t, <1>u DEF DataOK, Ev, Ef
<1>5. Begun'
  BY <1>t, <1>u DEF Begun, Ev, Ef
<1>6. Sampling'
  BY <1>t, <1>u DEF Sampling, Ev, Ef
<1>7. Armed'
  BY <1>t, <1>u DEF Armed, Ev, Ef
<1>8. Agreed'
  BY <1>t, <1>u DEF Agreed, Ev, Ef
<1>9. Rested'
  BY <1>t, <1>u DEF Rested, Ev, Ef
<1>10. OneStep'
  BY <1>t, <1>u DEF OneStep, Ev, Ef
<1>11. Toasts'
  BY <1>t, <1>u DEF Toasts, Ev, Ef
<1>12. Seen'
  BY <1>t, <1>u DEF Seen, Ev, Ef
<1>13. QED
  BY <1>1, <1>2, <1>3, <1>4, <1>5, <1>6, <1>7, <1>8, <1>9, <1>10, <1>11, <1>12

\* The shell takes an external event.
LEMMA TakeInv ==
    ASSUME IInv, NEW e \in Events, Take(e), e.type \in {"Wake", "Redial", "Heartbeat", "Stop"}
    PROVE  IInv'
<1> USE DEF IInv, wiredVars, timers, sessVars, toastVars, wdVars, ghostVars
<1>r. queue = <<>> /\ todo = <<>> /\ queue' = <<e>> /\ todo' = todo
  BY DEF Take, Sleeping, Handling
<1>s. wq = <<>> /\ wt = <<>> /\ wt' = wt
  BY <1>r, Queues, EmptyPlain DEF wq, wt
<1>b. wq' = <<e>> /\ Between'
  BY <1>r, Queues, EmptyPlain DEF wq, Between, Mixed
<1>q. /\ wq' = <<e>> /\ wq' # <<>> /\ Head(wq') = e /\ wq' = <<Head(wq')>>
  BY <1>b, Seq1
<1>u. /\ fresh' = FALSE /\ wt' = wt
      /\ UNCHANGED <<started, stopped, wiredVars, timers, sessVars, toastVars,
                     wdVars, cable, rest, dials_failing, toast_rest, seen>>
  BY <1>s DEF Take
<1>e. e.type \notin {"Started", "LinkSampled", "WatchdogStepped", "NotifyResult"}
  OBVIOUS
<1>y. wt # <<Step>> /\ \A l \in Link : wt # <<SetLink(l), Step>>
  BY <1>s, Seq1, Seq2
<1>a. started
  BY <1>s DEF Begun, Ev
<1>1. Shape'
  BY <1>q, <1>s, <1>u DEF Shape
<1>2. Between'
  BY <1>b
<1>3. FlagsOK'
  BY <1>u, Zenon DEF FlagsOK
<1>4. DataOK'
  BY <1>u DEF DataOK
<1>5. Begun'
  BY <1>a, <1>e, <1>q, <1>u DEF Begun, Ev
<1>6. Sampling'
  BY <1>e, <1>q, <1>s, <1>u DEF Sampling, Ev, Ef
<1>7. Armed'
  BY <1>s, <1>u DEF Armed, Ev
<1>8. Agreed'
  BY <1>e, <1>q, <1>s, <1>u DEF Agreed, Ev, Ef
<1>9. Rested'
  BY <1>e, <1>q, <1>s, <1>u, <1>y DEF Rested, Ev
<1>10. OneStep'
  BY <1>u DEF OneStep
<1>11. Toasts'
  BY <1>e, <1>q, <1>s, <1>u DEF Toasts, Ev, Ef
<1>12. Seen'
  BY <1>e, <1>q, <1>s, <1>u DEF Seen, Ev
<1>13. QED
  BY <1>1, <1>2, <1>3, <1>4, <1>5, <1>6, <1>7, <1>8, <1>9, <1>10, <1>11, <1>12

\* The cable is moved, or nothing happens.
LEMMA CableInv == ASSUME IInv, CableMoves \/ UNCHANGED vars PROVE IInv'
<1> USE DEF IInv, CableMoves, vars, wiredVars, timers, sessVars, toastVars,
        wdVars, ghostVars
<1>w. wq' = wq /\ wt' = wt /\ Between'
  BY DEF wq, wt, Between
<1>1. Shape'
  BY <1>w DEF Shape, Ev, Ef
<1>2. Between'
  BY <1>w
<1>3. FlagsOK'
  BY Zenon DEF FlagsOK
<1>4. DataOK'
  BY <1>w DEF DataOK, Ev, Ef
<1>5. Begun'
  BY <1>w DEF Begun, Ev, Ef
<1>6. Sampling'
  BY <1>w DEF Sampling, Ev, Ef
<1>7. Armed'
  BY <1>w DEF Armed, Ev, Ef
<1>8. Agreed'
  BY <1>w DEF Agreed, Ev, Ef
<1>9. Rested'
  BY <1>w DEF Rested, Ev, Ef
<1>10. OneStep'
  BY <1>w DEF OneStep, Ev, Ef
<1>11. Toasts'
  BY <1>w DEF Toasts, Ev, Ef
<1>12. Seen'
  BY <1>w DEF Seen, Ev, Ef
<1>13. QED
  BY <1>1, <1>2, <1>3, <1>4, <1>5, <1>6, <1>7, <1>8, <1>9, <1>10, <1>11, <1>12

\* Time passes.
LEMMA TickInv == ASSUME IInv, Tick PROVE IInv'
<1> USE DEF IInv, Tick, wiredVars, timers, sessVars, toastVars, wdVars,
        ghostVars
<1>w. wq' = wq /\ wt' = wt /\ Between'
  BY DEF wq, wt, Between
<1>q. ~Ev("WatchdogStepped") /\ ~Ev("NotifyResult")
  <2>1. CASE Sleeping
    BY <2>1, Queues DEF Sleeping, Handling, wq, Ev
  <2>2. CASE todo # <<>> /\ Head(todo).type # "SampleWireless"
    BY <2>2, FirstView DEF Ev
  <2>3. CASE todo # <<>> /\ Head(todo).type = "SampleWireless"
    <3>1. \/ queue = <<>>
          \/ \E e \in Events : e.type = "LinkSampled" /\ queue = <<e>>
      BY <2>3, WlanView
    <3>2. wq = <<>> \/ \E e \in Events : e.type = "LinkSampled" /\ wq = <<e>>
      BY <3>1, Queues DEF wq
    <3>3. QED
      BY <3>2, Seq1 DEF Ev
  <2>4. QED
    BY <2>1, <2>2, <2>3
<1>u. /\ wq' = wq /\ wt' = wt
      /\ UNCHANGED <<started, stopped, wiredVars, status, in_flight, wdVars, cable, fresh,
                     seen>>
  BY <1>w
<1>l. /\ watchdog_deadline' = Left(watchdog_deadline) /\ link_poll_at' = Left(link_poll_at)
      /\ rest' = Left(rest)
      /\ failing_since' = Older(failing_since, ToastAfter)
      /\ dials_failing' = Older(dials_failing, ToastAfter)
      /\ delivered' = [k \in ToastKey |-> Left(delivered[k])]
      /\ toast_rest' = [k \in ToastKey |-> Left(toast_rest[k])]
  OBVIOUS
<1> HIDE DEF Tick
<1>1. Shape'
  BY <1>u DEF Shape
<1>2. Between'
  BY <1>w
<1>3. FlagsOK'
  BY <1>u, Zenon DEF FlagsOK
<1>4. DataOK'
  <2>1. delivered' \in [ToastKey -> 0..Throttle] /\ toast_rest' \in [ToastKey -> 0..Throttle]
    BY <1>l, SupervisorAssumption DEF DataOK, Left
  <2>2. /\ watchdog_deadline' \in Nat \cup {None} /\ link_poll_at' \in -1..LinkPoll
        /\ rest' \in Nat
    BY <1>l, SupervisorAssumption DEF DataOK, Left, None
  <2>3. failing_since' \in -1..ToastAfter /\ dials_failing' \in -1..ToastAfter
    BY <1>l, SupervisorAssumption DEF DataOK, Older, None
  <2>4. QED
    BY <1>u, <2>1, <2>2, <2>3 DEF DataOK
<1>5. Begun'
  BY <1>l, <1>u, SupervisorAssumption DEF Begun, Ev, Left
<1>6. Sampling'
  BY <1>u DEF Sampling, Ev, Ef
<1>7. Armed'
  BY <1>l, <1>u DEF Armed, Ev, Left, None, DataOK
<1>8. Agreed'
  BY <1>u DEF Agreed, Ev, Ef
<1>9. Rested'
  <2>1. rest = 0 => rest' = 0
    BY <1>l DEF Left
  <2>2. watchdog_deadline' # None => rest' =< watchdog_deadline'
    BY <1>l DEF Rested, DataOK, Left, None
  <2>3. QED
    BY <1>q, <1>u, <2>1, <2>2 DEF Rested, Ev
<1>10. OneStep'
  BY <1>l, <1>u DEF OneStep, Left, None
<1>11. Toasts'
  <2>1. \A k \in ToastKey : toast_rest[k] =< delivered[k]
    BY <1>q DEF Toasts, Ev
  <2>2. ASSUME NEW k \in ToastKey
        PROVE  toast_rest'[k] =< delivered'[k] /\ (toast_rest[k] = 0 => toast_rest'[k] = 0)
    BY <1>l, <2>1 DEF DataOK, Left
  <2>3. Ef("Notify") => Head(wt).key \in ToastKey
    BY AtHand, Lists DEF Ef
  <2>4. QED
    BY <1>q, <1>u, <2>2, <2>3 DEF Toasts, Ev, Ef
<1>12. Seen'
  BY <1>u DEF Seen, Ev
<1>13. QED
  BY <1>1, <1>2, <1>3, <1>4, <1>5, <1>6, <1>7, <1>8, <1>9, <1>10, <1>11, <1>12

-----------------------------------------------------------------------------
(***************************************************************************)
(* The theorems                                                            *)
(***************************************************************************)
\* The inductive invariant is one: it holds at first and every step keeps it.
THEOREM SupervisorInvariance == Spec => []IInv
<1>1. Init => IInv
  BY InitInv
<1>2. IInv /\ [Next]_vars => IInv'
  <2> SUFFICES ASSUME IInv, [Next]_vars
               PROVE  IInv'
    OBVIOUS
  <2>1. CASE TakeWake \/ TakeRedial \/ TakeStop
    <3>1. ASSUME NEW t \in {"Wake", "Redial", "Stop"}
          PROVE  Event(t) \in Events /\ Event(t).type = t
      BY DEF Event, Events
    <3>2. QED
      BY <2>1, <3>1, TakeInv DEF TakeWake, TakeRedial, TakeStop
  <2>2. CASE TakeHeartbeat
    <3>1. PICK s \in {"Running", "Error"} : Take([type |-> "Heartbeat", status |-> s])
      BY <2>2 DEF TakeHeartbeat
    <3> DEFINE e == [type |-> "Heartbeat", status |-> s]
    <3>2. e \in Events /\ e.type = "Heartbeat" /\ Take(e)
      BY <3>1 DEF Events
    <3> HIDE DEF e
    <3>3. QED
      BY <3>2, TakeInv
  <2>3. CASE Reaction
    BY <2>3, StartedInv, WakeInv, RedialInv, LinkSampledInv, SteppedInv, HeartbeatInv,
       NotifyResultInv, StopInv, WirelessSampledInv DEF Reaction
  <2>4. CASE Execution
    BY <2>4, SampleInv, SampleWirelessInv, SetLinkInv, AskInv, StepInv, NotifyInv,
       HangupInv DEF Execution
  <2>5. CASE CableMoves \/ Tick \/ Terminated \/ UNCHANGED vars
    BY <2>5, CableInv, TickInv DEF Terminated
  <2>6. QED
    BY <2>1, <2>2, <2>3, <2>4, <2>5 DEF Next
<1>3. QED
  BY <1>1, <1>2, PTL DEF Spec

\* Types; in particular Shell::drain never has more than two events at hand, a
\* wired one and the wireless sample, whatever arrives while effects are
\* executed.
THEOREM TwoEventsAtMost == Spec => []TypeOK
<1>1. IInv => TypeOK
  <2> SUFFICES ASSUME IInv
               PROVE  TypeOK
    OBVIOUS
  <2>1. Len(queue) =< 2
    <3>1. CASE WiredQueue(queue) = queue
      <4>1. wq = queue
        BY <3>1 DEF wq
      <4>2. queue = <<>> \/ queue = <<Head(queue)>>
        BY <4>1 DEF IInv, Shape
      <4>3. QED
        BY <4>2
    <3>2. CASE queue = <<>> \/ (\E e : queue = <<e>>) \/ (\E e, f : queue = <<e, f>>)
      BY <3>2
    <3>3. QED
      BY <3>1, <3>2 DEF IInv, Between, Mixed
  <2>2. in_flight \subseteq ToastKey
    <3>1. Ef("Notify") => Head(wt).key \in ToastKey
      BY AtHand, Lists DEF IInv, Ef
    <3>2. Ev("NotifyResult") => Head(wq).key \in ToastKey
      BY AtHand, EventFacts DEF IInv, Ev
    <3>3. QED
      BY <3>1, <3>2 DEF IInv, Toasts
  <2>3. FlagsOK
    BY DEF IInv
  <2>4. QED
    BY <2>1, <2>2, <2>3 DEF IInv, TypeOK, FlagsOK, DataOK
<1>2. QED
  BY <1>1, SupervisorInvariance, PTL

\* A sleeping loop has nothing wired at hand.
LEMMA Asleep ==
    ASSUME Sleeping
    PROVE  wq = <<>> /\ wt = <<>>
BY Queues, EmptyPlain DEF Sleeping, Handling, wq, wt

\* The watchdog is about to step: nothing else is left to do, and no wired
\* event is at hand.
LEMMA AboutToStep ==
    ASSUME IInv, todo # <<>>, Head(todo).type = "StepWatchdog"
    PROVE  /\ wq = <<>> /\ wt = <<Step>> /\ todo = <<Step>>
           /\ queue = <<>> \/ queue = <<Wlan>>
           /\ eth_link = wd_link
<1>1. /\ wt # <<>> /\ Head(wt) = Head(todo) /\ wt \in StepList \cup OtherList
      /\ wq = <<>> /\ (queue = <<>> \/ queue = <<Wlan>>)
      /\ todo = wt \/ (todo = <<Sample, AskWlan>> /\ wt = <<Sample>>)
  BY FirstView DEF IInv
<1>2. wt = <<Step>>
  BY <1>1, Lists DEF Ef
<1>3. todo = wt
  BY <1>1, Seq1, Kinds
<1>4. eth_link = wd_link
  BY <1>1 DEF IInv, Agreed, Ef
<1>5. QED
  BY <1>1, <1>2, <1>3, <1>4

\* handle_wake, handle_command and handle_link_sampled never leave the loop
\* asleep without a next step, a next poll, or with something left in flight.
THEOREM LoopNeverStalls == Spec => []NoStall
<1>1. IInv => NoStall
  <2> SUFFICES ASSUME IInv, Running, Sleeping
               PROVE  /\ watchdog_deadline # None /\ link_poll_at \in 0..LinkPoll
                      /\ ~sample_in_flight /\ ~step_pending /\ in_flight = {}
    BY DEF NoStall
  <2>1. wq = <<>> /\ wt = <<>> /\ started
    BY Asleep DEF Running
  <2>2. ~sample_in_flight /\ ~step_pending
    BY <2>1 DEF IInv, Sampling, Ev, Ef
  <2>3. watchdog_deadline # None
    BY <2>1, <2>2, EmptyList DEF IInv, Armed, Ev
  <2>4. QED
    BY <2>1, <2>2, <2>3 DEF IInv, Begun, Toasts, Ev, Ef
<1>2. QED
  BY <1>1, SupervisorInvariance, PTL

\* The reducer and the watchdog agree when the loop sleeps, and the watchdog
\* steps once per reaction, on the newest link state the reducer knows.
THEOREM LoopInSync == Spec => []InSync
<1>1. IInv => InSync
  <2> SUFFICES ASSUME IInv
               PROVE  InSync
    OBVIOUS
  <2>1. ASSUME Running, Sleeping
        PROVE  status = wd_status /\ eth_link = wd_link /\ ~wd_redial
    BY <2>1, Asleep, Seq1 DEF IInv, Agreed, Ev, Ef
  <2>2. ASSUME todo # <<>>, Head(todo).type = "StepWatchdog"
        PROVE  /\ eth_link = wd_link
               /\ \A i \in 2..Len(todo) : todo[i].type # "StepWatchdog"
               /\ \A i \in DOMAIN queue : queue[i].type # "WatchdogStepped"
    <3>1. todo = <<Step>> /\ (queue = <<>> \/ queue = <<Wlan>>) /\ eth_link = wd_link
      BY <2>2, AboutToStep
    <3>2. Len(todo) = 1
      BY <3>1
    <3>3. \A i \in DOMAIN queue : queue[i] = Wlan
      BY <3>1
    <3>4. QED
      BY <3>1, <3>2, <3>3, Kinds
  <2>3. QED
    BY <2>1, <2>2 DEF InSync
<1>2. QED
  BY <1>1, SupervisorInvariance, PTL

\* handle_link_sampled keeps what is known over a failed reading and passes on
\* all that is read: the watchdog has the newest reading that succeeded
\* whenever it steps and whenever the loop sleeps.
THEOREM NewestReadingReaches == Spec => []NewestReading
<1>1. IInv => NewestReading
  <2> SUFFICES ASSUME IInv
               PROVE  NewestReading
    OBVIOUS
  <2>1. ASSUME Running, Sleeping
        PROVE  wd_link = seen
    BY <2>1, Asleep DEF IInv, Agreed, Seen, Ev, Ef
  <2>2. ASSUME todo # <<>>, Head(todo).type = "StepWatchdog"
        PROVE  wd_link = seen
    BY <2>2, AboutToStep DEF IInv, Seen, Ev
  <2>3. QED
    BY <2>1, <2>2 DEF NewestReading
<1>2. QED
  BY <1>1, SupervisorInvariance, PTL

\* A step that nobody asked for comes no sooner than the delay that the step
\* before it returned: no command, heartbeat or cable change cuts it short.
THEOREM RestIsHonoured == Spec => BackoffHonoured
<1>1. IInv /\ [Next]_vars => [ExecStepWatchdog /\ ~wd_redial => rest = 0]_vars
  <2> SUFFICES ASSUME IInv, ExecStepWatchdog, ~wd_redial
               PROVE  rest = 0
    OBVIOUS
  <2>1. wt = <<Step>>
    BY AboutToStep DEF ExecStepWatchdog, Exec
  <2>2. QED
    BY <2>1 DEF IInv, Rested
<1>2. QED
  BY <1>1, SupervisorInvariance, PTL DEF Spec, BackoffHonoured

\* ... and only after a link sample read in the same reaction chain.
THEOREM SampleBeforeStep == Spec => FreshLinkBeforeStep
<1>1. IInv /\ [Next]_vars => [ExecStepWatchdog /\ ~wd_redial => fresh]_vars
  <2> SUFFICES ASSUME IInv, ExecStepWatchdog, ~wd_redial
               PROVE  fresh
    OBVIOUS
  <2>1. wt = <<Step>>
    BY AboutToStep DEF ExecStepWatchdog, Exec
  <2>2. QED
    BY <2>1 DEF IInv, Rested
<1>2. QED
  BY <1>1, SupervisorInvariance, PTL DEF Spec, FreshLinkBeforeStep

\* notification.rs: two toasts of one kind are at least Throttle apart, a
\* failed delivery and one still in flight included.
THEOREM ToastsAreThrottled == Spec => ToastsThrottled
<1>1. IInv /\ [Next]_vars => [ExecNotify => toast_rest[Head(todo).key] = 0]_vars
  <2> SUFFICES ASSUME IInv, ExecNotify
               PROVE  toast_rest[Head(todo).key] = 0
    OBVIOUS
  <2>1. todo # <<>> /\ Head(todo).type = "Notify"
    BY DEF ExecNotify, Exec
  <2>2. wt # <<>> /\ Head(wt) = Head(todo)
    BY <2>1, FirstView DEF IInv
  <2>3. QED
    BY <2>1, <2>2 DEF IInv, Toasts, Ef
<1>2. QED
  BY <1>1, SupervisorInvariance, PTL DEF Spec, ToastsThrottled
=============================================================================
