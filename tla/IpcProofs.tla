----------------------------- MODULE IpcProofs -----------------------------
(***************************************************************************)
(* The mailbox loses no wake-up, pipes and command channel keep within     *)
(* their capacity, and a confirmed mode switch is real: for any number of  *)
(* clients, modes, clicks, restarts and any capacity.                      *)
(***************************************************************************)
EXTENDS Ipc, TLAPS

\* The types of the service, of the mailbox and its worker, of the command
\* line's session, and of the connections.
ServiceOK ==
    /\ restarts \in 0..MaxRestarts /\ mode \in Mode
    /\ queue \in Seq(Command) /\ Len(queue) =< QueueCap
    /\ acceptor \in {"create", "listen", "taken", "off"}
FlagsOK == up \in BOOLEAN /\ published \in BOOLEAN /\ wake \in BOOLEAN
MailOK ==
    /\ pending \in [redial : BOOLEAN, mode : Mode \cup {None}]
    /\ present \in Presence /\ clicks \in 0..MaxClicks[present]
WorkOK ==
    /\ worker \in {"idle", "take", "send", "write", "drop"}
    /\ batch \in Seq(Mode \cup {None}) /\ lane \in Lane \cup {None}
    /\ cache \in Mode \cup {None}
CliOK ==
    /\ cli \in [pc : {"idle", "first", "send", "confirm", "ok", "fail", "done"},
                want : Mode \cup {None}, left : 0..ConfirmFrames]
    /\ since \subseteq Mode /\ applied \in Nat

\* A connection's record: at most a pipe full of frames, none before the server
\* has taken the connection up, a snapshot to write when it waits for the pipe,
\* and commands only of the client whose it is.
Sound(c, k) ==
    /\ Len(k.down) =< PipeCap
    /\ k.st = "opened" => k.down = <<>>
    /\ k.st = "writing" => k.buf # None
    /\ \A i \in DOMAIN k.up : k.up[i].by = IF c = "cli" THEN "cli" ELSE "tray"
ConnsOK ==
    /\ conn \in [Client -> Conn]
    /\ \A c \in Client : Sound(c, conn[c])

\* The worker's session is one of its lanes, and it has a command to send; a
\* confirmation still has a frame to read.
Poised ==
    /\ worker \in {"write", "drop"} => lane \in Lane
    /\ worker = "write" => batch # <<>>
    /\ cli.pc = "confirm" => cli.left > 0

Waiting == conn["cli"].up # <<>>
Asking  == cli.pc \in {"first", "send", "confirm", "ok", "fail"}

\* The command line's command exists once at most: in its pipe, in the channel
\* or applied; and it is somewhere until the connection dies.
OneCommand ==
    /\ Len(conn["cli"].up) =< 1 /\ (Waiting => ~InQueue)
    /\ \A i, j \in DOMAIN queue : queue[i].by = "cli" /\ queue[j].by = "cli" => i = j
    /\ cli.pc \in {"idle", "first", "send"} => ~Waiting /\ ~InQueue /\ applied = 0
    /\ cli.pc = "done" => applied = 0
    /\ Waiting \/ InQueue => applied = 0
    /\ applied =< 1
    /\ cli.pc = "confirm" /\ conn["cli"].st # "dead" =>
          Waiting \/ InQueue \/ applied = 1

\* While the command line has its session open, every frame on its way to it
\* shows a mode that was in effect since the server took the session up; and
\* the server that serves it is there.
FramesReal ==
    /\ Asking => conn["cli"].open /\ conn["cli"].st # "none"
    /\ cli.pc = "idle" => conn["cli"].st = "none"
    /\ Asking /\ conn["cli"].st = "opened" => cli.pc = "first"
    /\ ~up => acceptor = "off" /\ conn["cli"].st \in {"none", "dead"}
    /\ Asking =>
          /\ \A i \in DOMAIN conn["cli"].down : conn["cli"].down[i] \in since
          /\ conn["cli"].st = "writing" => conn["cli"].buf \in since
          /\ conn["cli"].st \in {"serving", "writing"} => mode \in since
    /\ cli.pc = "ok" => cli.want \in since

\* The inductive invariant.
IInv == /\ ServiceOK /\ FlagsOK /\ MailOK /\ WorkOK /\ CliOK /\ ConnsOK
        /\ Poised /\ OneCommand /\ FramesReal /\ NoLostWakeup

-----------------------------------------------------------------------------
(***************************************************************************)
(* Sequences and connections                                               *)
(***************************************************************************)
\* The rest of a queue or pipe once its first entry is taken.
LEMMA TailFacts ==
    ASSUME NEW S, NEW s \in Seq(S), s # <<>>
    PROVE  /\ Head(s) \in S /\ Head(s) = s[1] /\ 1 \in DOMAIN s
           /\ Tail(s) \in Seq(S) /\ Len(Tail(s)) = Len(s) - 1
           /\ \A i \in DOMAIN Tail(s) : i + 1 \in DOMAIN s /\ Tail(s)[i] = s[i + 1]
           /\ \A i \in DOMAIN s : i # 1 => i - 1 \in DOMAIN Tail(s)
OBVIOUS

\* After the only entry there is nothing.
LEMMA LastEntry ==
    ASSUME NEW S, NEW s \in Seq(S), s # <<>>, Len(s) =< 1
    PROVE  Tail(s) = <<>>
OBVIOUS

\* A queue or pipe with one more entry.
LEMMA AppendFacts ==
    ASSUME NEW S, NEW s \in Seq(S), NEW e \in S
    PROVE  /\ Append(s, e) \in Seq(S) /\ Len(Append(s, e)) = Len(s) + 1
           /\ Append(s, e) # <<>> /\ Append(s, e)[Len(s) + 1] = e
           /\ Len(s) + 1 \in DOMAIN Append(s, e)
           /\ \A i \in DOMAIN s : i \in DOMAIN Append(s, e) /\ Append(s, e)[i] = s[i]
           /\ \A i \in DOMAIN Append(s, e) :
                 i \in DOMAIN s \/ (i = Len(s) + 1 /\ i \notin DOMAIN s)
OBVIOUS

\* No connection, and one just opened.
LEMMA FreshConn ==
    /\ NoConn \in Conn /\ NoConn.up = <<>> /\ NoConn.down = <<>>
    /\ NoConn.st = "none"
    /\ \A c \in Client : Sound(c, NoConn)
<1>1. NoConn \in Conn
  BY DEF NoConn, Conn
<1>2. NoConn.up = <<>> /\ NoConn.down = <<>> /\ NoConn.st = "none"
  BY DEF NoConn
<1>3. \A c \in Client : Sound(c, NoConn)
  BY <1>2, IpcAssumption DEF Sound
<1>4. QED
  BY <1>1, <1>2, <1>3

\* What the worker takes out of the mailbox is a sequence of commands.
LEMMA CmdsType ==
    ASSUME NEW q \in [redial : BOOLEAN, mode : Mode \cup {None}]
    PROVE  Cmds(q) \in Seq(Mode \cup {None})
<1> DEFINE S == Mode \cup {None}
           a == IF q.mode # None THEN <<q.mode>> ELSE <<>>
           b == IF q.redial THEN <<None>> ELSE <<>>
<1>1. a \in Seq(S)
  <2>1. q.mode \in S
    OBVIOUS
  <2>2. CASE q.mode = None
    BY <2>2
  <2>3. CASE q.mode # None
    BY <2>1, <2>3
  <2>4. QED
    BY <2>2, <2>3
<1>2. b \in Seq(S)
  <2>1. CASE q.redial
    BY <2>1
  <2>2. CASE ~q.redial
    BY <2>2
  <2>3. QED
    BY <2>1, <2>2
<1>3. \A s, t \in Seq(S) : s \o t \in Seq(S)
  OBVIOUS
<1>4. a \o b \in Seq(S)
  BY <1>1, <1>2, <1>3
<1>5. QED
  BY <1>4 DEF Cmds

\* A step that touches one connection only.
LEMMA ConnStep ==
    ASSUME ConnsOK, NEW c \in Client, NEW k \in Conn, Sound(c, k),
           conn' = [conn EXCEPT ![c] = k]
    PROVE  /\ ConnsOK' /\ conn'[c] = k
           /\ c # "cli" => conn'["cli"] = conn["cli"]
<1>1. conn' \in [Client -> Conn]
  BY DEF ConnsOK
<1>2. \A d \in Client : conn'[d] = IF d = c THEN k ELSE conn[d]
  BY DEF ConnsOK
<1>3. \A d \in Client : Sound(d, conn'[d])
  BY <1>2 DEF ConnsOK
<1>4. QED
  BY <1>1, <1>2, <1>3 DEF ConnsOK, Sound, Client

\* The clients; the worker's connections are not the command line's.
LEMMA Clients ==
    "cli" \in Client /\ "tray" \in Client /\ \A l \in Lane : l \in Client /\ l # "cli"
BY IpcAssumption DEF Client

\* A connection is opened.
LEMMA OpenStep ==
    ASSUME ConnsOK, NEW c \in Client, Open(c)
    PROVE  /\ ConnsOK' /\ conn'[c].st = "opened" /\ conn'[c].open = TRUE
           /\ conn'[c].up = <<>> /\ conn'[c].down = <<>>
           /\ c # "cli" => conn'["cli"] = conn["cli"]
<1> DEFINE k == [NoConn EXCEPT !.st = "opened", !.open = TRUE]
<1>1. NoConn \in Conn
  BY FreshConn
<1>2. k \in Conn /\ k.st = "opened" /\ k.open = TRUE
      /\ k.up = NoConn.up /\ k.down = NoConn.down
  BY <1>1 DEF Conn
<1>3. Sound(c, k)
  <2> HIDE DEF k
  <2> QED
    BY <1>2, FreshConn, IpcAssumption DEF Sound
<1>4. conn' = [conn EXCEPT ![c] = k]
  BY DEF Open
<1>5. ConnsOK' /\ conn'[c] = k /\ (c # "cli" => conn'["cli"] = conn["cli"])
  <2> HIDE DEF k
  <2> QED
    BY <1>2, <1>3, <1>4, ConnStep
<1>6. QED
  BY <1>2, <1>5, FreshConn

\* A client writes a command into its pipe.
LEMMA WriteStep ==
    ASSUME ConnsOK, NEW c \in Client, NEW cmd \in Command,
           cmd.by = IF c = "cli" THEN "cli" ELSE "tray", Write(c, cmd)
    PROVE  /\ ConnsOK' /\ conn'[c].st = conn[c].st /\ conn'[c].open = conn[c].open
           /\ conn'[c].down = conn[c].down /\ conn'[c].buf = conn[c].buf
           /\ conn'[c].up = IF conn[c].st = "dead" THEN conn[c].up
                            ELSE Append(conn[c].up, cmd)
           /\ c # "cli" => conn'["cli"] = conn["cli"]
<1> DEFINE k == [conn[c] EXCEPT !.up = Append(conn[c].up, cmd)]
<1>1. CASE conn[c].st = "dead"
  BY <1>1 DEF Write, ConnsOK, Sound
<1>2. CASE conn[c].st # "dead"
  <2>1. conn[c] \in Conn /\ Sound(c, conn[c])
    BY DEF ConnsOK
  <2>2. conn[c].up \in Seq(Command)
    BY <2>1 DEF Conn
  <2>3. Append(conn[c].up, cmd) \in Seq(Command)
    BY <2>2
  <2>4. k \in Conn /\ k.up = Append(conn[c].up, cmd) /\ k.st = conn[c].st
        /\ k.open = conn[c].open /\ k.down = conn[c].down /\ k.buf = conn[c].buf
    BY <2>1, <2>3 DEF Conn
  <2>5. conn' = [conn EXCEPT ![c] = k]
    BY <1>2 DEF Write
  <2> HIDE DEF k
  <2>6. \A i \in DOMAIN k.up : k.up[i].by = IF c = "cli" THEN "cli" ELSE "tray"
    BY <2>1, <2>2, <2>4, AppendFacts DEF Sound
  <2>7. Sound(c, k)
    BY <2>1, <2>4, <2>6 DEF Sound
  <2>8. QED
    BY <1>2, <2>4, <2>5, <2>7, ConnStep
<1>3. QED
  BY <1>1, <1>2

\* A client closes its end.
LEMMA CloseStep ==
    ASSUME ConnsOK, NEW c \in Client, Close(c)
    PROVE  /\ ConnsOK' /\ conn'[c].up \in {conn[c].up, <<>>}
           /\ conn'[c].st \in {conn[c].st, "none"}
           /\ c # "cli" => conn'["cli"] = conn["cli"]
<1> DEFINE k == IF conn[c].st = "dead" THEN NoConn
                ELSE [conn[c] EXCEPT !.open = FALSE]
<1>1. conn[c] \in Conn /\ Sound(c, conn[c])
  BY DEF ConnsOK
<1>2. /\ k \in Conn /\ Sound(c, k) /\ k.up \in {conn[c].up, <<>>}
      /\ k.st \in {conn[c].st, "none"}
  <2>1. CASE conn[c].st = "dead"
    BY <2>1, FreshConn
  <2>2. CASE conn[c].st # "dead"
    BY <1>1, <2>2 DEF Conn, Sound
  <2>3. QED
    BY <2>1, <2>2
<1>3. conn' = [conn EXCEPT ![c] = k]
  BY DEF Close, ConnsOK
<1> HIDE DEF k
<1>4. QED
  BY <1>2, <1>3, ConnStep

\* A client takes a frame out of its pipe.
LEMMA PopStep ==
    ASSUME ConnsOK, NEW c \in Client, conn[c].down # <<>>, Pop(c)
    PROVE  /\ ConnsOK' /\ conn'[c].st = conn[c].st /\ conn'[c].open = conn[c].open
           /\ conn'[c].up = conn[c].up /\ conn'[c].buf = conn[c].buf
           /\ conn'[c].down = Tail(conn[c].down)
           /\ Head(conn[c].down) \in Mode
           /\ c # "cli" => conn'["cli"] = conn["cli"]
<1> DEFINE k == [conn[c] EXCEPT !.down = Tail(conn[c].down)]
<1>1. conn[c] \in Conn /\ Sound(c, conn[c])
  BY DEF ConnsOK
<1>2. conn[c].down \in Seq(Mode)
  BY <1>1 DEF Conn
<1>3. /\ Tail(conn[c].down) \in Seq(Mode) /\ Head(conn[c].down) \in Mode
      /\ Len(Tail(conn[c].down)) =< PipeCap
  BY <1>1, <1>2, TailFacts, IpcAssumption DEF Sound
<1>4. k \in Conn /\ k.down = Tail(conn[c].down) /\ k.st = conn[c].st
      /\ k.open = conn[c].open /\ k.up = conn[c].up /\ k.buf = conn[c].buf
  BY <1>1, <1>3 DEF Conn
<1>5. conn' = [conn EXCEPT ![c] = k]
  BY DEF Pop
<1> HIDE DEF k
<1>6. Sound(c, k)
  BY <1>1, <1>3, <1>4 DEF Sound
<1>7. QED
  BY <1>3, <1>4, <1>5, <1>6, ConnStep

\* The server takes a command out of a pipe.
LEMMA PullStep ==
    ASSUME ConnsOK, NEW c \in Client, conn[c].up # <<>>,
           conn' = [conn EXCEPT ![c].up = Tail(@)]
    PROVE  /\ ConnsOK' /\ conn'[c].st = conn[c].st /\ conn'[c].open = conn[c].open
           /\ conn'[c].down = conn[c].down /\ conn'[c].buf = conn[c].buf
           /\ conn'[c].up = Tail(conn[c].up)
           /\ conn[c].up \in Seq(Command) /\ Head(conn[c].up) \in Command
           /\ Head(conn[c].up).by = IF c = "cli" THEN "cli" ELSE "tray"
           /\ c # "cli" => conn'["cli"] = conn["cli"]
<1> DEFINE k == [conn[c] EXCEPT !.up = Tail(conn[c].up)]
<1>1. conn[c] \in Conn /\ Sound(c, conn[c])
  BY DEF ConnsOK
<1>2. conn[c].up \in Seq(Command)
  BY <1>1 DEF Conn
<1>3. /\ Tail(conn[c].up) \in Seq(Command) /\ Head(conn[c].up) \in Command
      /\ Head(conn[c].up) = conn[c].up[1] /\ 1 \in DOMAIN conn[c].up
      /\ \A i \in DOMAIN Tail(conn[c].up) :
            /\ i + 1 \in DOMAIN conn[c].up
            /\ Tail(conn[c].up)[i] = conn[c].up[i + 1]
  BY <1>2, TailFacts
<1>4. k \in Conn /\ k.up = Tail(conn[c].up) /\ k.st = conn[c].st
      /\ k.open = conn[c].open /\ k.down = conn[c].down /\ k.buf = conn[c].buf
  BY <1>1, <1>3 DEF Conn
<1>5. conn' = [conn EXCEPT ![c] = k]
  OBVIOUS
<1> HIDE DEF k
<1>6. Sound(c, k)
  BY <1>1, <1>3, <1>4 DEF Sound
<1>7. QED
  BY <1>1, <1>2, <1>3, <1>4, <1>5, <1>6, ConnStep DEF Sound

\* The server writes a snapshot, or comes to wait for the pipe.
LEMMA PushStep ==
    ASSUME ConnsOK, NEW c \in Client, Served(c), NEW snap \in Mode, Push(c, snap)
    PROVE  /\ ConnsOK'
           /\ \/ ~conn[c].open /\ conn'[c] = NoConn
              \/ /\ conn'[c].st \in {"serving", "writing"}
                 /\ conn'[c].open = conn[c].open /\ conn'[c].up = conn[c].up
                 /\ conn'[c].down \in {conn[c].down, Append(conn[c].down, snap)}
                 /\ conn'[c].st = "writing" => conn'[c].buf = snap
           /\ c # "cli" => conn'["cli"] = conn["cli"]
<1>1. conn[c] \in Conn /\ Sound(c, conn[c])
  BY DEF ConnsOK
<1>2. snap # None /\ conn[c].down \in Seq(Mode)
  BY <1>1, IpcAssumption DEF Conn
<1>3. CASE ~conn[c].open
  <2>1. conn' = [conn EXCEPT ![c] = NoConn]
    BY <1>3 DEF Push
  <2>2. QED
    BY <1>3, <2>1, FreshConn, ConnStep
<1>4. CASE conn[c].open /\ Len(conn[c].down) < PipeCap
  <2> DEFINE k == [conn[c] EXCEPT !.st = "serving", !.down = Append(@, snap),
                                  !.unseen = @ /\ conn[c].st = "writing",
                                  !.buf = None]
  <2>1. conn' = [conn EXCEPT ![c] = k]
    BY <1>4 DEF Push
  <2>2. Append(conn[c].down, snap) \in Seq(Mode)
        /\ Len(Append(conn[c].down, snap)) =< PipeCap
    BY <1>2, <1>4, IpcAssumption
  <2>3. (conn[c].unseen /\ conn[c].st = "writing") \in BOOLEAN
    BY Zenon
  <2>4. k \in Conn
    BY <1>1, <2>2, <2>3 DEF Conn
  <2>5. /\ k.st = "serving" /\ k.open = conn[c].open /\ k.up = conn[c].up
        /\ k.down = Append(conn[c].down, snap)
    BY <1>1 DEF Conn
  <2> HIDE DEF k
  <2>6. Sound(c, k)
    BY <1>1, <2>2, <2>5 DEF Sound
  <2>7. QED
    BY <2>1, <2>4, <2>5, <2>6, ConnStep
<1>5. CASE conn[c].open /\ ~(Len(conn[c].down) < PipeCap)
  <2> DEFINE k == [conn[c] EXCEPT !.st = "writing", !.unseen = FALSE, !.buf = snap]
  <2>1. conn' = [conn EXCEPT ![c] = k]
    BY <1>5 DEF Push
  <2>2. k \in Conn
    BY <1>1 DEF Conn
  <2>3. /\ k.st = "writing" /\ k.open = conn[c].open /\ k.up = conn[c].up
        /\ k.down = conn[c].down /\ k.buf = snap
    BY <1>1 DEF Conn
  <2> HIDE DEF k
  <2>4. Sound(c, k)
    BY <1>1, <1>2, <2>3 DEF Sound
  <2>5. QED
    BY <2>1, <2>2, <2>3, <2>4, ConnStep
<1>6. QED
  BY <1>3, <1>4, <1>5

\* A snapshot is sent: the connections' receivers come to hold one unseen.
LEMMA NotifyStep ==
    ASSUME ConnsOK, Notify
    PROVE  /\ ConnsOK'
           /\ conn'["cli"].st = conn["cli"].st /\ conn'["cli"].open = conn["cli"].open
           /\ conn'["cli"].up = conn["cli"].up /\ conn'["cli"].buf = conn["cli"].buf
           /\ conn'["cli"].down = conn["cli"].down
<1>1. \A c \in Client :
         /\ conn'[c] \in Conn /\ Sound(c, conn'[c])
         /\ conn'[c].st = conn[c].st /\ conn'[c].open = conn[c].open
         /\ conn'[c].up = conn[c].up /\ conn'[c].buf = conn[c].buf
         /\ conn'[c].down = conn[c].down
  <2> TAKE c \in Client
  <2>1. conn[c] \in Conn /\ Sound(c, conn[c])
    BY DEF ConnsOK
  <2>2. CASE Served(c)
    <3> DEFINE k == [conn[c] EXCEPT !.unseen = TRUE]
    <3>1. conn'[c] = k
      BY <2>2 DEF Notify
    <3>2. /\ k \in Conn /\ k.st = conn[c].st /\ k.open = conn[c].open
          /\ k.up = conn[c].up /\ k.buf = conn[c].buf /\ k.down = conn[c].down
      BY <2>1 DEF Conn
    <3>3. Sound(c, k)
      <4> HIDE DEF k
      <4> QED
        BY <2>1, <3>2 DEF Sound
    <3>4. QED
      BY <3>1, <3>2, <3>3
  <2>3. CASE ~Served(c)
    BY <2>1, <2>3 DEF Notify
  <2>4. QED
    BY <2>2, <2>3
<1>2. conn' \in [Client -> Conn]
  BY <1>1 DEF Notify
<1>3. QED
  BY <1>1, <1>2 DEF ConnsOK, Sound, Client

\* The initial states.
LEMMA InitInv == ASSUME Init PROVE IInv
<1>0. \A c \in Client : conn[c] = NoConn
  BY DEF Init
<1>1. FlagsOK
  BY Zenon DEF Init, FlagsOK
<1>2. ServiceOK
  BY IpcAssumption DEF Init, ServiceOK
<1>3. MailOK
  BY IpcAssumption DEF Init, MailOK, Empty
<1>4. WorkOK
  BY DEF Init, WorkOK
<1>5. CliOK
  BY IpcAssumption DEF Init, CliOK
<1>6. ConnsOK
  BY FreshConn DEF Init, ConnsOK
<1>7. Poised /\ NoLostWakeup
  BY DEF Init, Poised, NoLostWakeup
<1>8. OneCommand
  BY <1>0, FreshConn DEF Init, OneCommand, Waiting, InQueue, Client
<1>9. FramesReal
  BY <1>0 DEF Init, FramesReal, Asking, Client, NoConn
<1>10. QED
  BY <1>1, <1>2, <1>3, <1>4, <1>5, <1>6, <1>7, <1>8, <1>9 DEF IInv

\* A command is put into the mailbox, and the token into the wake channel.
LEMMA ClickInv == ASSUME IInv, NEW m \in Mode \cup {None}, Click(m) PROVE IInv'
<1> USE DEF IInv, Click, serviceVars, workVars, cliVars, mailVars
<1>1. FlagsOK'
  BY Zenon DEF FlagsOK
<1>2. ServiceOK'
  BY DEF ServiceOK
<1>3. MailOK'
  <2>1. pending' \in [redial : BOOLEAN, mode : Mode \cup {None}]
    <3>1. pending.mode \in Mode \cup {None} /\ pending.redial \in BOOLEAN
      BY DEF MailOK
    <3>2. CASE m = None
      BY <3>2 DEF MailOK
    <3>3. CASE m # None
      BY <3>3 DEF MailOK
    <3>4. QED
      BY <3>2, <3>3
  <2>2. MaxClicks[present] \in Nat
    BY IpcAssumption DEF MailOK
  <2>3. QED
    BY <2>1, <2>2 DEF MailOK
<1>4. WorkOK'
  BY DEF WorkOK
<1>5. CliOK'
  BY DEF CliOK
<1>6. ConnsOK'
  BY DEF ConnsOK, Sound
<1>7. Poised'
  BY DEF Poised
<1>8. OneCommand'
  BY DEF OneCommand, Waiting, InQueue
<1>9. FramesReal'
  BY DEF FramesReal, Asking
<1>10. NoLostWakeup'
  BY Zenon DEF NoLostWakeup
<1>11. QED
  BY <1>1, <1>2, <1>3, <1>4, <1>5, <1>6, <1>7, <1>8, <1>9, <1>10

\* The worker wakes, empties the mailbox, gives a command up or goes back to
\* sleep.
LEMMA WorkerInv ==
    ASSUME IInv, WorkerWakes \/ WorkerTakes \/ BatchDone \/ WorkerGivesUp
    PROVE  IInv'
<1> USE DEF IInv, WorkerWakes, WorkerTakes, BatchDone, WorkerGivesUp,
        serviceVars, workVars, cliVars, mailVars
<1>1. FlagsOK'
  BY Zenon DEF FlagsOK
<1>2. ServiceOK'
  BY DEF ServiceOK
<1>3. MailOK'
  <2>1. Empty \in [redial : BOOLEAN, mode : Mode \cup {None}]
    BY DEF Empty
  <2>2. QED
    BY <2>1 DEF MailOK
<1>4. WorkOK'
  <2>1. batch' \in Seq(Mode \cup {None})
    <3>1. CASE WorkerTakes
      BY <3>1, CmdsType DEF MailOK
    <3>2. CASE WorkerGivesUp
      BY <3>2, TailFacts DEF WorkOK
    <3>3. CASE WorkerWakes \/ BatchDone
      BY <3>3 DEF WorkOK
    <3>4. QED
      BY <3>1, <3>2, <3>3
  <2>2. QED
    BY <2>1 DEF WorkOK
<1>5. CliOK'
  BY DEF CliOK
<1>6. ConnsOK'
  BY DEF ConnsOK, Sound
<1>7. Poised'
  BY DEF Poised
<1>8. OneCommand'
  BY DEF OneCommand, Waiting, InQueue
<1>9. FramesReal'
  BY DEF FramesReal, Asking
<1>10. NoLostWakeup'
  BY DEF NoLostWakeup
<1>11. QED
  BY <1>1, <1>2, <1>3, <1>4, <1>5, <1>6, <1>7, <1>8, <1>9, <1>10

\* The worker opens a session.
LEMMA WorkerConnectsInv ==
    ASSUME IInv, NEW l \in Lane, WorkerConnects(l)
    PROVE  IInv'
<1> USE DEF IInv, WorkerConnects, serviceVars, workVars, cliVars, mailVars
<1>a. ConnsOK' /\ conn'["cli"] = conn["cli"]
  BY OpenStep, Clients
<1>o. up
  BY DEF Open, FramesReal
<1>1. FlagsOK'
  BY Zenon DEF FlagsOK
<1>2. ServiceOK'
  BY DEF ServiceOK, Open
<1>3. MailOK'
  BY DEF MailOK
<1>4. WorkOK'
  BY DEF WorkOK
<1>5. CliOK'
  BY DEF CliOK
<1>6. ConnsOK'
  BY <1>a
<1>7. Poised'
  BY DEF Poised
<1>8. OneCommand'
  BY <1>a DEF OneCommand, Waiting, InQueue
<1>9. FramesReal'
  BY <1>a, <1>o DEF FramesReal, Asking
<1>10. NoLostWakeup'
  BY DEF NoLostWakeup
<1>11. QED
  BY <1>1, <1>2, <1>3, <1>4, <1>5, <1>6, <1>7, <1>8, <1>9, <1>10

\* The status thread opens a session.
LEMMA TrayConnectsInv == ASSUME IInv, TrayConnects PROVE IInv'
<1> USE DEF IInv, TrayConnects, serviceVars, workVars, cliVars, mailVars
<1>a. ConnsOK' /\ conn'["cli"] = conn["cli"]
  BY OpenStep, Clients
<1>o. up
  BY DEF Open, FramesReal
<1>1. FlagsOK'
  BY Zenon DEF FlagsOK
<1>2. ServiceOK'
  BY DEF ServiceOK, Open
<1>3. MailOK'
  BY DEF MailOK
<1>4. WorkOK'
  BY DEF WorkOK
<1>5. CliOK'
  BY DEF CliOK
<1>6. ConnsOK'
  BY <1>a
<1>7. Poised'
  BY DEF Poised
<1>8. OneCommand'
  BY <1>a DEF OneCommand, Waiting, InQueue
<1>9. FramesReal'
  BY <1>a, <1>o DEF FramesReal, Asking
<1>10. NoLostWakeup'
  BY DEF NoLostWakeup
<1>11. QED
  BY <1>1, <1>2, <1>3, <1>4, <1>5, <1>6, <1>7, <1>8, <1>9, <1>10

\* The worker writes its command.
LEMMA WorkerSendsInv == ASSUME IInv, WorkerSends PROVE IInv'
<1> USE DEF IInv, WorkerSends, serviceVars, workVars, cliVars, mailVars
<1>0. lane \in Client /\ lane # "cli" /\ Head(batch) \in Mode \cup {None}
  BY TailFacts, IpcAssumption DEF Poised, WorkOK, Client
<1> DEFINE cmd == [by |-> "tray", set |-> Head(batch)]
<1>b. cmd \in Command /\ cmd.by = "tray"
  BY <1>0 DEF Command
<1>c. Write(lane, cmd)
  OBVIOUS
<1> HIDE DEF cmd
<1>a. ConnsOK' /\ conn'["cli"] = conn["cli"]
  BY <1>0, <1>b, <1>c, WriteStep
<1>1. FlagsOK'
  BY Zenon DEF FlagsOK
<1>2. ServiceOK'
  BY DEF ServiceOK
<1>3. MailOK'
  BY DEF MailOK
<1>4. WorkOK'
  BY TailFacts DEF WorkOK, Poised
<1>5. CliOK'
  BY DEF CliOK
<1>6. ConnsOK'
  BY <1>a
<1>7. Poised'
  BY DEF Poised
<1>8. OneCommand'
  BY <1>a DEF OneCommand, Waiting, InQueue
<1>9. FramesReal'
  BY <1>a DEF FramesReal, Asking
<1>10. NoLostWakeup'
  BY DEF NoLostWakeup
<1>11. QED
  BY <1>1, <1>2, <1>3, <1>4, <1>5, <1>6, <1>7, <1>8, <1>9, <1>10

\* The worker drops its session.
LEMMA WorkerDropsInv == ASSUME IInv, WorkerDrops PROVE IInv'
<1> USE DEF IInv, WorkerDrops, serviceVars, workVars, cliVars, mailVars
<1>0. lane \in Client /\ lane # "cli"
  BY IpcAssumption DEF Poised, Client
<1>a. ConnsOK' /\ conn'["cli"] = conn["cli"]
  BY <1>0, CloseStep
<1>1. FlagsOK'
  BY Zenon DEF FlagsOK
<1>2. ServiceOK'
  BY DEF ServiceOK
<1>3. MailOK'
  BY DEF MailOK
<1>4. WorkOK'
  BY DEF WorkOK
<1>5. CliOK'
  BY DEF CliOK
<1>6. ConnsOK'
  BY <1>a
<1>7. Poised'
  BY DEF Poised
<1>8. OneCommand'
  BY <1>a DEF OneCommand, Waiting, InQueue
<1>9. FramesReal'
  BY <1>a DEF FramesReal, Asking
<1>10. NoLostWakeup'
  BY DEF NoLostWakeup
<1>11. QED
  BY <1>1, <1>2, <1>3, <1>4, <1>5, <1>6, <1>7, <1>8, <1>9, <1>10

\* The status thread reads a frame into the cache.
LEMMA TrayReadsInv == ASSUME IInv, TrayReads PROVE IInv'
<1> USE DEF IInv, TrayReads, serviceVars, workVars, cliVars, mailVars
<1>b. ConnsOK' /\ conn'["cli"] = conn["cli"] /\ Head(conn["tray"].down) \in Mode
  BY PopStep, Clients
<1>a. ConnsOK' /\ conn'["cli"] = conn["cli"]
  BY <1>b
<1>1. FlagsOK'
  BY Zenon DEF FlagsOK
<1>2. ServiceOK'
  BY DEF ServiceOK
<1>3. MailOK'
  BY DEF MailOK
<1>4. WorkOK'
  BY <1>b DEF WorkOK
<1>5. CliOK'
  BY DEF CliOK
<1>6. ConnsOK'
  BY <1>a
<1>7. Poised'
  BY DEF Poised
<1>8. OneCommand'
  BY <1>a DEF OneCommand, Waiting, InQueue
<1>9. FramesReal'
  BY <1>a DEF FramesReal, Asking
<1>10. NoLostWakeup'
  BY DEF NoLostWakeup
<1>11. QED
  BY <1>1, <1>2, <1>3, <1>4, <1>5, <1>6, <1>7, <1>8, <1>9, <1>10

\* The status thread finds the server gone.
LEMMA TrayDisconnectedInv == ASSUME IInv, TrayDisconnected PROVE IInv'
<1> USE DEF IInv, TrayDisconnected, serviceVars, workVars, cliVars, mailVars
<1>a. ConnsOK' /\ conn'["cli"] = conn["cli"]
  BY CloseStep, Clients
<1>1. FlagsOK'
  BY Zenon DEF FlagsOK
<1>2. ServiceOK'
  BY DEF ServiceOK
<1>3. MailOK'
  BY DEF MailOK
<1>4. WorkOK'
  BY DEF WorkOK
<1>5. CliOK'
  BY DEF CliOK
<1>6. ConnsOK'
  BY <1>a
<1>7. Poised'
  BY DEF Poised
<1>8. OneCommand'
  BY <1>a DEF OneCommand, Waiting, InQueue
<1>9. FramesReal'
  BY <1>a DEF FramesReal, Asking
<1>10. NoLostWakeup'
  BY DEF NoLostWakeup
<1>11. QED
  BY <1>1, <1>2, <1>3, <1>4, <1>5, <1>6, <1>7, <1>8, <1>9, <1>10

\* The command line opens its session.
LEMMA CliConnectsInv == ASSUME IInv, NEW m \in Mode, CliConnects(m) PROVE IInv'
<1> USE DEF IInv, CliConnects, serviceVars, workVars, cliVars, mailVars
<1>o. up
  BY DEF Open, FramesReal
<1>a. /\ ConnsOK' /\ conn'["cli"].st = "opened" /\ conn'["cli"].open = TRUE
      /\ conn'["cli"].up = <<>> /\ conn'["cli"].down = <<>>
  BY OpenStep, Clients
<1>1. FlagsOK'
  BY Zenon DEF FlagsOK
<1>2. ServiceOK'
  BY DEF ServiceOK, Open
<1>3. MailOK'
  BY DEF MailOK
<1>4. WorkOK'
  BY DEF WorkOK
<1>5. CliOK'
  BY DEF CliOK
<1>6. ConnsOK'
  BY <1>a
<1>7. Poised'
  BY DEF CliOK, Poised
<1>8. OneCommand'
  BY <1>a DEF CliOK, OneCommand, Waiting, InQueue
<1>9. FramesReal'
  BY <1>a, <1>o DEF CliOK, FramesReal, Asking
<1>10. NoLostWakeup'
  BY DEF NoLostWakeup
<1>11. QED
  BY <1>1, <1>2, <1>3, <1>4, <1>5, <1>6, <1>7, <1>8, <1>9, <1>10

\* The command line reads the first frame.
LEMMA CliFirstInv == ASSUME IInv, CliFirst PROVE IInv'
<1> USE DEF IInv, CliFirst, CliFrame, CliStep, serviceVars, workVars, cliVars,
        mailVars
<1>a. /\ ConnsOK' /\ conn'["cli"].st = conn["cli"].st
      /\ conn'["cli"].open = conn["cli"].open /\ conn'["cli"].up = conn["cli"].up
      /\ conn'["cli"].buf = conn["cli"].buf
      /\ conn'["cli"].down = Tail(conn["cli"].down)
  BY PopStep, Clients
<1>b. conn["cli"].down \in Seq(Mode)
  BY Clients DEF ConnsOK, Conn
<1>c. /\ Head(conn["cli"].down) = conn["cli"].down[1] /\ 1 \in DOMAIN conn["cli"].down
      /\ \A i \in DOMAIN conn'["cli"].down :
            /\ i + 1 \in DOMAIN conn["cli"].down
            /\ conn'["cli"].down[i] = conn["cli"].down[i + 1]
  BY <1>a, <1>b, TailFacts
<1>d. conn["cli"].st # "opened"
  BY Clients DEF ConnsOK, Sound
<1>1. FlagsOK'
  BY Zenon DEF FlagsOK
<1>2. ServiceOK'
  BY DEF ServiceOK
<1>3. MailOK'
  BY DEF MailOK
<1>4. WorkOK'
  BY DEF WorkOK
<1>5. CliOK'
  BY DEF CliOK
<1>6. ConnsOK'
  BY <1>a
<1>7. Poised'
  BY DEF CliOK, Poised
<1>8. OneCommand'
  BY <1>a DEF CliOK, OneCommand, Waiting, InQueue
<1>9. FramesReal'
  <2>1. Asking => \A i \in DOMAIN conn'["cli"].down : conn'["cli"].down[i] \in since
    BY <1>c DEF FramesReal
  <2>2. QED
    BY <1>a, <1>c, <1>d, <2>1 DEF CliOK, FramesReal, Asking
<1>10. NoLostWakeup'
  BY DEF NoLostWakeup
<1>11. QED
  BY <1>1, <1>2, <1>3, <1>4, <1>5, <1>6, <1>7, <1>8, <1>9, <1>10

\* The command line reads a frame that may confirm its command.
LEMMA CliReadsInv == ASSUME IInv, CliReads PROVE IInv'
<1> USE DEF IInv, CliReads, CliFrame, serviceVars, workVars, cliVars, mailVars
<1>a. /\ ConnsOK' /\ conn'["cli"].st = conn["cli"].st
      /\ conn'["cli"].open = conn["cli"].open /\ conn'["cli"].up = conn["cli"].up
      /\ conn'["cli"].buf = conn["cli"].buf
      /\ conn'["cli"].down = Tail(conn["cli"].down)
  BY PopStep, Clients
<1>b. conn["cli"].down \in Seq(Mode)
  BY Clients DEF ConnsOK, Conn
<1>c. /\ Head(conn["cli"].down) = conn["cli"].down[1] /\ 1 \in DOMAIN conn["cli"].down
      /\ \A i \in DOMAIN conn'["cli"].down :
            /\ i + 1 \in DOMAIN conn["cli"].down
            /\ conn'["cli"].down[i] = conn["cli"].down[i + 1]
  BY <1>a, <1>b, TailFacts
<1>d. conn["cli"].st # "opened"
  BY Clients DEF ConnsOK, Sound
<1>1. FlagsOK'
  BY Zenon DEF FlagsOK
<1>2. ServiceOK'
  BY DEF ServiceOK
<1>3. MailOK'
  BY DEF MailOK
<1>4. WorkOK'
  BY DEF WorkOK
<1>5. CliOK'
  <2>1. cli.left - 1 \in 0..ConfirmFrames /\ cli.pc = "confirm"
    BY IpcAssumption DEF CliOK, Poised
  <2>2. \A p \in {"ok", "fail", "confirm"} :
           [cli EXCEPT !.left = cli.left - 1, !.pc = p]
              \in [pc : {"idle", "first", "send", "confirm", "ok", "fail", "done"},
                   want : Mode \cup {None}, left : 0..ConfirmFrames]
    BY <2>1 DEF CliOK
  <2>3. \E p \in {"ok", "fail", "confirm"} :
           cli' = [cli EXCEPT !.left = cli.left - 1, !.pc = p]
    BY <2>1
  <2>4. QED
    BY <2>2, <2>3 DEF CliOK
<1>6. ConnsOK'
  BY <1>a
<1>7. Poised'
  BY DEF CliOK, Poised
<1>8. OneCommand'
  BY <1>a DEF CliOK, OneCommand, Waiting, InQueue
<1>9. FramesReal'
  <2>1. Asking => \A i \in DOMAIN conn'["cli"].down : conn'["cli"].down[i] \in since
    BY <1>c DEF FramesReal
  <2>2. QED
    BY <1>a, <1>c, <1>d, <2>1 DEF CliOK, FramesReal, Asking
<1>10. NoLostWakeup'
  BY DEF NoLostWakeup
<1>11. QED
  BY <1>1, <1>2, <1>3, <1>4, <1>5, <1>6, <1>7, <1>8, <1>9, <1>10

\* The command line writes its command.
LEMMA CliSendsInv == ASSUME IInv, CliSends PROVE IInv'
<1> USE DEF IInv, CliSends, serviceVars, workVars, cliVars, mailVars
<1> DEFINE cmd == [by |-> "cli", set |-> cli.want]
<1>b. cmd \in Command /\ cmd.by = "cli"
  BY DEF CliOK, Command
<1>c. Write("cli", cmd)
  OBVIOUS
<1> HIDE DEF cmd
<1>a. /\ ConnsOK' /\ conn'["cli"].st = conn["cli"].st
      /\ conn'["cli"].open = conn["cli"].open /\ conn'["cli"].down = conn["cli"].down
      /\ conn'["cli"].buf = conn["cli"].buf
      /\ conn'["cli"].up = IF conn["cli"].st = "dead" THEN conn["cli"].up
                          ELSE Append(conn["cli"].up, cmd)
  BY <1>b, <1>c, WriteStep, Clients
<1>d. conn["cli"].up = <<>> /\ conn["cli"].up \in Seq(Command)
      /\ Len(Append(conn["cli"].up, cmd)) = 1 /\ Append(conn["cli"].up, cmd) # <<>>
  <2>1. conn["cli"].up = <<>>
    BY DEF OneCommand, Waiting
  <2>2. conn["cli"].up \in Seq(Command)
    BY Clients DEF ConnsOK, Conn
  <2>3. QED
    BY <1>b, <2>1, <2>2, AppendFacts
<1>1. FlagsOK'
  BY Zenon DEF FlagsOK
<1>2. ServiceOK'
  BY DEF ServiceOK
<1>3. MailOK'
  BY DEF MailOK
<1>4. WorkOK'
  BY DEF WorkOK
<1>5. CliOK'
  <2>1. ConfirmFrames \in 0..ConfirmFrames
    BY IpcAssumption
  <2>2. CASE conn["cli"].st = "dead"
    BY <2>1, <2>2 DEF CliOK
  <2>3. CASE conn["cli"].st # "dead"
    BY <2>1, <2>3 DEF CliOK
  <2>4. QED
    BY <2>2, <2>3
<1>6. ConnsOK'
  BY <1>a
<1>7. Poised'
  BY IpcAssumption DEF CliOK, Poised
<1>8. OneCommand'
  BY <1>a, <1>d, AppendFacts DEF CliOK, OneCommand, Waiting, InQueue
<1>9. FramesReal'
  BY <1>a DEF CliOK, FramesReal, Asking
<1>10. NoLostWakeup'
  BY DEF NoLostWakeup
<1>11. QED
  BY <1>1, <1>2, <1>3, <1>4, <1>5, <1>6, <1>7, <1>8, <1>9, <1>10

\* The command line finds the server gone.
LEMMA CliBrokenInv == ASSUME IInv, CliBroken PROVE IInv'
<1> USE DEF IInv, CliBroken, CliFrame, serviceVars, workVars, cliVars, mailVars
<1>1. FlagsOK'
  BY Zenon DEF FlagsOK
<1>2. ServiceOK'
  BY DEF ServiceOK
<1>3. MailOK'
  BY DEF MailOK
<1>4. WorkOK'
  BY DEF WorkOK
<1>5. CliOK'
  BY DEF CliOK
<1>6. ConnsOK'
  BY DEF ConnsOK, Sound
<1>7. Poised'
  BY DEF CliOK, Poised
<1>8. OneCommand'
  BY DEF CliOK, OneCommand, Waiting, InQueue
<1>9. FramesReal'
  BY DEF CliOK, FramesReal, Asking
<1>10. NoLostWakeup'
  BY DEF NoLostWakeup
<1>11. QED
  BY <1>1, <1>2, <1>3, <1>4, <1>5, <1>6, <1>7, <1>8, <1>9, <1>10

\* The command line ends.
LEMMA CliExitsInv == ASSUME IInv, CliExits PROVE IInv'
<1> USE DEF IInv, CliExits, serviceVars, workVars, cliVars, mailVars
<1>a. /\ ConnsOK' /\ conn'["cli"].up \in {conn["cli"].up, <<>>}
      /\ conn'["cli"].st \in {conn["cli"].st, "none"}
  BY CloseStep, Clients
<1>1. FlagsOK'
  BY Zenon DEF FlagsOK
<1>2. ServiceOK'
  BY DEF ServiceOK
<1>3. MailOK'
  BY DEF MailOK
<1>4. WorkOK'
  BY DEF WorkOK
<1>5. CliOK'
  BY IpcAssumption DEF CliOK
<1>6. ConnsOK'
  BY <1>a
<1>7. Poised'
  BY DEF Poised
<1>8. OneCommand'
  BY <1>a DEF OneCommand, Waiting, InQueue
<1>9. FramesReal'
  BY <1>a DEF FramesReal, Asking
<1>10. NoLostWakeup'
  BY DEF NoLostWakeup
<1>11. QED
  BY <1>1, <1>2, <1>3, <1>4, <1>5, <1>6, <1>7, <1>8, <1>9, <1>10

\* The server creates an instance of the pipe.
LEMMA CreateInv == ASSUME IInv, CreateInstance PROVE IInv'
<1> USE DEF IInv, CreateInstance, serviceVars, workVars, cliVars, mailVars
<1>1. FlagsOK'
  BY Zenon DEF FlagsOK
<1>2. ServiceOK'
  BY DEF ServiceOK
<1>3. MailOK'
  BY DEF MailOK
<1>4. WorkOK'
  BY DEF WorkOK
<1>5. CliOK'
  BY DEF CliOK
<1>6. ConnsOK'
  BY DEF ConnsOK, Sound
<1>7. Poised'
  BY DEF Poised
<1>8. OneCommand'
  BY DEF OneCommand, Waiting, InQueue
<1>9. FramesReal'
  BY DEF FramesReal, Asking
<1>10. NoLostWakeup'
  BY DEF NoLostWakeup
<1>11. QED
  BY <1>1, <1>2, <1>3, <1>4, <1>5, <1>6, <1>7, <1>8, <1>9, <1>10

\* A snapshot is published.
LEMMA PublishInv == ASSUME IInv, Publish PROVE IInv'
<1> USE DEF IInv, Publish, serviceVars, workVars, cliVars, mailVars
<1>a. /\ ConnsOK' /\ conn'["cli"].st = conn["cli"].st
      /\ conn'["cli"].open = conn["cli"].open /\ conn'["cli"].up = conn["cli"].up
      /\ conn'["cli"].buf = conn["cli"].buf /\ conn'["cli"].down = conn["cli"].down
  BY NotifyStep
<1>1. FlagsOK'
  BY Zenon DEF FlagsOK, Notify
<1>2. ServiceOK'
  BY DEF ServiceOK
<1>3. MailOK'
  BY DEF MailOK
<1>4. WorkOK'
  BY DEF WorkOK
<1>5. CliOK'
  BY DEF CliOK
<1>6. ConnsOK'
  BY <1>a
<1>7. Poised'
  BY DEF Poised
<1>8. OneCommand'
  BY <1>a DEF OneCommand, Waiting, InQueue
<1>9. FramesReal'
  BY <1>a DEF FramesReal, Asking
<1>10. NoLostWakeup'
  BY DEF NoLostWakeup
<1>11. QED
  BY <1>1, <1>2, <1>3, <1>4, <1>5, <1>6, <1>7, <1>8, <1>9, <1>10

\* The server sends a snapshot to a client.
LEMMA PushInv ==
    ASSUME IInv, NEW c \in Client, Changed(c) \/ Written(c)
    PROVE  IInv'
<1> USE DEF IInv, serviceVars, workVars, cliVars, mailVars
<1>e. \E snap \in Mode : Push(c, snap) /\ (c = "cli" /\ Asking => snap \in since)
  <2>1. CASE Changed(c)
    BY <2>1 DEF Changed, ServiceOK, FramesReal
  <2>2. CASE Written(c)
    <3>1. conn[c].buf \in Mode
      BY <2>2 DEF Written, ConnsOK, Sound, Conn
    <3>2. QED
      BY <2>2, <3>1 DEF Written, FramesReal
  <2>3. QED
    BY <2>1, <2>2
<1>p. PICK snap \in Mode : Push(c, snap) /\ (c = "cli" /\ Asking => snap \in since)
  BY <1>e
<1>s. Served(c) /\ up
  BY DEF Served, Changed, Written
<1>a. /\ ConnsOK'
      /\ \/ ~conn[c].open /\ conn'[c] = NoConn
         \/ /\ conn'[c].st \in {"serving", "writing"}
            /\ conn'[c].open = conn[c].open /\ conn'[c].up = conn[c].up
            /\ conn'[c].down \in {conn[c].down, Append(conn[c].down, snap)}
            /\ conn'[c].st = "writing" => conn'[c].buf = snap
      /\ c # "cli" => conn'["cli"] = conn["cli"]
  BY <1>p, <1>s, PushStep
<1>b. UNCHANGED <<serviceVars, queue, acceptor, mailVars, workVars, cache, cliVars>>
  BY DEF Changed, Written
<1>1. FlagsOK'
  BY Zenon, <1>b DEF FlagsOK
<1>2. ServiceOK'
  BY <1>b DEF ServiceOK
<1>3. MailOK'
  BY <1>b DEF MailOK
<1>4. WorkOK'
  BY <1>b DEF WorkOK
<1>5. CliOK'
  BY <1>b DEF CliOK
<1>6. ConnsOK'
  BY <1>a
<1>7. Poised'
  BY <1>b DEF Poised
<1>8. OneCommand'
  <2>1. CASE c # "cli"
    BY <1>a, <1>b, <2>1 DEF OneCommand, Waiting, InQueue
  <2>2. CASE c = "cli"
    <3>1. \/ conn'["cli"].up = conn["cli"].up
          \/ conn'["cli"].up = <<>> /\ ~Asking
      BY <1>a, <2>2, FreshConn, Zenon DEF FramesReal
    <3>2. conn["cli"].st # "dead"
      BY <1>s, <2>2 DEF Served
    <3>3. QED
      BY <1>b, <3>1, <3>2 DEF OneCommand, Waiting, InQueue, Asking
  <2>3. QED
    BY <2>1, <2>2
<1>9. FramesReal'
  <2>1. CASE c # "cli"
    BY <1>a, <1>b, <2>1 DEF FramesReal, Asking
  <2>2. CASE c = "cli" /\ Asking
    <3>1. conn["cli"].down \in Seq(Mode)
      BY Clients DEF ConnsOK, Conn
    <3>2. \A i \in DOMAIN conn["cli"].down : conn["cli"].down[i] \in since
      BY <2>2 DEF FramesReal
    <3>3. /\ conn["cli"].open /\ mode \in since /\ snap \in since
          /\ cli.pc = "ok" => cli.want \in since
      BY <1>p, <1>s, <2>2, Zenon DEF FramesReal, Served
    <3>4. /\ conn'["cli"].st \in {"serving", "writing"}
          /\ conn'["cli"].open = conn["cli"].open
          /\ conn'["cli"].down \in {conn["cli"].down, Append(conn["cli"].down, snap)}
          /\ conn'["cli"].st = "writing" => conn'["cli"].buf = snap
      BY <1>a, <2>2, <3>3
    <3>5. \A i \in DOMAIN conn'["cli"].down : conn'["cli"].down[i] \in since
      BY <3>1, <3>2, <3>3, <3>4, AppendFacts
    <3>6. QED
      BY <1>s, <1>b, <2>2, <3>3, <3>4, <3>5 DEF FramesReal, Asking
  <2>3. CASE c = "cli" /\ ~Asking
    <3>1. conn["cli"].st # "none" /\ up
      BY <1>s, <2>3 DEF Served
    <3>2. QED
      BY <3>1, <1>b, <2>3 DEF FramesReal, Asking
  <2>4. QED
    BY <2>1, <2>2, <2>3
<1>10. NoLostWakeup'
  BY <1>b DEF NoLostWakeup
<1>11. QED
  BY <1>1, <1>2, <1>3, <1>4, <1>5, <1>6, <1>7, <1>8, <1>9, <1>10

\* The server finds that a client has gone.
LEMMA EofInv == ASSUME IInv, NEW c \in Client, ReadEof(c) PROVE IInv'
<1> USE DEF IInv, ReadEof, serviceVars, workVars, cliVars, mailVars
<1>a. ConnsOK' /\ conn'[c] = NoConn /\ (c # "cli" => conn'["cli"] = conn["cli"])
  BY FreshConn, ConnStep
<1>1. FlagsOK'
  BY Zenon DEF FlagsOK
<1>2. ServiceOK'
  BY DEF ServiceOK
<1>3. MailOK'
  BY DEF MailOK
<1>4. WorkOK'
  BY DEF WorkOK
<1>5. CliOK'
  BY DEF CliOK
<1>6. ConnsOK'
  BY <1>a
<1>7. Poised'
  BY DEF Poised
<1>8. OneCommand'
  <2>1. CASE c # "cli"
    BY <1>a, <2>1 DEF OneCommand, Waiting, InQueue
  <2>2. CASE c = "cli"
    <3>1. \/ conn'["cli"].up = conn["cli"].up
          \/ conn'["cli"].up = <<>> /\ ~Asking
      BY <1>a, <2>2, FreshConn, Zenon DEF FramesReal
    <3>2. conn["cli"].st # "dead"
      BY <2>2
    <3>3. QED
      BY <3>1, <3>2 DEF OneCommand, Waiting, InQueue, Asking
  <2>3. QED
    BY <2>1, <2>2
<1>9. FramesReal'
  BY <1>a, Clients DEF NoConn, FramesReal, Asking
<1>10. NoLostWakeup'
  BY DEF NoLostWakeup
<1>11. QED
  BY <1>1, <1>2, <1>3, <1>4, <1>5, <1>6, <1>7, <1>8, <1>9, <1>10

\* The server takes a connection up.
LEMMA AcceptInv == ASSUME IInv, NEW c \in Client, Accept(c) PROVE IInv'
<1> USE DEF IInv, Accept, serviceVars, workVars, cliVars, mailVars
<1> DEFINE k == IF ~conn[c].open THEN NoConn
                ELSE [conn[c] EXCEPT !.st = "serving", !.down = <<mode>>,
                                     !.unseen = published]
<1>k. conn[c] \in Conn /\ Sound(c, conn[c]) /\ mode \in Mode /\ published \in BOOLEAN
  BY Zenon DEF ConnsOK, ServiceOK, FlagsOK
<1>m. /\ k \in Conn /\ Sound(c, k)
      /\ \/ ~conn[c].open /\ k = NoConn
         \/ /\ k.st = "serving" /\ k.down = <<mode>>
            /\ k.open = conn[c].open /\ k.up = conn[c].up
  <2>1. CASE ~conn[c].open
    BY <2>1, FreshConn
  <2>2. CASE conn[c].open
    <3> DEFINE j == [conn[c] EXCEPT !.st = "serving", !.down = <<mode>>,
                                    !.unseen = published]
    <3>1. <<mode>> \in Seq(Mode) /\ Len(<<mode>>) = 1
      BY <1>k
    <3>2. j \in Conn
      BY <1>k, <3>1 DEF Conn
    <3>3. j.st = "serving" /\ j.down = <<mode>> /\ j.open = conn[c].open
          /\ j.up = conn[c].up
      BY <1>k DEF Conn
    <3>4. k = j
      BY <2>2
    <3> HIDE DEF j, k
    <3>5. Sound(c, j)
      BY <1>k, <3>1, <3>3, IpcAssumption DEF Sound
    <3>6. QED
      BY <3>2, <3>3, <3>4, <3>5
  <2>3. QED
    BY <2>1, <2>2
<1>n. conn' = [conn EXCEPT ![c] = k]
  BY DEF ConnsOK
<1> HIDE DEF k
<1>a. ConnsOK' /\ conn'[c] = k /\ (c # "cli" => conn'["cli"] = conn["cli"])
  BY <1>m, <1>n, ConnStep
<1>1. FlagsOK'
  BY Zenon DEF FlagsOK
<1>2. ServiceOK'
  BY DEF ServiceOK
<1>3. MailOK'
  BY DEF MailOK
<1>4. WorkOK'
  BY DEF WorkOK
<1>5. CliOK'
  BY DEF CliOK, ServiceOK
<1>6. ConnsOK'
  BY <1>a
<1>7. Poised'
  BY DEF Poised
<1>8. OneCommand'
  <2>1. CASE c # "cli"
    BY <1>a, <2>1 DEF OneCommand, Waiting, InQueue
  <2>2. CASE c = "cli"
    <3>1. \/ conn'["cli"].up = conn["cli"].up
          \/ conn'["cli"].up = <<>> /\ ~Asking
      BY <1>a, <1>m, <2>2, FreshConn, Zenon DEF FramesReal
    <3>2. QED
      BY <2>2, <3>1 DEF OneCommand, Waiting, InQueue, Asking
  <2>3. QED
    BY <2>1, <2>2
<1>9. FramesReal'
  <2>1. CASE c # "cli"
    BY <1>a, <2>1 DEF FramesReal, Asking
  <2>2. CASE c = "cli" /\ Asking
    <3>1. conn["cli"].open /\ cli.pc = "first" /\ up
      BY <2>2, Zenon DEF FramesReal
    <3>2. /\ conn'["cli"].st = "serving" /\ conn'["cli"].down = <<mode>>
          /\ conn'["cli"].open = conn["cli"].open /\ since' = {mode}
      BY <1>a, <1>m, <2>2, <3>1
    <3>3. QED
      BY <2>2, <3>1, <3>2 DEF FramesReal, Asking
  <2>3. CASE c = "cli" /\ ~Asking
    BY <2>3 DEF FramesReal, Asking, CliOK
  <2>4. QED
    BY <2>1, <2>2, <2>3
<1>10. NoLostWakeup'
  BY DEF NoLostWakeup
<1>11. QED
  BY <1>1, <1>2, <1>3, <1>4, <1>5, <1>6, <1>7, <1>8, <1>9, <1>10

\* The server reads a command into the channel.
LEMMA ReadCmdInv == ASSUME IInv, NEW c \in Client, ReadCmd(c) PROVE IInv'
<1> USE DEF IInv, ReadCmd, serviceVars, workVars, cliVars, mailVars
<1> DEFINE e == Head(conn[c].up)
<1>a. /\ ConnsOK' /\ conn'[c].st = conn[c].st /\ conn'[c].open = conn[c].open
      /\ conn'[c].down = conn[c].down /\ conn'[c].buf = conn[c].buf
      /\ conn'[c].up = Tail(conn[c].up)
      /\ conn[c].up \in Seq(Command) /\ e \in Command
      /\ e.by = IF c = "cli" THEN "cli" ELSE "tray"
      /\ c # "cli" => conn'["cli"] = conn["cli"]
  BY PullStep
<1>b. queue \in Seq(Command) /\ Len(queue) < QueueCap /\ queue' = Append(queue, e)
  BY DEF ServiceOK
<1> HIDE DEF e
<1>c. /\ queue' \in Seq(Command) /\ Len(queue') = Len(queue) + 1
      /\ queue'[Len(queue) + 1] = e /\ Len(queue) + 1 \in DOMAIN queue'
      /\ \A i \in DOMAIN queue : i \in DOMAIN queue' /\ queue'[i] = queue[i]
      /\ \A i \in DOMAIN queue' :
            i \in DOMAIN queue \/ (i = Len(queue) + 1 /\ i \notin DOMAIN queue)
  BY <1>a, <1>b, AppendFacts
<1>1. FlagsOK'
  BY Zenon DEF FlagsOK
<1>2. ServiceOK'
  BY <1>b, <1>c, IpcAssumption DEF ServiceOK
<1>3. MailOK'
  BY DEF MailOK
<1>4. WorkOK'
  BY DEF WorkOK
<1>5. CliOK'
  BY DEF CliOK
<1>6. ConnsOK'
  BY <1>a
<1>7. Poised'
  BY DEF Poised
<1>8. OneCommand'
  <2>1. CASE c # "cli"
    <3>1. /\ conn'["cli"] = conn["cli"] /\ e.by = "tray"
      BY <1>a, <2>1
    <3>2. InQueue' <=> InQueue
      BY <1>c, <3>1 DEF InQueue
    <3>3. \A i, j \in DOMAIN queue' :
             queue'[i].by = "cli" /\ queue'[j].by = "cli" => i = j
      BY <1>c, <3>1 DEF OneCommand
    <3>4. QED
      BY <3>1, <3>2, <3>3 DEF OneCommand, Waiting
  <2>2. CASE c = "cli"
    <3>1. Waiting /\ ~InQueue /\ applied = 0 /\ Len(conn["cli"].up) =< 1
      BY <2>2 DEF OneCommand, Waiting
    <3>2. conn'["cli"].up = <<>> /\ e.by = "cli"
      BY <1>a, <2>2, <3>1, LastEntry DEF Waiting
    <3>3. InQueue'
      BY <1>c, <3>2 DEF InQueue
    <3>4. \A i, j \in DOMAIN queue' :
             queue'[i].by = "cli" /\ queue'[j].by = "cli" => i = j
      BY <1>c, <3>1 DEF InQueue
    <3>5. cli.pc \notin {"idle", "first", "send"}
      BY <3>1 DEF OneCommand
    <3>6. QED
      BY <3>1, <3>2, <3>3, <3>4, <3>5 DEF OneCommand, Waiting
  <2>3. QED
    BY <2>1, <2>2
<1>9. FramesReal'
  BY <1>a DEF FramesReal, Asking
<1>10. NoLostWakeup'
  BY DEF NoLostWakeup
<1>11. QED
  BY <1>1, <1>2, <1>3, <1>4, <1>5, <1>6, <1>7, <1>8, <1>9, <1>10

\* The runtime loop applies a command.
LEMMA ApplyInv == ASSUME IInv, ApplyCommand PROVE IInv'
<1> USE DEF IInv, ApplyCommand, serviceVars, workVars, cliVars, mailVars
<1> DEFINE cmd == Head(queue)
<1>q. queue \in Seq(Command) /\ queue # <<>> /\ queue' = Tail(queue)
  BY DEF ServiceOK
<1>c. /\ cmd \in Command /\ cmd = queue[1] /\ 1 \in DOMAIN queue
      /\ queue' \in Seq(Command) /\ Len(queue') = Len(queue) - 1
      /\ \A i \in DOMAIN queue' : i + 1 \in DOMAIN queue /\ queue'[i] = queue[i + 1]
      /\ \A i \in DOMAIN queue : i # 1 => i - 1 \in DOMAIN queue'
  BY <1>q, TailFacts
<1>s. cmd.set \in Mode \cup {None} /\ cmd.by \in {"cli", "tray"}
  BY <1>c DEF Command
<1>a. /\ ConnsOK' /\ conn'["cli"].st = conn["cli"].st
      /\ conn'["cli"].open = conn["cli"].open /\ conn'["cli"].up = conn["cli"].up
      /\ conn'["cli"].buf = conn["cli"].buf /\ conn'["cli"].down = conn["cli"].down
  <2>1. CASE cmd.set = None
    BY <2>1 DEF ConnsOK, Sound
  <2>2. CASE cmd.set # None
    BY <2>2, NotifyStep
  <2>3. QED
    BY <2>1, <2>2
<1>m. mode' \in Mode /\ published' \in BOOLEAN
  <2>1. CASE cmd.set = None
    BY <2>1, Zenon DEF ServiceOK, FlagsOK
  <2>2. CASE cmd.set # None
    BY <2>2, <1>s DEF Notify
  <2>3. QED
    BY <2>1, <2>2
<1>h. applied' = IF cmd.by = "cli" /\ cli.pc # "done" THEN applied + 1 ELSE applied
  OBVIOUS
<1>i. since' = IF since = {} THEN {} ELSE since \cup {mode'}
  OBVIOUS
<1>u. UNCHANGED <<up, restarts, acceptor, mailVars, workVars, cache, cli>>
  OBVIOUS
<1> HIDE DEF cmd, ApplyCommand
<1>1. FlagsOK'
  BY Zenon, <1>m, <1>u DEF FlagsOK
<1>2. ServiceOK'
  BY <1>c, <1>m, <1>q, <1>u, IpcAssumption DEF ServiceOK
<1>3. MailOK'
  BY <1>u DEF MailOK
<1>4. WorkOK'
  BY <1>u DEF WorkOK
<1>5. CliOK'
  BY <1>h, <1>i, <1>m, <1>u DEF CliOK
<1>6. ConnsOK'
  BY <1>a
<1>7. Poised'
  BY <1>u DEF Poised
<1>8. OneCommand'
  <2>1. CASE cmd.by = "cli"
    <3>1. InQueue /\ ~Waiting /\ applied = 0
      BY <1>c, <2>1 DEF OneCommand, InQueue
    <3>2. ~InQueue' /\ ~Waiting'
      <4>1. \A i \in DOMAIN queue : queue[i].by = "cli" => i = 1
        BY <1>c, <2>1 DEF OneCommand
      <4>2. \A i \in DOMAIN queue' : i + 1 # 1
        BY <1>c
      <4>3. ~InQueue'
        BY <1>c, <4>1, <4>2 DEF InQueue
      <4>4. QED
        BY <1>a, <3>1, <4>3 DEF Waiting
    <3>3. applied' \in {0, 1} /\ (cli.pc = "done" => applied' = 0)
          /\ (cli.pc # "done" => applied' = 1)
      BY <1>h, <2>1, <3>1
    <3>4. cli.pc \notin {"idle", "first", "send"}
      BY <3>1 DEF OneCommand
    <3>5. \A i, j \in DOMAIN queue' :
             queue'[i].by = "cli" /\ queue'[j].by = "cli" => i = j
      BY <3>2 DEF InQueue
    <3>6. QED
      BY <1>a, <1>u, <3>2, <3>3, <3>4, <3>5 DEF OneCommand, Waiting
  <2>2. CASE cmd.by # "cli"
    <3>1. applied' = applied
      BY <1>h, <2>2
    <3>2. InQueue' <=> InQueue
      <4>1. InQueue' => InQueue
        BY <1>c DEF InQueue
      <4>2. InQueue => InQueue'
        <5>1. SUFFICES ASSUME NEW i \in DOMAIN queue, queue[i].by = "cli"
                       PROVE  InQueue'
          BY DEF InQueue
        <5>2. i # 1 /\ i \in Nat /\ i - 1 \in DOMAIN queue'
          BY <1>c, <1>q, <2>2, <5>1
        <5>3. queue'[i - 1] = queue[i]
          BY <1>c, <5>2
        <5>4. QED
          BY <5>1, <5>2, <5>3 DEF InQueue
      <4>3. QED
        BY <4>1, <4>2
    <3>3. \A i, j \in DOMAIN queue' :
             queue'[i].by = "cli" /\ queue'[j].by = "cli" => i = j
      <4>1. SUFFICES ASSUME NEW i \in DOMAIN queue', NEW j \in DOMAIN queue',
                            queue'[i].by = "cli", queue'[j].by = "cli"
                     PROVE  i = j
        OBVIOUS
      <4>2. i + 1 = j + 1
        BY <1>c, <4>1 DEF OneCommand
      <4>3. QED
        BY <1>c, <4>2
    <3>4. QED
      BY <1>a, <1>u, <3>1, <3>2, <3>3 DEF OneCommand, Waiting
  <2>3. QED
    BY <2>1, <2>2
<1>9. FramesReal'
  <2>1. since \subseteq since' /\ (mode \in since => mode' \in since')
    BY <1>i
  <2>2. QED
    BY <1>a, <1>u, <2>1 DEF FramesReal, Asking
<1>10. NoLostWakeup'
  BY <1>u DEF NoLostWakeup
<1>11. QED
  BY <1>1, <1>2, <1>3, <1>4, <1>5, <1>6, <1>7, <1>8, <1>9, <1>10

\* The service ends.
LEMMA StopsInv == ASSUME IInv, ServiceStops PROVE IInv'
<1> USE DEF IInv, ServiceStops, serviceVars, workVars, cliVars, mailVars
<1> HIDE DEF ServiceStops
<1>a. \A c \in Client :
         /\ conn'[c] \in Conn /\ Sound(c, conn'[c])
         /\ conn'[c].st \in {"none", "dead"} /\ conn'[c].up = <<>>
         /\ conn[c].open /\ conn[c].st # "none" =>
               /\ conn'[c].st = "dead" /\ conn'[c].open = conn[c].open
               /\ conn'[c].down = conn[c].down
  <2> TAKE c \in Client
  <2>1. conn[c] \in Conn /\ Sound(c, conn[c])
    BY DEF ConnsOK
  <2>2. CASE Free(c) \/ ~conn[c].open
    BY <2>2, FreshConn DEF Free, ServiceStops
  <2>3. CASE ~(Free(c) \/ ~conn[c].open)
    <3> DEFINE k == [conn[c] EXCEPT !.st = "dead", !.up = <<>>,
                                    !.unseen = FALSE, !.buf = None]
    <3>1. k \in Conn
      <4>1. <<>> \in Seq(Command)
        OBVIOUS
      <4>2. QED
        BY <2>1, <4>1 DEF Conn
    <3>2. k.st = "dead" /\ k.up = <<>> /\ k.open = conn[c].open
          /\ k.down = conn[c].down
      BY <2>1 DEF Conn
    <3>3. conn'[c] = k
      BY <2>3 DEF ServiceStops
    <3>4. Sound(c, k)
      <4> HIDE DEF k
      <4> QED
        BY <2>1, <3>2 DEF Sound
    <3>5. QED
      BY <3>1, <3>2, <3>3, <3>4
  <2>4. QED
    BY <2>2, <2>3
<1>b. conn' \in [Client -> Conn]
  BY <1>a DEF ServiceStops
<1>u. /\ up' = FALSE /\ queue' = <<>> /\ acceptor' = "off"
      /\ UNCHANGED <<restarts, mode, published, mailVars, workVars, cache, cliVars>>
  BY DEF ServiceStops
<1>1. FlagsOK'
  BY Zenon, <1>u DEF FlagsOK
<1>2. ServiceOK'
  BY <1>u, IpcAssumption DEF ServiceOK
<1>3. MailOK'
  BY <1>u DEF MailOK
<1>4. WorkOK'
  BY <1>u DEF WorkOK
<1>5. CliOK'
  BY <1>u DEF CliOK
<1>6. ConnsOK'
  BY <1>a, <1>b DEF ConnsOK, Sound
<1>7. Poised'
  BY <1>u DEF Poised
<1>8. OneCommand'
  BY <1>a, <1>u, Clients DEF FramesReal, Asking, OneCommand, Waiting, InQueue
<1>9. FramesReal'
  <2>1. conn'["cli"].st \in {"none", "dead"}
    BY <1>a, Clients
  <2>2. CASE Asking
    <3>1. conn["cli"].open /\ conn["cli"].st # "none"
      BY <2>2 DEF FramesReal
    <3>2. /\ conn'["cli"].st = "dead" /\ conn'["cli"].open
          /\ conn'["cli"].down = conn["cli"].down
      BY <1>a, <3>1, Clients
    <3>3. QED
      BY <1>u, <2>2, <3>2 DEF FramesReal, Asking
  <2>3. CASE ~Asking
    <3>1. cli.pc = "idle" => conn'["cli"].st = "none"
      <4>1. conn["cli"].st = "none" => conn'["cli"].st = "none"
        BY Clients, FreshConn DEF ServiceStops, Free
      <4>2. QED
        BY <4>1 DEF FramesReal
    <3>2. QED
      BY <1>u, <2>1, <2>3, <3>1 DEF FramesReal, Asking
  <2>4. QED
    BY <2>2, <2>3
<1>10. NoLostWakeup'
  BY <1>u DEF NoLostWakeup
<1>11. QED
  BY <1>1, <1>2, <1>3, <1>4, <1>5, <1>6, <1>7, <1>8, <1>9, <1>10

\* The service starts again.
LEMMA StartsInv == ASSUME IInv, ServiceStarts PROVE IInv'
<1> USE DEF IInv, ServiceStarts, serviceVars, workVars, cliVars, mailVars
<1>1. FlagsOK'
  BY Zenon DEF FlagsOK
<1>2. ServiceOK'
  BY IpcAssumption DEF ServiceOK
<1>3. MailOK'
  BY DEF MailOK
<1>4. WorkOK'
  BY DEF WorkOK
<1>5. CliOK'
  BY DEF CliOK
<1>6. ConnsOK'
  BY DEF ConnsOK, Sound
<1>7. Poised'
  BY DEF Poised
<1>8. OneCommand'
  BY DEF OneCommand, Waiting, InQueue
<1>9. FramesReal'
  BY DEF FramesReal, Asking
<1>10. NoLostWakeup'
  BY DEF NoLostWakeup
<1>11. QED
  BY <1>1, <1>2, <1>3, <1>4, <1>5, <1>6, <1>7, <1>8, <1>9, <1>10

\* Nothing happens.
LEMMA StutterInv == ASSUME IInv, UNCHANGED vars PROVE IInv'
<1> USE DEF IInv, vars, serviceVars, workVars, cliVars, mailVars
<1>1. FlagsOK'
  BY Zenon DEF FlagsOK
<1>2. ServiceOK'
  BY DEF ServiceOK
<1>3. MailOK'
  BY DEF MailOK
<1>4. WorkOK'
  BY DEF WorkOK
<1>5. CliOK'
  BY DEF CliOK
<1>6. ConnsOK'
  BY DEF ConnsOK, Sound
<1>7. Poised'
  BY DEF Poised
<1>8. OneCommand'
  BY DEF OneCommand, Waiting, InQueue
<1>9. FramesReal'
  BY DEF FramesReal, Asking
<1>10. NoLostWakeup'
  BY DEF NoLostWakeup
<1>11. QED
  BY <1>1, <1>2, <1>3, <1>4, <1>5, <1>6, <1>7, <1>8, <1>9, <1>10

-----------------------------------------------------------------------------
(***************************************************************************)
(* The theorems                                                            *)
(***************************************************************************)
\* The inductive invariant is one: it holds at first and every step keeps it.
THEOREM IpcInvariance == Spec => []IInv
<1>1. Init => IInv
  BY InitInv
<1>2. IInv /\ [Next]_vars => IInv'
  <2> SUFFICES ASSUME IInv, [Next]_vars
               PROVE  IInv'
    OBVIOUS
  <2>1. ASSUME NEW m \in Mode \cup {None}, Click(m) PROVE IInv'
    BY <2>1, ClickInv
  <2>2. ASSUME NEW m \in Mode, CliConnects(m) PROVE IInv'
    BY <2>2, CliConnectsInv
  <2>3. CASE Worker
    BY <2>3, WorkerInv, WorkerSendsInv, WorkerDropsInv, WorkerConnectsInv DEF Worker
  <2>4. CASE Tray
    BY <2>4, TrayConnectsInv, TrayReadsInv, TrayDisconnectedInv DEF Tray
  <2>5. CASE Cli
    BY <2>5, CliFirstInv, CliSendsInv, CliReadsInv, CliBrokenInv, CliExitsInv DEF Cli
  <2>6. CASE CreateInstance \/ ApplyCommand \/ Publish
    BY <2>6, CreateInv, ApplyInv, PublishInv
  <2>7. ASSUME NEW c \in Client, Task(c) PROVE IInv'
    BY <2>7, AcceptInv, PushInv, ReadCmdInv, EofInv DEF Task
  <2>8. CASE ServiceStops \/ ServiceStarts
    BY <2>8, StopsInv, StartsInv
  <2>9. CASE UNCHANGED vars
    BY <2>9, StutterInv
  <2>10. QED
    BY <2>1, <2>2, <2>3, <2>4, <2>5, <2>6, <2>7, <2>8, <2>9 DEF Next
<1>3. QED
  BY <1>1, <1>2, PTL DEF Spec

\* Types; in particular no pipe holds more frames than fit, and the channel
\* into the runtime loop no more commands than its capacity, however slowly a
\* client reads: server.rs waits for room before it writes or reads on.
THEOREM WithinCapacity == Spec => []TypeOK
<1>1. IInv => TypeOK
  <2> SUFFICES ASSUME IInv
               PROVE  TypeOK
    OBVIOUS
  <2>1. up \in BOOLEAN /\ published \in BOOLEAN /\ wake \in BOOLEAN
    BY Zenon DEF IInv, FlagsOK
  <2>2. conn \in [Client -> Conn] /\ \A c \in Client : Len(conn[c].down) =< PipeCap
    BY DEF IInv, ConnsOK, Sound
  <2>3. QED
    BY <2>1, <2>2 DEF IInv, TypeOK, ServiceOK, MailOK, WorkOK, CliOK
<1>2. QED
  BY <1>1, IpcInvariance, PTL

\* No wake-up of the command worker is lost (commands.rs): a command in the
\* mailbox always has its token in the channel, or the worker about to take it.
THEOREM WakeupsKept == Spec => []NoLostWakeup
<1>1. IInv => NoLostWakeup
  BY DEF IInv
<1>2. QED
  BY <1>1, IpcInvariance, PTL

\* set_mode_confirmed's command is applied once at most and not lost while its
\* connection lives, and a switch that it reports was really in effect.
THEOREM ConfirmationIsReal == Spec => []ModeConfirmed
<1>1. IInv => ModeConfirmed
  BY DEF IInv, ModeConfirmed, OneCommand, FramesReal, Waiting, CliOK
<1>2. QED
  BY <1>1, IpcInvariance, PTL
=============================================================================
