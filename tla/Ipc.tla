-------------------------------- MODULE Ipc --------------------------------
(***************************************************************************)
(* The named pipe between the service and its clients (src/ipc): the       *)
(* server's accept loop and one task per connection (server.rs), the       *)
(* client sessions (session.rs) of the tray's status thread, of the        *)
(* tray's command worker and of `wireless off/standby`, and the mailbox    *)
(* between the tray's windows and that worker (commands.rs).  Of a         *)
(* snapshot the model keeps the mode.  The service may stop and start      *)
(* again at any time.                                                      *)
(***************************************************************************)
EXTENDS Naturals, Sequences

CONSTANTS
    Mode,            \* NetMode
    Configured,      \* the modes that the service may find in its config
    None,            \* no mode: an empty mailbox slot, an empty cache, a Redial
    Lane,            \* bound: the command worker's connections alive at once
    PipeCap,         \* bound: frames that fit into a pipe
    QueueCap,        \* capacity of the command channel (16)
    ConfirmFrames,   \* frames that set_mode_confirmed reads (5)
    Presence,        \* bound: the sets of clients that may be there together
    MaxClicks,       \* bound: commands given in the tray's windows, by present
    MaxRestarts      \* bound: restarts of the service

ASSUME IpcAssumption ==
    /\ None \notin Mode /\ Configured \subseteq Mode
    /\ {"cli", "tray"} \cap Lane = {}
    /\ {PipeCap, QueueCap, ConfirmFrames} \subseteq Nat \ {0}
    /\ Presence \subseteq SUBSET (Lane \cup {"cli", "tray"})
    /\ MaxClicks \in [Presence -> Nat] /\ MaxRestarts \in Nat

VARIABLES
    up, restarts,    \* the service's process
    mode,            \* Supervisor.mode, as in the latest snapshot
    published,       \* a snapshot was sent since the accept loop's receiver
                     \* was made, which never looks at one itself
    queue,           \* the command channel into the runtime loop
    acceptor,        \* listen_once: "create", "listen", "taken" by a client
    conn,            \* the connections, by client
    pending, wake,   \* the mailbox: Pending and the wake channel of one
    worker, batch,   \* the command worker and what it has taken
    lane,            \* the connection it is using
    cache,           \* SharedSnapshot of the tray
    cli,             \* set_mode_confirmed
    since,           \* history: modes in effect since the server took up cli
    applied,         \* history: times cli's command was applied
    present,         \* the clients of this behaviour
    clicks

serviceVars == <<up, restarts, mode, published>>
mailVars    == <<pending, wake, clicks, present>>
workVars    == <<worker, batch, lane>>
cliVars     == <<cli, since, applied>>
vars == <<serviceVars, queue, acceptor, conn, mailVars, workVars, cache, cliVars>>

Client  == Lane \cup {"cli", "tray"}
Command == [by : {"cli", "tray"}, set : Mode \cup {None}]   \* None: Redial
NoConn  == [st |-> "none", open |-> FALSE, up |-> <<>>, down |-> <<>>,
            unseen |-> FALSE, buf |-> None]
Empty   == [redial |-> FALSE, mode |-> None]

Free(c) == conn[c].st = "none"
Served(c) == conn[c].st \in {"serving", "writing"}

Init ==
    /\ up = TRUE /\ restarts = 0 /\ mode \in Configured /\ published = FALSE
    /\ queue = <<>> /\ acceptor = "create" /\ conn = [c \in Client |-> NoConn]
    /\ pending = Empty /\ wake = FALSE /\ clicks = 0 /\ present \in Presence
    /\ worker = "idle" /\ batch = <<>> /\ lane = None /\ cache = None
    /\ cli = [pc |-> "idle", want |-> None, left |-> 0]
    /\ since = {} /\ applied = 0

-----------------------------------------------------------------------------
(***************************************************************************)
(* The mailbox and the command worker                                      *)
(***************************************************************************)
\* CommandSender::send, under the mailbox's lock.
Click(m) ==
    /\ clicks < MaxClicks[present] /\ clicks' = clicks + 1
    /\ pending' = IF m = None THEN [pending EXCEPT !.redial = TRUE]
                  ELSE [pending EXCEPT !.mode = m]
    /\ wake' = TRUE
    /\ UNCHANGED <<serviceVars, queue, acceptor, conn, workVars, cache, cliVars,
                   present>>

\* CommandReceiver::recv: first the wake token, then, under the lock, all of
\* the mailbox.
WorkerWakes ==
    /\ worker = "idle" /\ wake /\ wake' = FALSE /\ worker' = "take"
    /\ UNCHANGED <<serviceVars, queue, acceptor, conn, pending, clicks, present, batch,
                   lane, cache, cliVars>>

Cmds(p) == (IF p.mode # None THEN <<p.mode>> ELSE <<>>)
           \o (IF p.redial THEN <<None>> ELSE <<>>)

\* Mutant: one command per wake-up.
TakeOne ==
    /\ worker = "take" /\ worker' = "send"
    /\ batch' = SubSeq(Cmds(pending), 1, 1)
    /\ pending' = IF pending.mode # None THEN [pending EXCEPT !.mode = None]
                  ELSE Empty
    /\ UNCHANGED <<serviceVars, queue, acceptor, conn, wake, clicks, present, lane,
                   cache, cliVars>>

WorkerTakes ==
    /\ worker = "take" /\ worker' = "send"
    /\ batch' = Cmds(pending) /\ pending' = Empty
    /\ UNCHANGED <<serviceVars, queue, acceptor, conn, wake, clicks, present, lane,
                   cache, cliVars>>

BatchDone ==
    /\ worker = "send" /\ batch = <<>> /\ worker' = "idle"
    /\ UNCHANGED <<serviceVars, queue, acceptor, conn, mailVars, batch, lane, cache,
                   cliVars>>

\* Session::connect succeeds on an instance that is listening.
Open(c) ==
    /\ c \in present /\ Free(c) /\ acceptor = "listen" /\ acceptor' = "taken"
    /\ conn' = [conn EXCEPT ![c] = [NoConn EXCEPT !.st = "opened", !.open = TRUE]]

WorkerConnects(l) ==
    /\ worker = "send" /\ batch # <<>> /\ Open(l)
    /\ worker' = "write" /\ lane' = l
    /\ UNCHANGED <<serviceVars, queue, mailVars, batch, cache, cliVars>>

\* No instance for 5 s: the command is given up with a log line.
WorkerGivesUp ==
    /\ worker = "send" /\ batch # <<>> /\ acceptor # "listen"
    /\ batch' = Tail(batch)
    /\ UNCHANGED <<serviceVars, queue, acceptor, conn, mailVars, worker, lane, cache,
                   cliVars>>

\* A client's write: it fails when the server's end is gone.
Write(c, cmd) == conn' = IF conn[c].st = "dead" THEN conn
                         ELSE [conn EXCEPT ![c].up = Append(@, cmd)]

\* send_cmd_logged: one command per connection, sent without waiting for an
\* answer; then the session is dropped.
WorkerSends ==
    /\ worker = "write" /\ worker' = "drop"
    /\ Write(lane, [by |-> "tray", set |-> Head(batch)])
    /\ batch' = Tail(batch)
    /\ UNCHANGED <<serviceVars, queue, acceptor, mailVars, lane, cache, cliVars>>

\* A client closes its end.
Close(c) == conn' = [conn EXCEPT ![c] = IF @.st = "dead" THEN NoConn
                                        ELSE [@ EXCEPT !.open = FALSE]]

WorkerDrops ==
    /\ worker = "drop" /\ worker' = "send" /\ Close(lane) /\ lane' = None
    /\ UNCHANGED <<serviceVars, queue, acceptor, mailVars, batch, cache, cliVars>>

-----------------------------------------------------------------------------
(***************************************************************************)
(* The tray's status thread                                                *)
(***************************************************************************)
TrayConnects ==
    /\ Open("tray")
    /\ UNCHANGED <<serviceVars, queue, mailVars, workVars, cache, cliVars>>

\* next_snapshot into the cache.
Pop(c) == conn' = [conn EXCEPT ![c].down = Tail(@)]

TrayReads ==
    /\ conn["tray"].down # <<>> /\ Pop("tray")
    /\ cache' = Head(conn["tray"].down)
    /\ UNCHANGED <<serviceVars, queue, acceptor, mailVars, workVars, cliVars>>

\* The server is gone: clear the cache, connect again later.
TrayDisconnected ==
    /\ conn["tray"].st = "dead" /\ conn["tray"].down = <<>> /\ Close("tray")
    /\ cache' = None
    /\ UNCHANGED <<serviceVars, queue, acceptor, mailVars, workVars, cliVars>>

-----------------------------------------------------------------------------
(***************************************************************************)
(* `wireless off/standby`: set_mode_confirmed                              *)
(***************************************************************************)
CliStep(from, to) == cli.pc = from /\ cli' = [cli EXCEPT !.pc = to]
CliFrame == conn["cli"].down # <<>>

CliConnects(m) ==
    /\ cli.pc = "idle" /\ cli' = [cli EXCEPT !.pc = "first", !.want = m]
    /\ Open("cli")
    /\ UNCHANGED <<serviceVars, queue, mailVars, workVars, cache, since, applied>>

\* The first frame is older than the command.
CliFirst ==
    /\ CliFrame /\ Pop("cli") /\ CliStep("first", "send")
    /\ UNCHANGED <<serviceVars, queue, acceptor, mailVars, workVars, cache,
                   since, applied>>

CliSends ==
    /\ cli.pc = "send"
    /\ cli' = [cli EXCEPT !.pc = IF conn["cli"].st = "dead" THEN "fail" ELSE "confirm",
                          !.left = ConfirmFrames]
    /\ Write("cli", [by |-> "cli", set |-> cli.want])
    /\ UNCHANGED <<serviceVars, queue, acceptor, mailVars, workVars, cache,
                   since, applied>>

\* send_and_confirm: a frame with the mode asked for, out of the next few.
CliReads ==
    /\ CliFrame /\ cli.pc = "confirm" /\ Pop("cli")
    /\ LET hit == Head(conn["cli"].down) = cli.want
       IN  cli' = [cli EXCEPT !.left = @ - 1,
                              !.pc = IF hit THEN "ok"
                                     ELSE IF cli.left = 1 THEN "fail" ELSE @]
    /\ UNCHANGED <<serviceVars, queue, acceptor, mailVars, workVars, cache,
                   since, applied>>

CliBroken ==
    /\ cli.pc \in {"first", "confirm"} /\ conn["cli"].st = "dead" /\ ~CliFrame
    /\ cli' = [cli EXCEPT !.pc = "fail"]
    /\ UNCHANGED <<serviceVars, queue, acceptor, conn, mailVars, workVars, cache,
                   since, applied>>

CliExits ==
    /\ cli.pc \in {"ok", "fail"} /\ Close("cli")
    /\ cli' = [pc |-> "done", want |-> None, left |-> 0]
    /\ since' = {} /\ applied' = 0
    /\ UNCHANGED <<serviceVars, queue, acceptor, mailVars, workVars, cache>>

-----------------------------------------------------------------------------
(***************************************************************************)
(* The server                                                              *)
(***************************************************************************)
\* listen_once creates an instance (or fails and tries again in a second).
CreateInstance ==
    /\ up /\ acceptor = "create" /\ acceptor' = "listen"
    /\ UNCHANGED <<serviceVars, queue, conn, mailVars, workVars, cache, cliVars>>

\* connect() completes and the connection's task writes the snapshot of the
\* moment.  borrow() does not mark it as seen: once anything was published,
\* changed() reports it again.  With a client that has already closed, connect
\* or the write fails; what that client sent is lost.
Accept(c) ==
    /\ up /\ conn[c].st = "opened" /\ acceptor' = "create"
    /\ conn' = [conn EXCEPT ![c] = IF ~@.open THEN NoConn
                                   ELSE [@ EXCEPT !.st = "serving", !.down = <<mode>>,
                                                  !.unseen = published]]
    /\ since' = IF c = "cli" THEN {mode} ELSE since
    /\ UNCHANGED <<serviceVars, queue, mailVars, workVars, cache, cli, applied>>

\* write_all of a snapshot: into the pipe, or, with the pipe full, later.  A
\* client that has closed ends the task, and what it sent with it.
Push(c, snap) ==
    conn' = IF ~conn[c].open THEN [conn EXCEPT ![c] = NoConn]
            ELSE IF Len(conn[c].down) < PipeCap
            THEN [conn EXCEPT ![c].st = "serving", ![c].down = Append(@, snap),
                              ![c].unseen = @ /\ conn[c].st = "writing",
                              ![c].buf = None]
            ELSE [conn EXCEPT ![c].st = "writing", ![c].unseen = FALSE,
                              ![c].buf = snap]

\* Mutant: a change that comes while the task is busy writing is not seen.
ChangedOnce(c) ==
    /\ up /\ conn[c].st = "serving" /\ conn[c].unseen
    /\ \/ Push(c, mode)
       \/ conn[c].down # <<>> /\ conn' = [conn EXCEPT ![c].unseen = FALSE]
    /\ UNCHANGED <<serviceVars, queue, acceptor, mailVars, workVars, cache, cliVars>>

\* changed(): the watch channel holds the latest snapshot only.
Changed(c) ==
    /\ up /\ conn[c].st = "serving" /\ conn[c].unseen /\ Push(c, mode)
    /\ UNCHANGED <<serviceVars, queue, acceptor, mailVars, workVars, cache, cliVars>>

Written(c) ==
    /\ up /\ conn[c].st = "writing"
    /\ ~conn[c].open \/ Len(conn[c].down) < PipeCap
    /\ Push(c, conn[c].buf)
    /\ UNCHANGED <<serviceVars, queue, acceptor, mailVars, workVars, cache, cliVars>>

\* Mutant: a full channel loses the command.
ReadCmdDropping(c) ==
    /\ up /\ conn[c].st = "serving" /\ conn[c].up # <<>>
    /\ queue' = IF Len(queue) < QueueCap THEN Append(queue, Head(conn[c].up))
                ELSE queue
    /\ conn' = [conn EXCEPT ![c].up = Tail(@)]
    /\ UNCHANGED <<serviceVars, acceptor, mailVars, workVars, cache, cliVars>>

\* Mutant: the channel has no bound.
ReadCmdUnbounded(c) ==
    /\ up /\ conn[c].st = "serving" /\ conn[c].up # <<>>
    /\ queue' = Append(queue, Head(conn[c].up))
    /\ conn' = [conn EXCEPT ![c].up = Tail(@)]
    /\ UNCHANGED <<serviceVars, acceptor, mailVars, workVars, cache, cliVars>>

\* A command goes to the runtime loop; with its channel full the task waits.
ReadCmd(c) ==
    /\ up /\ conn[c].st = "serving" /\ conn[c].up # <<>> /\ Len(queue) < QueueCap
    /\ queue' = Append(queue, Head(conn[c].up))
    /\ conn' = [conn EXCEPT ![c].up = Tail(@)]
    /\ UNCHANGED <<serviceVars, acceptor, mailVars, workVars, cache, cliVars>>

ReadEof(c) ==
    /\ up /\ conn[c].st = "serving" /\ ~conn[c].open /\ conn[c].up = <<>>
    /\ conn' = [conn EXCEPT ![c] = NoConn]
    /\ UNCHANGED <<serviceVars, queue, acceptor, mailVars, workVars, cache, cliVars>>

-----------------------------------------------------------------------------
(***************************************************************************)
(* The runtime loop and the service                                        *)
(***************************************************************************)
\* snap_tx.send.
Notify == /\ published' = TRUE
          /\ conn' = [c \in Client |-> IF Served(c) THEN [conn[c] EXCEPT !.unseen = TRUE]
                                       ELSE conn[c]]

\* handle_command: a SetMode changes the snapshot (it logs an event), a Redial
\* by itself does not.
ApplyCommand ==
    /\ up /\ queue # <<>> /\ queue' = Tail(queue)
    /\ LET cmd == Head(queue)
       IN  /\ IF cmd.set = None THEN UNCHANGED <<mode, published, conn>>
              ELSE mode' = cmd.set /\ Notify
           /\ applied' = IF cmd.by = "cli" /\ cli.pc # "done" THEN applied + 1
                         ELSE applied
    /\ since' = IF since = {} THEN {} ELSE since \cup {mode'}
    /\ UNCHANGED <<up, restarts, acceptor, mailVars, workVars, cache, cli>>

\* Anything else in the snapshot changes.
Publish ==
    /\ up /\ Notify
    /\ UNCHANGED <<up, restarts, mode, queue, acceptor, mailVars, workVars, cache,
                   cliVars>>

\* The process ends: tasks, channel and pipe ends go with it.
ServiceStops ==
    /\ up /\ up' = FALSE /\ queue' = <<>> /\ acceptor' = "off"
    /\ conn' = [c \in Client |->
                  IF Free(c) \/ ~conn[c].open THEN NoConn
                  ELSE [conn[c] EXCEPT !.st = "dead", !.up = <<>>,
                                       !.unseen = FALSE, !.buf = None]]
    /\ UNCHANGED <<restarts, mode, published, mailVars, workVars, cache, cliVars>>

\* It starts again in the mode that was last saved, which is not the last one
\* set when saving it failed.
ServiceStarts ==
    /\ ~up /\ restarts < MaxRestarts /\ restarts' = restarts + 1
    /\ up' = TRUE /\ mode' \in Mode /\ published' = FALSE /\ acceptor' = "create"
    /\ UNCHANGED <<queue, conn, mailVars, workVars, cache, cliVars>>

Worker == \/ WorkerWakes \/ WorkerTakes \/ BatchDone \/ WorkerGivesUp
          \/ WorkerSends \/ WorkerDrops
          \/ \E l \in Lane : WorkerConnects(l)
Tray   == TrayConnects \/ TrayReads \/ TrayDisconnected
Cli    == CliFirst \/ CliSends \/ CliReads \/ CliBroken \/ CliExits
Task(c) == \/ Accept(c) \/ Changed(c) \/ Written(c)
           \/ ReadCmd(c) \/ ReadEof(c)

Next ==
    \/ (\E m \in Mode \cup {None} : Click(m))
    \/ (\E m \in Mode : CliConnects(m))
    \/ Worker \/ Tray \/ Cli
    \/ CreateInstance \/ (\E c \in Client : Task(c))
    \/ ApplyCommand \/ Publish \/ ServiceStops \/ ServiceStarts

Spec == Init /\ [][Next]_vars

\* Threads, tasks and the runtime loop are scheduled.
FairSpec ==
    /\ Spec /\ WF_vars(Worker) /\ WF_vars(Tray) /\ WF_vars(Cli)
    /\ WF_vars(CreateInstance) /\ WF_vars(ApplyCommand)
    /\ \A c \in Client : WF_vars(Task(c))

-----------------------------------------------------------------------------
Conn == [st : {"none", "opened", "serving", "writing", "dead"},
         open : BOOLEAN, up : Seq(Command), down : Seq(Mode), unseen : BOOLEAN,
         buf : Mode \cup {None}]

\* Types; in particular pipes and command channel keep within their capacity,
\* however slow the reader is.
TypeOK ==
    /\ up \in BOOLEAN /\ restarts \in 0..MaxRestarts /\ mode \in Mode
    /\ published \in BOOLEAN /\ queue \in Seq(Command) /\ Len(queue) =< QueueCap
    /\ acceptor \in {"create", "listen", "taken", "off"}
    /\ conn \in [Client -> Conn]
    /\ \A c \in Client : Len(conn[c].down) =< PipeCap
    /\ pending \in [redial : BOOLEAN, mode : Mode \cup {None}]
    /\ wake \in BOOLEAN /\ present \in Presence /\ clicks \in 0..MaxClicks[present]
    /\ worker \in {"idle", "take", "send", "write", "drop"}
    /\ batch \in Seq(Mode \cup {None}) /\ lane \in Lane \cup {None}
    /\ cache \in Mode \cup {None}
    /\ cli \in [pc : {"idle", "first", "send", "confirm", "ok", "fail", "done"},
                want : Mode \cup {None}, left : 0..ConfirmFrames]
    /\ since \subseteq Mode /\ applied \in Nat

\* No wake-up is lost between the windows' threads and the command worker:
\* whenever the mailbox holds a command, the token that will make the worker
\* take it is in the channel, or already taken.
NoLostWakeup == pending # Empty => wake \/ worker = "take"

InQueue == \E i \in DOMAIN queue : queue[i].by = "cli"
\* While its connection lives, the command of set_mode_confirmed is in exactly
\* one place: on its way in the pipe, in the channel, or applied once.  And a
\* confirmed switch is real: the service has been in that mode since it took
\* up the connection.  (Not more: the frame may be older than the command.)
ModeConfirmed ==
    /\ cli.pc = "confirm" /\ conn["cli"].st # "dead" =>
          \/ conn["cli"].up # <<>> /\ ~InQueue /\ applied = 0
          \/ conn["cli"].up = <<>> /\ InQueue /\ applied = 0
          \/ conn["cli"].up = <<>> /\ ~InQueue /\ applied = 1
    /\ applied =< 1
    /\ cli.pc = "ok" => cli.want \in since

\* Once the service stays up in a mode, the tray comes to show it, and goes on
\* showing it: whichever snapshots the watch channel skipped, and however often
\* the connection was lost before.
CacheConverges ==
    \A m \in Mode :
        <>[](up /\ mode = m /\ "tray" \in present) => <>[](cache = m)
=============================================================================
