# TLA+ models of gdut-net

gdut-net is a Windows service that keeps a campus PPPoE session dialled, takes
over on the campus WLAN when the wired side is out, and is driven by a tray
program and a command line over a named pipe. This directory holds TLA+
models of its control logic, the TLC runs that check them, and TLAPS proofs.
Paths below are relative to the repository (`src/...` in `PROJECT.json` starts
one level above).

## The system

| Part | State | Operations | Talks to |
|---|---|---|---|
| `watchdog.rs`, `backoff.rs` | phase, attempts, backoff, probe failures, link state, redial flag | `run_once`, `request_redial`, `set_eth_link`, `shutdown` | the dialer and the prober |
| `RealDialer` (`runtime.rs`), `ras.rs` | RAS handle, count of busy answers | dial with hang-up-and-retry, RasMan restart, hang-up | Windows RAS |
| `supervisor.rs` | link, session, deadlines, in-flight flags, brain, toast ledger | `on(event)` returns effects, a wake-up time and a snapshot; no I/O | the shell only |
| `Shell` and `run` (`runtime.rs`) | event queue, timer | select loop, `drain`, `exec_main`, stop handshake | supervisor, watchdog, worker, IPC |
| `Brain` (`wireless/mod.rs`) | mode, phase, outage and recovery clocks, login retries | `decide`, `on_auth`, `restart` | called by the supervisor |
| `WirelessWorker` (`runtime.rs`) | lane, last acquisition error | one effect after the other, in a task of its own | WLAN, egress, portal |
| `wireless/egress.rs`, `routes.rs` | route ledgers, saved metric, pending release | acquire, suppress, release, retry, Drop, startup cleanup | Windows routing |
| `wireless/portal.rs`, `probe.rs`, `http.rs` | none | login behind a billing gate, two-level probe | campus portal and gateway |
| `heartbeat/` | round counters, learned flags | keepalive rounds over UDP on a blocking thread, started again after 60 s | status to the supervisor |
| `ipc/` | snapshot watch, command channel (16), mailbox | a task per client, framed JSON, confirmed SetMode | tray, CLI, supervisor |
| `service.rs`, `setup/`, `shell.rs` | backups in memory, what was reached | update transaction with rollback, uninstall, delayed removal | SCM, files, registry, RAS |
| `tray/` | mutex, show event, window state, cached snapshot | launch, show, pump, status thread, command worker | IPC, other launches |
| `config.rs`, `crypto.rs`, `logging.rs`, `eventlog.rs`, `adapter.rs`, `cli.rs`, packaging | – | helpers | – |

The control loop takes one external event at a time, reduces it, executes the
main-lane effects inline (a dial may take a minute) and sends the wireless ones
to the worker over a bounded lane; results come back over a second channel.
What is hard here: the order in which results, commands, timers and cable
changes meet; state read before an effect and used after it; calls into
Windows that fail halfway; processes that are killed with routes, metrics and
connections in place; clocks that survive the situation they were started in.
`PROJECT.json` lists these as hazards, each at its line.

What makes each part correct, in short: the watchdog never loses a handle,
drops no session over one bad probe, backs off and always comes back; the
supervisor never stalls, never steps early, and tells the watchdog everything
in order, a cable known to be out first of all; the wireless half never waits
in vain, never logs in on old news, takes over and yields; the egress never
loses track of what it did to Windows, and a login or a probe believes only
what the server said; the heartbeat's status is true and its thread stops in
time; a command in the tray's mailbox is seen, a confirmed one was applied, and
the tray comes to show the mode in effect; an installation is a transaction
with an honest report; one tray runs, and it can be woken.

## Modules

| Module | Models | Composes | Proofs |
|---|---|---|---|
| `Watchdog` | `Watchdog`, `Backoff`, `RealDialer`, `ras::dial`, the PPPoE port | | `WatchdogProofs` |
| `WiredSupervisor` | wired handlers of `Supervisor`, toast ledger, `Shell` | watchdog as `StepResults` | `WiredSupervisorProofs` |
| `WirelessTakeover` | `Brain`, wireless handlers, lane, worker | reducer and worker | `WirelessTakeoverProofs` |
| `WirelessEgress` | `WirelessEgress` over `RouteGuard`, ends of the process | | `WirelessEgressProofs` |
| `PortalLogin` | `portal.rs`, `probe.rs`, `http.rs` | extends `WirelessEgress`: every login runs over its routes | `WirelessEgressProofs` |
| `Heartbeat` | `run_blocking`, the assembly task | session and task | `HeartbeatProofs` |
| `Ipc` | pipe server, client sessions, mailbox | service, tray threads, command line | `IpcProofs` |
| `Tray` | launches, singleton, show event, window | processes of one session | `TrayProofs` |
| `SetupTransaction` | `run_install`, backups, rollback, uninstall | setup, SCM, removal helper | `SetupTransactionProofs` |
| `SetupContract` | what an installation promises | refined by `SetupTransaction` | `SetupTransactionProofs` |

Each has an `MC...` module and one or more `.cfg` files (`SetupContract` is
checked through `SetupTransaction`, `WirelessEgress` through `PortalLogin`).
Operators that no action uses (`DialBusyOneTooMany`, `TakeOne`, ...) are faulty
variants of the definition that follows them. Substituting one for it must
break the property `PROJECT.json` names under "mutants".

**Watchdog.** Variables carry the names of the fields. `run_once` is cut where
it waits: `RunOnce` runs to the dial or the probe, `FinishDial` / `FinishProbe`
to the return, so the cable, the server, another dialer or a process restart
may act in between. `ras` is what occupies the port (`live`, `stale`, `none`),
`wedged` the port stuck in dialing after a dial without carrier. `stable_for`
is kept up to its threshold. `bad_probes` is history: the verdicts of the
current session that came in a row with no good one between, counted apart from
the program's own `probe_fails`, so that a count left over from an earlier
session shows.

**WiredSupervisor.** `Take...` puts one external event into the empty queue,
`On...` is the handler of an event, `Exec...` the execution of an effect.
Deadlines are kept as time left, instants as ages up to the threshold they are
compared with; `Tick` passes one unit, while the loop sleeps or while an effect
that waits is executed. The watchdog appears as the set of results a step may
have (`StepResults`). The wireless sample is executed on the main lane like the
link sample, so Started and any wake-up may bring both and two results may be
queued; when a wireless beat is due is left open, and what its handler does
beyond that is `WirelessTakeover`. Messages to the worker's lane are taken as
sent without waiting. History variables record what a step must respect
(`rest`, `fresh`), the last link state that was read (`seen`) and when toasts
were shown.

**WirelessTakeover.** `OnWirelessSampled` is a whole beat: sample, `decide`,
`handle_action`, metric update and join timeout. `Do...` ends one lane message
in the worker. After stop, waiting calls may be abandoned (`Abandon`), but an
association handed to the blocking pool goes on (`LateAssociation`). The wired
half is one flag, chosen anew at each beat. The metric requests that end a beat
change no state of the supervisor and get no answer; they are in
`WirelessEgress` only. Settling is part of the acquisition. `steady` tells the
behaviours in which nobody stops the service, switches its mode or kills its
worker, the ones `TakesOverAndYields` speaks of.

**WirelessEgress.** One action per lane message, each starting with the
`retry_cleanup` the worker runs first; every deletion, addition, read and write
may fail. `leftover` marks what earlier processes left. `WorkerEnds` covers the
Shutdown message and a panic, `Killed` the end without Drops.

**PortalLogin.** `StartLogin` is the egress's `PortalAuth`; the attempt then
goes query, confirmation, settle time, login, one action per request, while the
adapter may be replaced, the process end and the server's state change. A reply
is the record of the fields the parsers look at; garbled ones are among them.
`heard` is the meaning of the last genuine reply, against which the client's
verdict is compared. The probe is a pair of operators, `ProbeOnce` over what a
campus address that is or is not logged in may see (`HttpProbes`).

**Heartbeat.** `pc` is the place in the assembly task or the session loop; each
receive slice ends in a timeout, an error, an answer, a file packet or
something unparsable, as the network chooses. Answers carry nothing that the
code matches, so late ones are ordinary ones. Time is kept only from stop on.
`RuntimeDrops` is the runtime's `shutdown_timeout` collecting the assembly task
at its await, perhaps before its last Off (`dropped`); the blocking thread goes
on and must find the stop by itself.

**Ipc.** A connection has two directions, an end the client may close, and the
server task's `unseen` mark of the watch channel. A frame is the mode it
carries. `present` fixes which clients exist in a behaviour. Windows' threads,
command worker, status thread, command line, connection tasks and runtime loop
interleave freely; `ServiceStops` may come anywhere.

**Tray.** A process's handles follow from where it stands; the mutex and the
event exist while some process has a handle. `Show` is `show_or_focus`, used
by the pump, by clicks and by the start after a double click.

**SetupTransaction.** `val` gives each item (files, config, phonebook,
autostart, links, uninstall key) a version; `image` is what the service's
process was started on. The start type is auto, demand (what home mode leaves,
`packaging/payload/home.bat`) or disabled, and a rollback restores any of them.
One action per call that changes the machine, with what each failure of it
leaves behind: a file lost between two renames, a torn config, a service that
came up although its start failed. `before` is what the backups captured. The
rollback tries every step and remembers failures. `doomed` marks a registration
that `DeleteService` has accepted while the service's process was still
running: SCM drops it when that process ends. (A first model dropped it at
once; the proof of `HonestReport` failed where an uninstall whose stop had
failed was followed by another one, and the variable came from there.)

**SetupContract** has four phases and the machine: refused means unchanged,
committed means `Installed`, rolled back means `PutBack`, failed promises
nothing but says so. It is released from its promise when SCM or the removal
helper interfered, and also when the installer itself took an error in opening
the service for "not installed" (`meddled`): those cases are in the model but
exempted from the contract, not checked.

## Runs

| Run | Bounds | States | Shows |
|---|---|---|---|
| `watchdog` | the program's delays; attempts saturate at 22 (above the exponent cap 20); one restart | 244 k | `SessionAgreement`, `BackoffInStep`, `NoHastyDrop`, `FlappingKeepsEscalating`, `Reconnects` |
| `wired` | delays of 1 to 4 units, not to the program's scale | 125 k | `NoStall`, `InSync`, `NewestReading`, `BackoffHonoured`, `FreshLinkBeforeStep`, `ToastsThrottled`, `KeepsStepping` |
| `egress` | 2 destinations, 2 gateways, 2 interface indexes, 3 endpoints offered, 1 end of the process | 41 k | `RoutesTracked`, `RollbackArmed`, `LoginHasEgress`, `RollbackCompletes`, `VerdictsTruthful` |
| `takeover` | thresholds of one beat, one retry delay, lane of 2 | 632 k | `FlagsMatchWork`, `NothingAwaitedInVain`, `NoStaleReauth`, `TakesOverAndYields` |
| `setup` | one program file, 2 runs of setup, 2 failing calls | 1.02 M | `HonestReport`, `IsTransaction` (refinement), `Terminates` |
| `ipc` | 2 modes, pipes and channel of 1, 2 confirmation frames, 2 clicks with the tray or 1 with the command line, 1 service restart | 417 k | `NoLostWakeup`, `ModeConfirmed`, `CacheConverges` |
| `tray` | 3 launches | 276 k | `SingleInstance`, `ShowHonoured` |
| `heartbeat` | the program's values: modulus 128, 5 slices of 2 s | 29 k | `StatusTruthful`, `StopsInTime`, `EndsOrRecovers` |

Every run also checks its module's `TypeOK`, which besides types bounds what
the code bounds (a busy counter below its threshold, channels within their
capacity, at most two queued events, one event loop per process, counters one
apart across the wrap, a setup run that ends having said how).

Thresholds only matter by the order in which they pass. In `wired` they
are short, and not all in the program's order (the longest backoff equals the
probe interval, the throttle hardly exceeds the toast's threshold); the safety
properties of that run are proved for every value, its liveness is checked for
these. 22 attempts reach both the shift cap and saturation; two destinations and
two endpoints are what the partial failures need; one restart or end per
behaviour lets a second process meet what the first one left. The real lane
holds 64 messages, the command channel 16; the small ones let them fill up. Two
setup faults are one in the installation and one in its rollback; two runs let
the second meet what a killed or failed first one left, or what its uninstall's
removal helper still does. The files of the payload are handled one by one in
the same way, so one (the service's program) stands for them. Three launches
are a tray, one that asks it to show itself, and one that starts while another
ends. Tray and command line share no connection; both meet the command worker.

Four runs are expected to fail; each states what a document or comment of the
repository says and shows the behaviour of the code that differs (the trace is
TLC's; the quotations are in `PROJECT.json`):

* `egress_killed`: a process lowers the metric and is killed; the next one
  saves the lowered value as the original, and its release writes that back and
  reports success.
* `wired_toast`: the failure clock starts with the first step after the cable
  is pulled, so the first failed dial after a ten-minute pause toasts at once.
* `takeover_join`: the join clock of an earlier join times a new one out.
* `takeover_release`: a join timeout goes to Off without teardown; a wired
  recovery at that point leaves routes and association in place.

### Behaviours the models keep and no property forbids

* The outage and recovery clocks of the brain survive mode switches, so that
  the first beat of an outage may start a takeover. An association call
  abandoned at stop may connect the WLAN after the shutdown has disconnected it.
* A tray command is lost when the tray closes its pipe before the server's
  first write, or when a newer snapshot is pushed first (`ipc/server.rs:42`,
  `:57`). A confirmation frame may be older than the command it confirms, and a
  burst of snapshots can use up the five frames, which reports a switch that
  did happen as unconfirmed. Commands of two connections may swap.
* A show request between the first tray's mutex and its event is lost; a launch
  that meets the mutex of a tray just ending leaves no tray.
* The rollback of an installation starts the old service even when its files
  were not all restored (`HonestReport` then sees "Failed"). `stop_service`
  takes every error of opening the service for "not installed". `Config::save`
  is a plain write; a setup killed in it leaves a config that the next one
  refuses. The removal helper of an uninstall deletes files of a reinstall that
  follows within its 90 tries.
* The Redial command steps the watchdog without a fresh link sample
  (`supervisor.rs:484`).
* The heartbeat shows Running while the server is silent; answers are not
  matched to packets; an unparsable answer starts the next round at once.

### Fairness

* `Watchdog`: weak fairness of `run_once` and of its two continuations (the
  supervisor re-arms every step, dials and probes have timeouts). Strong
  fairness of a dial that can succeed and of a RasMan restart: the server and
  Windows may refuse many times, not for ever.
* `WiredSupervisor`: handlers and effects end (weak). Time passes and a due
  wake-up is taken again and again although other events may come first
  (strong): the select is biased, but commands and heartbeats come from people
  and from a 60 s loop. A link read that is tried for ever succeeds some day.
* `WirelessTakeover`: beats, each handler and the worker (weak); association,
  WLAN, routes and login succeed some day when tried for ever (strong).
* `WirelessEgress` and `PortalLogin`: the idle timer's retry succeeds some day
  where it can.
* `Heartbeat`: the thread runs on, and the task until it is dropped (weak:
  receives have a timeout, sends on a UDP socket do not block). Nothing is
  assumed of the task after the runtime has let go of it. An adapter that is
  looked for, and a port that is tried, again and again are there some day
  (strong).
* `Ipc`: threads, tasks and the runtime loop are scheduled (weak). Nobody needs
  to click, and the service may stay down.
* `Tray`: launched processes and the pump run (weak), and a window thread comes
  to its first frame or ends.
* `SetupTransaction`: the setup thread goes on (weak): its waits for SCM are
  bounded by the polling loops of `service.rs`.

Deadlock checking is off where the system may stop: a finished setup, an ended
heartbeat, clients with nothing to do. Elsewhere it is on; `Done` and
`Terminated` are the states in which the service has stopped.

## Proofs

Every invariant and every action property of the passing runs is proved by
TLAPS for all values of the constants, and so is the refinement of
`SetupContract`. Each proof module states an inductive invariant `IInv` as a
conjunction of named parts, proves that `Init` implies it and that each action
keeps each part, and derives the properties. All of them were first checked by
TLC as invariants of the run in question. Flags and data are separate
parts because different provers deal with them.

| Module | Theorems (property) |
|---|---|
| `WatchdogProofs` | `TypeCorrectness` (`TypeOK`), `SessionAgrees` (`SessionAgreement`), `BackoffStaysInStep` (`BackoffInStep`), `DropsAreJustified` (`NoHastyDrop`), `BackoffEscalates` (`FlappingKeepsEscalating`) |
| `WiredSupervisorProofs` | `TwoEventsAtMost` (`TypeOK`), `LoopNeverStalls` (`NoStall`), `LoopInSync` (`InSync`), `NewestReadingReaches` (`NewestReading`), `RestIsHonoured` (`BackoffHonoured`), `SampleBeforeStep` (`FreshLinkBeforeStep`), `ToastsAreThrottled` (`ToastsThrottled`) |
| `WirelessTakeoverProofs` | `WithinBounds` (`TypeOK`), `FlagsStandForWork` (`FlagsMatchWork`), `BrainNeverStuck` (`NothingAwaitedInVain`), `NoLoginOnOldVerdict` (`NoStaleReauth`) |
| `WirelessEgressProofs` | `EgressTypes` (`TypeOK`), `RoutesNeverLost` (`RoutesTracked`), `NothingForgotten` (`RollbackArmed`), `LoginsRideTheEgress` (`LoginHasEgress`), `LoginImplementsEgress`, `ClientBelievesServer` (`VerdictsTruthful`) |
| `HeartbeatProofs` | `CountersInStep` (`TypeOK`), `StatusNeverLies` (`StatusTruthful`), `StopIsPrompt` (`StopsInTime`) |
| `IpcProofs` | `WithinCapacity` (`TypeOK`), `WakeupsKept` (`NoLostWakeup`), `ConfirmationIsReal` (`ModeConfirmed`) |
| `TrayProofs` | `OneEventLoop` (`TypeOK`), `OneTray` (`SingleInstance`) |
| `SetupTransactionProofs` | `SetupTypes` (`TypeOK`), `ReportsAreHonest` (`HonestReport`), `SetupIsTransaction` (`IsTransaction`) |

**Watchdog.** `IInv` is `TypeOK`, `SessionAgreement`, `BackoffInStep` and
`VerdictsCounted`: a dial must be known to start without a handle for its
success to re-establish the agreement of phase and handle, the two counters
must be equal for one reset to suffice, and while connected the program's probe
failure count must be the number of bad verdicts in a row that this session got,
for the second one to be the one that drops. `NextDelayBounds`
and `SaturatingIncrRange` are the facts on the arithmetic. `ShiftAssumption`
states that the powers of two used are positive integers; the provers have no
theory of powers, TLC evaluates it.

**Wired supervisor.** The proof looks at queue and effect list without the
wireless sample and its result, which change nothing else (`wq`, `wt`), and
`Between` says where those two may stand. The loop is a small interpreter, and
the properties speak of its resting points, so the invariant follows it through
a reaction: `Shape` lists the forms that queue and effect list can have
together, `Begun` that the loop begins with Started and polls the link from
then on, `Sampling` that a sample is in flight exactly while it is asked for or
its answer is at hand, `Armed` that the watchdog's next step has its deadline,
waits for a sample, is being executed or has its answer at hand, `Agreed` what
reducer and watchdog know of each other on the way, `OneStep` that a step that
waits or is executed has no deadline behind it, `Rested` and `Toasts` relate
the deadlines the code keeps to the history the action properties look at, and
`Seen` says that the newest reading is the known link state or still at hand.

**Takeover.** `Counts` carries `FlagsMatchWork` past the death of the worker
(nothing more can come than the results it has left), and needs lemmas on what
an append or a removal does to the number of entries of a kind (`HitsAppend`,
`HitsTail`, by a bijection). `GivenUp` adds that the flags stay clear once the
brain is given up. `Outcomes` reduces `decide` to six cases. For
`NoStaleReauth` the invariant has `KickedFresh`: a verdict Kicked is of after
the last login or the answer to a later login is still behind it in the
channel; `OnlineIdle` (no login is under way while the brain is online)
excludes the second when the verdict is acted upon. The length of the result
channel follows from the counts of the three kinds.

**Egress and login.** `RoutesTracked` is inductive as it stands. For the
metric, `MetricKept` adds that a value saved for the present interface is the
original, which needs `Known` (no index is saved before Windows has shown it,
so a new index is never one already in the ledger). `RollbackArmed` for routes
rests on `NoneWanted`; `LoginHasEgress` on `EgressComplete` between an
acquisition and its login, and on `InPlace` (what the ledger has for the
present interface is in Windows). `LoginImplementsEgress` shows that
`PortalLogin`, with its own steps hidden, behaves like `WirelessEgress`, so
that these theorems hold of the composition that the run checks. `LoginInv`
then is the login's own invariant: a verdict exists only to be reported.

**Heartbeat.** `StopClock` says that time since stop has passed only when stop
is set and the thread is no longer inside a wait, so one receive slice is all
that can pass; `OnlyStopReturns`, that a session that returned by itself was
told to stop. A dropped task takes no step, so neither part speaks of it.

**Ipc.** Each connection is `Sound` for its kind: what may be in its two
directions at which place of the server's task. `OneCommand` counts the places
of the confirmed command, `FramesReal` says that every frame in a pipe carries
a mode the service was in since the connection was taken up.

**Tray.** `FlagsOK`, `PlacesOK` and `WindowOK` are the parts of the types;
`NoLoopYet` adds that a process without a window has created no event loop,
which is what makes the first show the only creation. `SingleInstance` is then
inductive.

**Setup.** The invariant follows the transaction: `Forward` and `Backward` say,
for every step, which items are already new or already put back; `FlagsCover`
that the three flags the rollback looks at say which parts of the machine were
reached; `Untouched` that what no flag covers is as captured; `Stages` which
steps belong to which run and what they have decided (a run that is done has
said how it ended); `Registered` that a process belongs to a registration,
marked for deletion only while it is up; `Removed` what the uninstallation has
already taken away. `IsTransaction` is the refinement: the phases of
`SetupContract` are read off `pc` and the outcome, and each step is shown to be
one of the contract's or to leave its variables alone.

What the constants stand for is not all unbounded in the program: `MaxFaults`,
`MaxRuns`, `MaxEnds`, `MaxRestarts` and `MaxClicks` are bounds of the models,
but the theorems hold for every value of them. The payload is any finite set of
files, the launches any set.

Only model-checked: the liveness properties `Reconnects`, `KeepsStepping`,
`TakesOverAndYields`, `RollbackCompletes`, `EndsOrRecovers`, `CacheConverges`,
`ShowHonoured` and `Terminates` (fairness is out of the prover's reach), and
the four counterexamples.

## Not modelled

Snapshots but for their mode, event texts, the bytes of packets, frames and
requests (the frame decoder delivers whole frames), what user interfaces draw,
packaging, configuration parsing and encryption, log rotation. The command
line's `install` is `install_core` with its rollback alone: it neither stops
the service before nor starts it after, copies no files and has no shell
integration; it is not modelled separately. The entropy key, the event source
and the recovery actions that an installation writes (`service.rs:250`, `:271`,
`:274`) are outside the modelled machine; the code never rolls them back, and
`HonestReport` and the contract say nothing of them. The status handshake of
the service with SCM is left out; a service that fails reports Stopped with
code 0 before its process exits with 1, so whether SCM restarts it is a free
choice. Two interfaces alive at once are not modelled: the WLAN adapter is one,
whose index may change. The wired and wireless halves of the supervisor are
separate modules; what joins them, the full lane that blocks the control loop,
is in `WirelessTakeover` only as a wait, and without the metric requests that
help to fill it.

## Plan

1. Done: all modules above and their runs.
2. Done: the proofs of all their safety properties and of the refinement of
   `SetupContract`.
3. Next: an abstract specification of a step of the watchdog (`StepResults`)
   with `Watchdog` shown to implement it, which would justify
   `WiredSupervisor`'s view of it; the same for the flags with which
   `WirelessTakeover` stands in for `WirelessEgress` and the wired half.
