-------------------------------- MODULE Tray --------------------------------
(***************************************************************************)
(* The tray's processes and their window (src/tray): the home mode guard,  *)
(* the named mutex that keeps one tray per session, the named auto-reset   *)
(* event by which a second launch asks the first to show its window, the   *)
(* message pump, and the window's state, shared by pump and window thread. *)
(* Kernel objects live as long as some process has a handle on them.       *)
(***************************************************************************)
EXTENDS Naturals, FiniteSets

CONSTANT Proc       \* bound: the launches of gdut-net.exe in one session

VARIABLES
    pc,             \* how far each launch has come
    asked,          \* launched by a double click: run_tray(true)
    unguarded,      \* CreateMutexW failed: a tray without the mutex
    signalled,      \* the show event
    gui,            \* GuiState
    visible,        \* the window is on the screen
    loops,          \* event loops that the process has created
    home,           \* SCM: on demand or disabled, and not running
    spawn_failed    \* history: a window thread could not be started

winVars == <<gui, visible, loops, spawn_failed>>
vars == <<pc, asked, unguarded, signalled, winVars, home>>

Running == {"entry", "guard", "mutex", "second", "signal", "set", "close",
            "setup", "pump"}

\* The handles a process has, by where it stands.
HasMutex(p) == pc[p] \in {"second", "setup", "pump"} /\ ~unguarded[p]
HasEvent(p) == pc[p] \in {"set", "close", "pump"}

Init ==
    /\ pc = [p \in Proc |-> "none"] /\ asked = [p \in Proc |-> FALSE]
    /\ unguarded = [p \in Proc |-> FALSE] /\ signalled = FALSE
    /\ gui = [p \in Proc |-> "Absent"] /\ visible = [p \in Proc |-> FALSE]
    /\ loops = [p \in Proc |-> 0] /\ home \in BOOLEAN /\ spawn_failed = FALSE

Goto(p, to) == pc' = [pc EXCEPT ![p] = to]

\* A process ends: its handles are closed, its window goes.  The event is
\* destroyed with its last handle.
Exit(p) ==
    /\ Goto(p, "gone")
    /\ signalled' = (signalled /\ \E q \in Proc \ {p} : HasEvent(q))
    /\ gui' = [gui EXCEPT ![p] = "Absent"]
    /\ visible' = [visible EXCEPT ![p] = FALSE]
    /\ UNCHANGED <<asked, unguarded, loops, spawn_failed, home>>

-----------------------------------------------------------------------------
(***************************************************************************)
(* From launch to the pump                                                 *)
(***************************************************************************)
\* The autostart entry, or a double click, which looks whether the service is
\* installed (and shows a message if not) before it goes on.
Launch(p, double) ==
    /\ pc[p] = "none" /\ Goto(p, IF double THEN "entry" ELSE "guard")
    /\ asked' = [asked EXCEPT ![p] = double]
    /\ UNCHANGED <<unguarded, signalled, winVars, home>>

\* double_click_entry and run_tray both ask for home mode; a failed query is
\* not home mode.
HomeCheck(p, from, to) ==
    /\ pc[p] = from
    /\ \/ Goto(p, to) /\ UNCHANGED <<asked, unguarded, signalled, winVars, home>>
       \/ (home \/ from = "entry") /\ Exit(p)

\* Mutant: the handle that was just opened is taken for ownership.
AcquireAnyHandle(p) ==
    /\ pc[p] = "mutex" /\ Goto(p, "setup")
    /\ UNCHANGED <<asked, unguarded, signalled, winVars, home>>

\* acquire_singleton
AcquireSingleton(p) ==
    /\ pc[p] = "mutex"
    /\ \/ /\ Goto(p, IF \E q \in Proc : HasMutex(q) THEN "second" ELSE "setup")
          /\ UNCHANGED unguarded
       \/ /\ Goto(p, "setup") /\ unguarded' = [unguarded EXCEPT ![p] = TRUE]
    /\ UNCHANGED <<asked, signalled, winVars, home>>

\* A second tray closes its handle on the mutex, then signal_show.
CloseMutex(p) ==
    /\ pc[p] = "second" /\ Goto(p, "signal")
    /\ UNCHANGED <<asked, unguarded, signalled, winVars, home>>

CreateEvent(p) ==
    /\ pc[p] = "signal"
    /\ \/ Goto(p, "set") /\ UNCHANGED <<asked, unguarded, signalled, winVars, home>>
       \/ Exit(p)

SetEvent(p) ==
    /\ pc[p] = "set" /\ Goto(p, "close") /\ signalled' = TRUE
    /\ UNCHANGED <<asked, unguarded, winVars, home>>

CloseEvent(p) == pc[p] = "close" /\ Exit(p)

-----------------------------------------------------------------------------
(***************************************************************************)
(* The window                                                              *)
(***************************************************************************)
\* show_or_focus, on the pump's thread: show a live window, start the first
\* one; nothing to do for one that is starting, nothing left to do for a dead
\* one.  winit allows one event loop per process.
Show(p) ==
    \/ /\ gui[p] = "Live" /\ visible' = [visible EXCEPT ![p] = TRUE]
       /\ UNCHANGED <<gui, loops, spawn_failed>>
    \/ gui[p] \in {"Starting", "Dead"} /\ UNCHANGED winVars
    \/ /\ gui[p] = "Absent" /\ gui' = [gui EXCEPT ![p] = "Starting"]
       /\ loops' = [loops EXCEPT ![p] = @ + 1]
       /\ UNCHANGED <<visible, spawn_failed>>
    \/ gui[p] = "Absent" /\ spawn_failed' = TRUE /\ UNCHANGED <<gui, visible, loops>>

\* The rest of run_tray up to the pump: menu, icon, threads, show event, and
\* the window at once after a double click.  Any of it may fail.
SetUp(p) ==
    /\ pc[p] = "setup"
    /\ \/ /\ Goto(p, "pump")
          /\ IF asked[p] THEN Show(p) ELSE UNCHANGED winVars
          /\ UNCHANGED <<asked, unguarded, signalled, home>>
       \/ Exit(p)

\* Mutant: the request is dropped when window messages are waiting as well.
PumpForgets(p) ==
    /\ pc[p] = "pump" /\ signalled /\ signalled' = FALSE
    /\ Show(p) \/ UNCHANGED winVars
    /\ UNCHANGED <<pc, asked, unguarded, home>>

\* pump_once: the wait takes the signal with it.
PumpWakes(p) ==
    /\ pc[p] = "pump" /\ signalled /\ signalled' = FALSE /\ Show(p)
    /\ UNCHANGED <<pc, asked, unguarded, home>>

\* A click on the icon, or the menu's entry.
TrayClick(p) ==
    /\ pc[p] = "pump" /\ Show(p)
    /\ UNCHANGED <<pc, asked, unguarded, signalled, home>>

\* The window's thread: the first frame.
GuiLive(p) ==
    /\ gui[p] = "Starting" /\ gui' = [gui EXCEPT ![p] = "Live"]
    /\ visible' = [visible EXCEPT ![p] = TRUE]
    /\ UNCHANGED <<pc, asked, unguarded, signalled, loops, spawn_failed, home>>

\* Mutant: a window that ended may be created again.
GuiEndsAbsent(p) ==
    /\ gui[p] \in {"Starting", "Live"} /\ gui' = [gui EXCEPT ![p] = "Absent"]
    /\ visible' = [visible EXCEPT ![p] = FALSE]
    /\ UNCHANGED <<pc, asked, unguarded, signalled, loops, spawn_failed, home>>

\* run_native returns or panics, before or after that frame.
GuiEnds(p) ==
    /\ gui[p] \in {"Starting", "Live"} /\ gui' = [gui EXCEPT ![p] = "Dead"]
    /\ visible' = [visible EXCEPT ![p] = FALSE]
    /\ UNCHANGED <<pc, asked, unguarded, signalled, loops, spawn_failed, home>>

\* Closing the window hides it.
CloseWindow(p) ==
    /\ visible[p] /\ visible' = [visible EXCEPT ![p] = FALSE]
    /\ UNCHANGED <<pc, asked, unguarded, signalled, gui, loops, spawn_failed, home>>

\* The menu's exit, a failing pump, logging off, or setup's kill_tray.
Ends(p) == pc[p] \in Running /\ Exit(p)

\* home.bat and campus.bat.
HomeModeSwitched ==
    /\ home' = ~home
    /\ UNCHANGED <<pc, asked, unguarded, signalled, winVars>>

Starts(p) == \/ HomeCheck(p, "entry", "guard") \/ HomeCheck(p, "guard", "mutex")
             \/ AcquireSingleton(p) \/ CloseMutex(p) \/ CreateEvent(p)
             \/ SetEvent(p) \/ CloseEvent(p) \/ SetUp(p)
Window(p) == GuiLive(p) \/ GuiEnds(p)

Next ==
    \/ \E p \in Proc :
          \/ \E double \in BOOLEAN : Launch(p, double)
          \/ Starts(p) \/ PumpWakes(p) \/ TrayClick(p)
          \/ GuiLive(p) \/ GuiEnds(p) \/ CloseWindow(p) \/ Ends(p)
    \/ HomeModeSwitched

Spec == Init /\ [][Next]_vars

\* Processes run; a window thread that has started comes to its first frame or
\* to its end.
FairSpec ==
    Spec /\ \A p \in Proc : /\ WF_vars(Starts(p)) /\ WF_vars(PumpWakes(p))
                            /\ WF_vars(gui[p] = "Starting" /\ Window(p))

-----------------------------------------------------------------------------
\* Types; and a process creates one event loop at most, as winit demands: a
\* window that failed or ended is never started again.
TypeOK ==
    /\ pc \in [Proc -> Running \cup {"none", "gone"}]
    /\ asked \in [Proc -> BOOLEAN] /\ unguarded \in [Proc -> BOOLEAN]
    /\ signalled \in BOOLEAN /\ home \in BOOLEAN /\ spawn_failed \in BOOLEAN
    /\ gui \in [Proc -> {"Absent", "Starting", "Live", "Dead"}]
    /\ visible \in [Proc -> BOOLEAN] /\ loops \in [Proc -> 0..1]
    /\ \A p \in Proc : gui[p] # "Absent" => pc[p] = "pump" /\ loops[p] = 1

HasIcon(p) == pc[p] \in {"setup", "pump"}

\* README: only one tray instance runs, however launches, exits and the second
\* instances' short-lived handles interleave, unless Windows refused the mutex.
SingleInstance ==
    \A p, q \in Proc : HasIcon(p) /\ HasIcon(q) /\ p # q =>
        unguarded[p] \/ unguarded[q]

\* README: launching again wakes the existing window.  A request signalled
\* while a tray is at its pump gets a window shown, unless that tray ends, its
\* window is dead or its thread could not be started, or a tray without the
\* mutex may have taken the request.
ShowHonoured ==
    (signalled /\ \E p \in Proc : pc[p] = "pump") ~>
        \/ \A p \in Proc : pc[p] # "pump"
        \/ \E p \in Proc : pc[p] = "pump" /\ (visible[p] \/ gui[p] = "Dead")
        \/ spawn_failed \/ \E p \in Proc : unguarded[p]
=============================================================================
