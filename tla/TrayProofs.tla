----------------------------- MODULE TrayProofs -----------------------------
(***************************************************************************)
(* One tray per session and one event loop per tray, for any number of     *)
(* launches.                                                               *)
(***************************************************************************)
EXTENDS Tray, TLAPS

\* The parts of the types: flags, places, and the window with its event loop.
FlagsOK ==
    /\ asked \in [Proc -> BOOLEAN] /\ unguarded \in [Proc -> BOOLEAN]
    /\ signalled \in BOOLEAN /\ home \in BOOLEAN /\ spawn_failed \in BOOLEAN
    /\ visible \in [Proc -> BOOLEAN]
PlacesOK ==
    /\ pc \in [Proc -> Running \cup {"none", "gone"}]
    /\ gui \in [Proc -> {"Absent", "Starting", "Live", "Dead"}]
    /\ loops \in [Proc -> 0..1]
WindowOK == \A p \in Proc : gui[p] # "Absent" => pc[p] = "pump" /\ loops[p] = 1

\* A process that has no window yet has created no event loop.
NoLoopYet == \A p \in Proc : gui[p] = "Absent" /\ pc[p] # "gone" => loops[p] = 0

\* The inductive invariant.
IInv == FlagsOK /\ PlacesOK /\ WindowOK /\ NoLoopYet /\ SingleInstance

-----------------------------------------------------------------------------
\* The initial states.
LEMMA InitInv == ASSUME Init PROVE IInv
<1>1. FlagsOK
  BY Zenon DEF Init, FlagsOK
<1>2. PlacesOK /\ WindowOK /\ NoLoopYet
  BY DEF Init, PlacesOK, WindowOK, NoLoopYet, Running
<1>3. SingleInstance
  BY DEF Init, SingleInstance, HasIcon
<1>4. QED
  BY <1>1, <1>2, <1>3 DEF IInv

\* A process ends, at whatever point: icon and window go with it.
LEMMA ExitInv == ASSUME IInv, NEW p \in Proc, Exit(p) PROVE IInv'
<1> USE DEF IInv, Exit, Goto
<1>1. FlagsOK'
  BY Zenon DEF FlagsOK
<1>2. PlacesOK'
  BY DEF PlacesOK, Running
<1>3. WindowOK' /\ NoLoopYet'
  BY DEF PlacesOK, WindowOK, NoLoopYet
<1>4. SingleInstance'
  BY DEF PlacesOK, FlagsOK, SingleInstance, HasIcon
<1>5. QED
  BY <1>1, <1>2, <1>3, <1>4

\* A launch, up to the mutex and past it for a second instance: no icon yet.
LEMMA NoIconYetInv ==
    ASSUME IInv, NEW p \in Proc,
           NEW to \in {"entry", "guard", "mutex", "second", "signal", "set", "close"},
           pc[p] # "gone", gui[p] = "Absent", Goto(p, to),
           asked' \in [Proc -> BOOLEAN], signalled' \in BOOLEAN,
           UNCHANGED <<unguarded, winVars, home>>
    PROVE  IInv'
<1> USE DEF IInv, Goto, winVars
<1>1. FlagsOK'
  BY Zenon DEF FlagsOK
<1>2. PlacesOK'
  BY DEF PlacesOK, Running
<1>3. WindowOK' /\ NoLoopYet'
  BY DEF PlacesOK, WindowOK, NoLoopYet
<1>4. SingleInstance'
  BY DEF PlacesOK, FlagsOK, SingleInstance, HasIcon
<1>5. QED
  BY <1>1, <1>2, <1>3, <1>4

\* acquire_singleton: an owner is alone with the mutex.
LEMMA AcquireInv ==
    ASSUME IInv, NEW p \in Proc, AcquireSingleton(p) PROVE IInv'
<1> USE DEF IInv, AcquireSingleton, Goto, winVars
<1>1. FlagsOK'
  BY Zenon DEF FlagsOK
<1>2. PlacesOK'
  BY DEF PlacesOK, Running
<1>3. WindowOK' /\ NoLoopYet'
  BY DEF PlacesOK, WindowOK, NoLoopYet
<1>4. SingleInstance'
  BY DEF PlacesOK, FlagsOK, SingleInstance, HasIcon, HasMutex
<1>5. QED
  BY <1>1, <1>2, <1>3, <1>4

\* show_or_focus, from the pump or when it is about to start.
LEMMA ShowInv ==
    ASSUME IInv, NEW p \in Proc, pc[p] \in {"setup", "pump"},
           pc' = [pc EXCEPT ![p] = "pump"], Show(p) \/ UNCHANGED winVars,
           signalled' \in BOOLEAN, UNCHANGED <<asked, unguarded, home>>
    PROVE  IInv'
<1> USE DEF IInv, Show, winVars
<1>1. FlagsOK'
  BY Zenon DEF FlagsOK
<1>2. PlacesOK'
  BY DEF PlacesOK, Running, NoLoopYet
<1>3. WindowOK' /\ NoLoopYet'
  BY DEF PlacesOK, WindowOK, NoLoopYet
<1>4. SingleInstance'
  BY DEF PlacesOK, FlagsOK, SingleInstance, HasIcon
<1>5. QED
  BY <1>1, <1>2, <1>3, <1>4

\* The window's own thread, its close button, and home.bat.
LEMMA WindowInv ==
    ASSUME IInv, \/ \E p \in Proc : GuiLive(p) \/ GuiEnds(p) \/ CloseWindow(p)
                 \/ HomeModeSwitched
                 \/ UNCHANGED vars
    PROVE  IInv'
<1> USE DEF IInv, GuiLive, GuiEnds, CloseWindow, HomeModeSwitched, vars, winVars
<1>1. FlagsOK'
  BY Zenon DEF FlagsOK
<1>2. PlacesOK'
  BY DEF PlacesOK, Running
<1>3. WindowOK' /\ NoLoopYet'
  BY DEF PlacesOK, WindowOK, NoLoopYet
<1>4. SingleInstance'
  BY DEF PlacesOK, FlagsOK, SingleInstance, HasIcon
<1>5. QED
  BY <1>1, <1>2, <1>3, <1>4

\* Every step keeps the invariant.
LEMMA NextInv == ASSUME IInv, [Next]_vars PROVE IInv'
<1> USE DEF IInv
<1>1. ASSUME NEW p \in Proc, NEW double \in BOOLEAN, Launch(p, double) PROVE IInv'
  <2>1. /\ asked' \in [Proc -> BOOLEAN] /\ signalled' \in BOOLEAN
        /\ UNCHANGED <<unguarded, winVars, home>>
    BY <1>1, Zenon DEF Launch, FlagsOK
  <2>2. \E to \in {"entry", "guard"} : Goto(p, to)
    BY <1>1 DEF Launch
  <2>3. pc[p] = "none" /\ gui[p] = "Absent"
    BY <1>1 DEF Launch, WindowOK
  <2>4. QED
    BY <2>1, <2>2, <2>3, NoIconYetInv
<1>2. ASSUME NEW p \in Proc, HomeCheck(p, "entry", "guard")
                             \/ HomeCheck(p, "guard", "mutex")
      PROVE  IInv'
  <2>1. CASE Exit(p)
    BY <2>1, ExitInv
  <2>2. CASE ~Exit(p)
    <3>1. /\ asked' \in [Proc -> BOOLEAN] /\ signalled' \in BOOLEAN
          /\ UNCHANGED <<unguarded, winVars, home>>
      BY <1>2, <2>2, Zenon DEF HomeCheck, FlagsOK
    <3>2. \E to \in {"guard", "mutex"} : Goto(p, to)
      BY <1>2, <2>2 DEF HomeCheck
    <3>3. pc[p] # "gone" /\ gui[p] = "Absent"
      BY <1>2 DEF HomeCheck, WindowOK
    <3>4. QED
      BY <3>1, <3>2, <3>3, NoIconYetInv
  <2>3. QED
    BY <2>1, <2>2
<1>3. ASSUME NEW p \in Proc, CloseMutex(p) \/ CreateEvent(p) \/ SetEvent(p)
      PROVE  IInv'
  <2>1. CASE Exit(p)
    BY <2>1, ExitInv
  <2>2. CASE ~Exit(p)
    <3>1. /\ asked' \in [Proc -> BOOLEAN] /\ signalled' \in BOOLEAN
          /\ UNCHANGED <<unguarded, winVars, home>>
      BY <1>3, <2>2, Zenon DEF CloseMutex, CreateEvent, SetEvent, FlagsOK
    <3>2. \E to \in {"signal", "set", "close"} : Goto(p, to)
      BY <1>3, <2>2 DEF CloseMutex, CreateEvent, SetEvent
    <3>3. pc[p] # "gone" /\ gui[p] = "Absent"
      BY <1>3 DEF CloseMutex, CreateEvent, SetEvent, WindowOK
    <3>4. QED
      BY <3>1, <3>2, <3>3, NoIconYetInv
  <2>3. QED
    BY <2>1, <2>2
<1>4. ASSUME NEW p \in Proc, CloseEvent(p) \/ Ends(p) PROVE IInv'
  BY <1>4, ExitInv DEF CloseEvent, Ends
<1>5. ASSUME NEW p \in Proc, SetUp(p) \/ PumpWakes(p) \/ TrayClick(p) PROVE IInv'
  <2>1. CASE Exit(p)
    BY <2>1, ExitInv
  <2>2. CASE ~Exit(p)
    <3>1. signalled' \in BOOLEAN /\ UNCHANGED <<asked, unguarded, home>>
      BY <1>5, <2>2, Zenon DEF SetUp, PumpWakes, TrayClick, FlagsOK
    <3>2. Show(p) \/ UNCHANGED winVars
      BY <1>5, <2>2 DEF SetUp, PumpWakes, TrayClick
    <3>3. pc[p] \in {"setup", "pump"} /\ pc' = [pc EXCEPT ![p] = "pump"]
      BY <1>5, <2>2 DEF SetUp, PumpWakes, TrayClick, Goto, PlacesOK
    <3>4. QED
      BY <3>1, <3>2, <3>3, ShowInv
  <2>3. QED
    BY <2>1, <2>2
<1>6. QED
  BY <1>1, <1>2, <1>3, <1>4, <1>5, AcquireInv, WindowInv DEF Next, Starts

\* Every reachable state of the trays satisfies the inductive invariant.
THEOREM TrayInvariance == Spec => []IInv
<1>1. Init => IInv
  BY InitInv
<1>2. IInv /\ [Next]_vars => IInv'
  BY NextInv
<1>3. QED
  BY <1>1, <1>2, PTL DEF Spec

\* Types, and no process ever creates a second event loop.
THEOREM OneEventLoop == Spec => []TypeOK
<1>1. IInv => TypeOK
  BY Zenon DEF IInv, FlagsOK, PlacesOK, WindowOK, TypeOK
<1>2. QED
  BY <1>1, TrayInvariance, PTL

\* However many launches interleave, two trays with an icon mean that Windows
\* refused one of them the mutex.
THEOREM OneTray == Spec => []SingleInstance
<1>1. IInv => SingleInstance
  BY DEF IInv
<1>2. QED
  BY <1>1, TrayInvariance, PTL
=============================================================================
