------------------------------ MODULE GuiProofs ------------------------------
(***************************************************************************)
(* Proofs about the window for every number of clicks and mounts, every    *)
(* setting and however patient the user is: no run leaves its mount        *)
(* behind, a mount takes the settings the window shows, and the window shows  *)
(* that a run serves.  Daemons are told apart by the run that created      *)
(* them; runs start in order, so a daemon that has left the slot never     *)
(* comes back.                                                             *)
(***************************************************************************)
EXTENDS Gui, SequenceTheorems, FiniteSetTheorems, TLAPS

----------------------------------------------------------------------------
(* Mounts *)

RunOK(x) == x \in [at : {"none", "mount", "mounted", "serving", "unmount", "done"},
                   daemon : Daemons \cup {Nobody}, woken : BOOLEAN]
RunsOK ==
    /\ runs = [r \in Runs |-> runs[r]] /\ \A r \in Runs : RunOK(runs[r])
    /\ slot \in Daemons \cup {Nobody}
    /\ umounts \in Nat

Holding == {"mounted", "serving", "unmount"}

\* A mount that lies on no other belongs to a run that will unmount it, or an
\* umount command is on its way.
MountsOK ==
    ~stacked =>
        /\ mounts = <<>> \/ \E r \in Runs : mounts = <<r>>
        /\ ~stuck /\ umounts = 0 => \A r \in Runs : mounts = <<r>> => runs[r].at \in Holding

MountsInv == RunsOK /\ MountsOK

\* A step that leaves the mounts alone and ends no run that holds one.
LEMMA OtherMounts ==
    ASSUME MountsInv, RunsOK', UNCHANGED <<mounts, umounts, stacked, stuck>>,
           \A r \in Runs : runs[r].at \in Holding =>
               runs'[r].at \in Holding \/ (mounts # <<r>>)
    PROVE  MountsInv'
BY DEF MountsInv, MountsOK

\* The topmost mount goes.
LEMMA UnmountTopmost ==
    ASSUME MountsInv, RunsOK', Topmost(mounts'), UNCHANGED stacked
    PROVE  MountsInv'
<1> SUFFICES ASSUME ~stacked PROVE mounts' = <<>>
  BY DEF MountsInv, MountsOK
<1>1. ASSUME NEW r \in Runs, mounts = <<r>> PROVE SubSeq(mounts, 1, Len(mounts) - 1) = <<>>
  BY <1>1
<1> QED BY <1>1 DEF MountsInv, MountsOK, Topmost

\* A notification disturbs no run.
LEMMA NotifyRuns ==
    ASSUME RunsOK, NEW d, NotifyOne(d)
    PROVE  /\ runs' = [r \in Runs |-> runs'[r]]
           /\ \A r \in Runs : RunOK(runs'[r]) /\ runs'[r].at = runs[r].at
                              /\ runs'[r].daemon = runs[r].daemon
<1>1. CASE UNCHANGED runs
  BY <1>1 DEF RunsOK
<1>2. ASSUME NEW q, runs' = [runs EXCEPT ![q].woken = TRUE]
      PROVE  /\ runs' = [r \in Runs |-> runs'[r]]
             /\ \A r \in Runs : RunOK(runs'[r]) /\ runs'[r].at = runs[r].at
                                /\ runs'[r].daemon = runs[r].daemon
  BY <1>2 DEF RunsOK, RunOK
<1> QED BY <1>1, <1>2 DEF NotifyOne

LEMMA StopSlotMounts ==
    ASSUME MountsInv, StopSlot, UNCHANGED <<mounts, umounts, stacked, stuck>>
    PROVE  MountsInv'
<1>1. slot' = Nobody /\ (UNCHANGED runs \/ NotifyOne(slot))
  BY DEF StopSlot
<1>2. RunsOK' /\ \A r \in Runs : runs'[r].at = runs[r].at
  BY <1>1, NotifyRuns DEF MountsInv, RunsOK
<1> QED BY <1>2, OtherMounts

LEMMA SpawnRunMounts == ASSUME MountsInv, SpawnRun PROVE MountsInv'
<1>1. PICK r \in Runs :
        /\ runs[r] = NoRun
        /\ slot' = IF slot = Nobody THEN r ELSE slot
        /\ runs' = [runs EXCEPT ![r] = [at |-> "mount", daemon |-> slot', woken |-> FALSE]]
  BY DEF SpawnRun
<1>2. UNCHANGED <<mounts, umounts, stacked, stuck>>
  BY DEF SpawnRun, table, past
<1>3. slot' \in Daemons \cup {Nobody}
  BY <1>1 DEF MountsInv, RunsOK, Runs, Daemons
<1>4. RunsOK'
  BY <1>1, <1>2, <1>3 DEF MountsInv, RunsOK, RunOK
<1>5. \A q \in Runs : runs[q].at \in Holding => runs'[q].at \in Holding
  BY <1>1 DEF MountsInv, RunsOK, NoRun, Holding
<1> QED BY <1>2, <1>4, <1>5, OtherMounts

LEMMA RunMountsMounts == ASSUME MountsInv, NEW r \in Runs, RunMounts(r) PROVE MountsInv'
<1>1. runs[r].at = "mount" /\ slot' = slot /\ umounts' = umounts /\ stuck' = stuck
  BY DEF RunMounts, RunAt, Stay
<1>2. CASE /\ runs' = [runs EXCEPT ![r].at = "mounted"]
           /\ mounts' = Append(mounts, r) /\ stacked' = (stacked \/ mounts # <<>>)
  <2>1. RunsOK' /\ runs'[r].at \in Holding
    BY <1>1, <1>2 DEF MountsInv, RunsOK, RunOK, Holding
  <2>2. ~stacked' => mounts' = <<r>>
    <3> SUFFICES ASSUME mounts = <<>> PROVE mounts' = <<r>>
      BY <1>2
    <3>1. Append(<<>>, r) = <<r>>
      OBVIOUS
    <3> QED BY <1>2, <3>1
  <2>3. \A q : <<r>> = <<q>> => q = r
    OBVIOUS
  <2> QED BY <2>1, <2>2, <2>3 DEF MountsInv, MountsOK
<1>3. CASE runs' = [runs EXCEPT ![r].at = "done"] /\ UNCHANGED <<mounts, stacked>>
  <2>1. RunsOK' /\ \A q \in Runs : runs[q].at \in Holding => runs'[q].at \in Holding
    BY <1>1, <1>3 DEF MountsInv, RunsOK, RunOK, Holding
  <2> QED BY <1>1, <1>3, <2>1, OtherMounts
<1> QED BY <1>2, <1>3 DEF RunMounts

LEMMA RunServesMounts ==
    ASSUME MountsInv, NEW r \in Runs, RunServes(r) \/ RunToldToStop(r) PROVE MountsInv'
<1>1. PICK here \in Holding : runs' = [runs EXCEPT ![r].at = here]
  BY DEF RunServes, RunToldToStop, Holding
<1>2. UNCHANGED <<slot, mounts, umounts, stacked, stuck>>
  BY DEF RunServes, RunToldToStop, Stay, table
<1>3. RunsOK' /\ \A q \in Runs : runs[q].at \in Holding => runs'[q].at \in Holding
  BY <1>1, <1>2 DEF MountsInv, RunsOK, RunOK, Holding
<1> QED BY <1>2, <1>3, OtherMounts

\* A run that returns disturbs no other.
LEMMA ReturnsRuns ==
    ASSUME RunsOK, NEW r \in Runs, RunReturns(r), UNCHANGED <<slot, umounts>>
    PROVE  RunsOK' /\ \A q \in Runs : q # r => runs'[q].at = runs[q].at
<1> DEFINE ended == [runs EXCEPT ![r].at = "done"]
<1>1. runs' = ended \/ \E q : runs' = [ended EXCEPT ![q].woken = TRUE]
  BY DEF RunReturns
<1>2. /\ ended = [q \in Runs |-> ended[q]]
      /\ \A q \in Runs : RunOK(ended[q]) /\ (q # r => ended[q].at = runs[q].at)
  BY DEF RunsOK, RunOK
<1> HIDE DEF ended
<1>3. CASE runs' = ended
  BY <1>2, <1>3 DEF RunsOK
<1>4. ASSUME NEW w, runs' = [ended EXCEPT ![w].woken = TRUE]
      PROVE  /\ runs' = [q \in Runs |-> runs'[q]]
             /\ \A q \in Runs : RunOK(runs'[q]) /\ runs'[q].at = ended[q].at
  BY <1>2, <1>4 DEF RunOK
<1> QED BY <1>1, <1>2, <1>3, <1>4 DEF RunsOK

\* A run ends by itself when what it had mounted is gone.
LEMMA RunEndsMounts == ASSUME MountsInv, NEW r \in Runs, RunEnds(r) PROVE MountsInv'
<1>1. RunReturns(r) /\ UNCHANGED <<slot, mounts, umounts, stacked, stuck>>
  BY DEF RunEnds, Stay, table
<1>2. mounts # <<r>>
  <2>1. r \notin {mounts[i] : i \in DOMAIN mounts}
    BY DEF RunEnds, IsMounted
  <2> SUFFICES ASSUME mounts = <<r>> PROVE FALSE
    OBVIOUS
  <2>2. 1 \in DOMAIN mounts /\ mounts[1] = r
    OBVIOUS
  <2> QED BY <2>1, <2>2
<1>3. RunsOK' /\ \A q \in Runs : q # r => runs'[q].at = runs[q].at
  BY <1>1, ReturnsRuns DEF MountsInv
<1>4. \A q \in Runs : runs[q].at \in Holding => runs'[q].at \in Holding \/ mounts # <<q>>
  BY <1>2, <1>3
<1> QED BY <1>1, <1>3, <1>4, OtherMounts

\* A run that fails leaves what it had mounted.
LEMMA RunFailsMounts == ASSUME MountsInv, NEW r \in Runs, RunFails(r) PROVE MountsInv'
<1>1. RunReturns(r) /\ UNCHANGED <<slot, mounts, umounts, stacked>> /\ stuck' = TRUE
  BY DEF RunFails, Stay, table
<1>2. RunsOK'
  BY <1>1, ReturnsRuns DEF MountsInv
<1> QED BY <1>1, <1>2 DEF MountsInv, MountsOK

\* A run that unmounts takes the topmost mount away, has a command do it, or
\* is stuck.
LEMMA RunUnmountsMounts == ASSUME MountsInv, NEW r \in Runs, RunUnmounts(r) PROVE MountsInv'
<1>1. runs' = [runs EXCEPT ![r].at = "done"] /\ UNCHANGED <<slot, stacked>>
  BY DEF RunUnmounts, Stay
<1>2. umounts' \in {umounts, umounts + 1}
  BY DEF RunUnmounts, table
<1>3. RunsOK'
  BY <1>1, <1>2 DEF MountsInv, RunsOK, RunOK
<1>4. CASE Topmost(mounts')
  BY <1>1, <1>3, <1>4, UnmountTopmost
<1>5. CASE umounts' = umounts + 1 /\ UNCHANGED mounts
  BY <1>1, <1>3, <1>5 DEF MountsInv, MountsOK, RunsOK
<1>6. CASE stuck' = TRUE /\ UNCHANGED mounts
  BY <1>1, <1>3, <1>6 DEF MountsInv, MountsOK
<1> QED BY <1>4, <1>5, <1>6 DEF RunUnmounts, table

LEMMA UmountMounts == ASSUME MountsInv, UmountRuns \/ UmountFromOutside PROVE MountsInv'
<1>1. UNCHANGED <<slot, runs, stacked>>
  BY DEF UmountRuns, UmountFromOutside, service, past
<1>2. umounts' \in Nat
  BY DEF UmountRuns, UmountFromOutside, MountsInv, RunsOK
<1>3. RunsOK'
  BY <1>1, <1>2 DEF MountsInv, RunsOK
<1>4. CASE Topmost(mounts')
  BY <1>1, <1>3, <1>4, UnmountTopmost
<1>5. CASE stuck' = TRUE /\ UNCHANGED mounts
  BY <1>1, <1>3, <1>5 DEF MountsInv, MountsOK
<1> QED BY <1>4, <1>5 DEF UmountRuns, UmountFromOutside

\* The runtime is dropped, and what is mounted may stay with it.
LEMMA LeaveMounts == ASSUME MountsInv, Leave PROVE MountsInv'
<1>1. UNCHANGED <<slot, runs, umounts, stacked, stuck>> /\ mounts' \in {mounts, <<>>}
  BY DEF Leave, service, past
<1>2. RunsOK'
  BY <1>1 DEF MountsInv, RunsOK
<1>3. \A r : <<>> # <<r>>
  OBVIOUS
<1> QED BY <1>1, <1>2, <1>3 DEF MountsInv, MountsOK

\* The steps that have nothing to do with runs and mounts.
LEMMA StillMounts ==
    ASSUME MountsInv, UNCHANGED <<slot, runs, umounts, mounts, stacked, stuck>> PROVE MountsInv'
BY DEF MountsInv, RunsOK, MountsOK

LEMMA MountsStep == MountsInv /\ [ClientNext]_all => MountsInv'
<1> SUFFICES ASSUME MountsInv, [ClientNext]_all PROVE MountsInv'
  OBVIOUS
<1> USE DEF table, service, past
<1>1. CASE Process \/ UNCHANGED all
  BY <1>1, StillMounts DEF Process, all, window
<1>2. CASE Buttons
  BY <1>2, StillMounts DEF Buttons, Retry, Login, Logout, Ask, ClickMount, ClickUnmount, CloseError,
        CloseWindow, Edit, ChangeString, ChangeBool, ChangeInt, Changing, Changed, Restore, Click
<1>3. CASE EventLoop
  <2>1. CASE QueueMounted \/ Handle \/ TimerFires
    BY <2>1, StillMounts DEF QueueMounted, Handle, TimerFires
  <2>2. CASE UnmountSlot \/ DropGui
    BY <2>2, StopSlotMounts DEF UnmountSlot, DropGui
  <2> QED BY <1>3, <2>1, <2>2, SpawnRunMounts, LeaveMounts DEF EventLoop
<1>4. ASSUME NEW j \in Jobs, Job(j) PROVE MountsInv'
  <2>1. CASE StopAndSleep(j)
    BY <2>1, StopSlotMounts DEF StopAndSleep
  <2>2. CASE ~StopAndSleep(j)
    BY <1>4, <2>2, StillMounts DEF Job, Health, CallFails, LoggedIn, LoggedOut, WakeUp
  <2> QED BY <2>1, <2>2
<1>5. ASSUME NEW r \in Runs, Run(r) \/ RunFails(r) PROVE MountsInv'
  BY <1>5, RunMountsMounts, RunServesMounts, RunEndsMounts, RunFailsMounts, RunUnmountsMounts DEF Run
<1>6. CASE UmountRuns \/ UmountFromOutside
  BY <1>6, UmountMounts
<1> QED BY <1>1, <1>2, <1>3, <1>4, <1>5, <1>6 DEF ClientNext

LEMMA MountsStart == ClientInit => MountsInv
<1> SUFFICES ASSUME ClientInit PROVE MountsInv
  OBVIOUS
<1>1. runs = [r \in Runs |-> NoRun] /\ slot = 0 /\ umounts = 0 /\ mounts = <<>>
  BY DEF ClientInit
<1>2. RunOK(NoRun) /\ 0 \in Daemons
  BY BoundsAssumption DEF RunOK, NoRun, Daemons
<1>3. \A r : <<>> # <<r>>
  OBVIOUS
<1> QED BY <1>1, <1>2, <1>3 DEF MountsInv, RunsOK, MountsOK

\* When every run has ended, nothing is left mounted, unless an unmount was
\* refused, a session failed over its mount, a mount lay on top of another, or
\* the process ended: unmount, or a lazy unmount after it, takes away what the
\* mount of the run has made (lib.rs:198-223, mount/unix.rs:82).
THEOREM NoMountIsLeft == ClientSpec => []RunsLeaveNoMount
<1>1. MountsInv => RunsLeaveNoMount
  BY DEF MountsInv, MountsOK, RunsLeaveNoMount, Holding
<1> QED BY <1>1, MountsStart, MountsStep, PTL DEF ClientSpec

----------------------------------------------------------------------------
(* Settings *)

Closures == {"healthy", "unhealthy", "logged in", "failed", "logged out", "mounted", "unmounted",
             "crashed", "changed", "refused", "restored"}
Queue == {events[i] : i \in DOMAIN events}

WindowOK ==
    /\ ui \in [loading : BOOLEAN, active : BOOLEAN, status : {"in", "out"}, error : BOOLEAN,
               away : BOOLEAN, reset : BOOLEAN, editing : BOOLEAN, settings : Values]
    /\ events \in Seq(Closures) /\ timers \subseteq {"in", "out"} /\ config \in Values

\* A setting that is not shown yet will be, by a closure that is queued; none
\* is while a mount begins, and defaults are never queued untold.
SettingsOK ==
    ~early =>
        /\ ~restored => ui.settings = config \/ "changed" \in Queue
        /\ callback = "mount" => "changed" \notin Queue
        /\ "restored" \in Queue => restored

SettingsInv == WindowOK /\ SettingsOK

\* The queue after a closure was added, and after the first one was taken.
LEMMA QueueGrows ==
    ASSUME WindowOK, NEW event \in Closures, events' = Append(events, event)
    PROVE  events' \in Seq(Closures) /\ Queue' = Queue \cup {event}
<1>1. events' \in Seq(Closures) /\ Len(events') = Len(events) + 1 /\ Len(events) \in Nat
      /\ events'[Len(events) + 1] = event /\ \A i \in 1 .. Len(events) : events'[i] = events[i]
  BY AppendProperties, LenProperties DEF WindowOK
<1>2. DOMAIN events = 1 .. Len(events) /\ DOMAIN events' = 1 .. Len(events) + 1
  BY <1>1, LenProperties DEF WindowOK
<1>3. \A e : e \in Queue <=> \E i \in 1 .. Len(events) : events[i] = e
  BY <1>2 DEF Queue
<1>4. \A e : e \in Queue' <=> \E i \in 1 .. Len(events) + 1 : events'[i] = e
  BY <1>2 DEF Queue
<1>5. \A i \in 1 .. Len(events) + 1 : i \in 1 .. Len(events) \/ i = Len(events) + 1
  BY <1>1
<1>6. /\ \A i \in 1 .. Len(events) : i \in 1 .. Len(events) + 1
      /\ Len(events) + 1 \in 1 .. Len(events) + 1
  BY <1>1
<1> QED BY <1>1, <1>3, <1>4, <1>5, <1>6

LEMMA QueueShrinks ==
    ASSUME WindowOK, events # <<>>, events' = Tail(events)
    PROVE  /\ events' \in Seq(Closures) /\ Head(events) \in Queue \cap Closures
           /\ Queue = Queue' \cup {Head(events)}
<1>1. /\ Head(events) \in Closures /\ events' \in Seq(Closures) /\ Head(events) = events[1]
      /\ Len(events') = Len(events) - 1 /\ \A i \in 1 .. Len(events') : events'[i] = events[i + 1]
  BY HeadTailProperties DEF WindowOK
<1>2. Len(events) \in Nat \ {0} /\ DOMAIN events = 1 .. Len(events) /\ DOMAIN events' = 1 .. Len(events')
  BY <1>1, LenProperties, EmptySeq DEF WindowOK
<1>3. \A i \in 1 .. Len(events) : i = 1 \/ (i - 1 \in 1 .. Len(events') /\ events[i] = events'[i - 1])
  BY <1>1, <1>2
<1>4. \A i \in 1 .. Len(events') : i + 1 \in 1 .. Len(events) /\ events'[i] = events[i + 1]
  BY <1>1, <1>2
<1>5. Queue \subseteq Queue' \cup {Head(events)}
  <2>1. ASSUME NEW i \in 1 .. Len(events) PROVE events[i] \in Queue' \cup {Head(events)}
    BY <1>1, <1>2, <1>3 DEF Queue
  <2> QED BY <1>2, <2>1 DEF Queue
<1>6. Queue' \subseteq Queue /\ Head(events) \in Queue
  BY <1>1, <1>2, <1>4 DEF Queue
<1> QED BY <1>1, <1>5, <1>6

\* A step that leaves the window alone and queues at most one closure, which
\* is about no setting.
Others == Closures \ {"changed", "restored"}
Aside ==
    /\ UNCHANGED <<ui, config, timers, restored, early>>
    /\ callback' = "mount" => callback = "mount"
    /\ UNCHANGED events \/ \E event \in Others : events' = Append(events, event)

LEMMA OtherSettings == ASSUME SettingsInv, Aside PROVE SettingsInv'
<1> USE DEF Aside, Others
<1>1. /\ events' \in Seq(Closures) /\ Queue \subseteq Queue'
      /\ \A event \in {"changed", "restored"} : event \in Queue' => event \in Queue
  <2>1. CASE UNCHANGED events
    BY <2>1 DEF Queue, SettingsInv, WindowOK
  <2>2. ASSUME NEW event \in Closures \ {"changed", "restored"}, events' = Append(events, event)
        PROVE  events' \in Seq(Closures) /\ Queue' = Queue \cup {event}
    BY <2>2, QueueGrows DEF SettingsInv
  <2> QED BY <2>1, <2>2
<1>2. WindowOK'
  BY <1>1 DEF SettingsInv, WindowOK
<1> QED BY <1>1, <1>2 DEF SettingsInv, SettingsOK

\* A click finds an empty queue, or it is early.
LEMMA ClickFinds ==
    ASSUME SettingsInv, NEW button, Click(button)
    PROVE  /\ early => early'
           /\ ~early' => events = <<>> /\ Queue = {}
           /\ callback = "none" /\ UNCHANGED timers
           /\ ui' \in [loading : BOOLEAN, active : BOOLEAN, status : {"in", "out"}, error : BOOLEAN,
                       away : BOOLEAN, reset : BOOLEAN, editing : BOOLEAN, settings : Values]
           /\ ui'.settings = ui.settings
<1>1. /\ early' = (early \/ Pending)
      /\ \E still \in BOOLEAN : ui' = [ui EXCEPT !.loading = TRUE, !.editing = @ /\ still]
      /\ callback = "none" /\ UNCHANGED timers
  BY DEF Click, Reachable
<1>2. ~Pending => events = <<>> /\ Queue = {}
  BY DEF Pending, Queue
<1>3. early => early'
  BY <1>1
<1>4. ~early' => ~Pending
  BY <1>1
<1> QED BY <1>1, <1>2, <1>3, <1>4 DEF SettingsInv, WindowOK

LEMMA ClickSettings ==
    ASSUME SettingsInv, Buttons, ~CloseError, ~CloseWindow, ~Edit PROVE SettingsInv'
<1>1. CASE Retry \/ Login \/ Logout \/ ClickMount \/ ClickUnmount
  <2>1. \E button : Click(button)
    BY <1>1 DEF Retry, Login, Logout, Ask, ClickMount, ClickUnmount
  <2>2. UNCHANGED <<events, config, restored>>
    BY <1>1 DEF Retry, Login, Logout, Ask, ClickMount, ClickUnmount
  <2>3. Queue' = Queue
    BY <2>2 DEF Queue
  <2>4. WindowOK'
    BY <2>1, <2>2, ClickFinds DEF SettingsInv, WindowOK
  <2> QED BY <2>1, <2>2, <2>3, <2>4, ClickFinds DEF SettingsInv, SettingsOK
<1>2. ASSUME NEW event \in {"changed", "refused", "restored"}, events' = Append(events, event),
             \E button : Click(button), UNCHANGED callback, config' \in Values,
             \/ event = "changed" /\ restored' = FALSE
             \/ event = "refused" /\ UNCHANGED <<config, restored>>
             \/ event = "restored" /\ restored' = TRUE
      PROVE  SettingsInv'
  <2>1. events' \in Seq(Closures) /\ Queue' = Queue \cup {event}
    BY <1>2, QueueGrows DEF SettingsInv, Closures
  <2>2. WindowOK'
    BY <1>2, <2>1, ClickFinds DEF SettingsInv, WindowOK
  <2>3. SettingsOK'
    BY <1>2, <2>1, ClickFinds DEF SettingsInv, SettingsOK
  <2> QED BY <2>2, <2>3 DEF SettingsInv
<1>3. CASE ChangeString \/ ChangeBool \/ ChangeInt \/ Restore
  <2>1. \E button : Click(button)
    BY <1>3 DEF ChangeString, ChangeBool, ChangeInt, Changing, Changed, Restore
  <2>2. config \in Values
    BY DEF SettingsInv, WindowOK
  <2>3. /\ UNCHANGED callback /\ config' \in Values
        /\ \/ events' = Append(events, "changed") /\ restored' = FALSE
           \/ events' = Append(events, "refused") /\ UNCHANGED <<config, restored>>
           \/ events' = Append(events, "restored") /\ restored' = TRUE
    BY <1>3, <2>2 DEF ChangeString, ChangeBool, ChangeInt, Changing, Changed, Restore
  <2> QED BY <1>2, <2>1, <2>3
<1> QED BY <1>1, <1>3 DEF Buttons

\* What a closure shows of the settings.
LEMMA ShownSettings ==
    ASSUME WindowOK, NEW event \in Closures
    PROVE  /\ Shown(event) \in [loading : BOOLEAN, active : BOOLEAN, status : {"in", "out"},
                                error : BOOLEAN, away : BOOLEAN, reset : BOOLEAN, editing : BOOLEAN, settings : Values]
           /\ event \in {"changed", "logged in"} => Shown(event).settings = config
           /\ event \notin {"changed", "logged in", "restored"} => Shown(event).settings = ui.settings
<1> USE DefaultAssumption DEF Shown, WindowOK
<1>1. CASE event \in {"healthy", "unhealthy", "logged in", "failed"}
  BY <1>1
<1>2. CASE event \in {"logged out", "mounted", "unmounted", "crashed"}
  BY <1>2
<1>3. CASE event \in {"changed", "refused", "restored"}
  BY <1>3
<1> QED BY <1>1, <1>2, <1>3 DEF Closures

LEMMA HandleSettings == ASSUME SettingsInv, Handle PROVE SettingsInv'
<1> DEFINE event == Head(events)
<1>1. /\ callback = "none" /\ events # <<>> /\ events' = Tail(events) /\ ui' = Shown(event)
      /\ UNCHANGED <<callback, config, early, restored>>
      /\ timers' = timers \cup (CASE event = "logged in" -> {"in"}
                                  [] event = "logged out" -> {"out"}
                                  [] OTHER -> {})
  BY DEF Handle
<1>2. events' \in Seq(Closures) /\ event \in Queue /\ event \in Closures /\ Queue = Queue' \cup {event}
  BY <1>1, QueueShrinks DEF SettingsInv
<1>3. timers' \subseteq {"in", "out"}
  BY <1>1 DEF SettingsInv, WindowOK
<1> HIDE DEF event
<1>4. WindowOK'
  BY <1>1, <1>2, <1>3, ShownSettings DEF SettingsInv, WindowOK
<1>5. SettingsOK'
  BY <1>1, <1>2, ShownSettings DEF SettingsInv, SettingsOK
<1> QED BY <1>4, <1>5 DEF SettingsInv

\* Timers, opened edit views and closed error messages show no setting.
LEMMA StatusSettings == ASSUME SettingsInv, TimerFires \/ CloseError \/ Edit PROVE SettingsInv'
<1>1. /\ UNCHANGED <<events, callback, config, early, restored>> /\ timers' \subseteq {"in", "out"}
      /\ ui' \in [loading : BOOLEAN, active : BOOLEAN, status : {"in", "out"}, error : BOOLEAN,
                  away : BOOLEAN, reset : BOOLEAN, editing : BOOLEAN, settings : Values]
      /\ ui'.settings = ui.settings
  BY DEF TimerFires, CloseError, Edit, past, SettingsInv, WindowOK
<1>2. Queue' = Queue
  BY <1>1 DEF Queue
<1> QED BY <1>1, <1>2 DEF SettingsInv, WindowOK, SettingsOK

LEMMA SettingsStep == SettingsInv /\ [ClientNext]_all => SettingsInv'
<1> SUFFICES ASSUME SettingsInv, [ClientNext]_all PROVE SettingsInv'
  OBVIOUS
<1> USE DEF desk, past, Others, Closures
<1>1. CASE Process \/ UNCHANGED all \/ UmountRuns \/ UmountFromOutside
  <2>1. Aside
    BY <1>1 DEF Aside, Process, all, window, UmountRuns, UmountFromOutside
  <2> QED BY <2>1, OtherSettings
<1>2. CASE Buttons
  <2>1. CASE CloseWindow
    <3>1. Aside
      BY <2>1 DEF Aside, CloseWindow
    <3> QED BY <3>1, OtherSettings
  <2> QED BY <1>2, <2>1, ClickSettings, StatusSettings
<1>3. CASE EventLoop
  <2>1. CASE SpawnRun \/ DropGui \/ Leave \/ QueueMounted \/ UnmountSlot
    <3>1. Aside
      BY <2>1 DEF Aside, SpawnRun, DropGui, Leave, QueueMounted, UnmountSlot
    <3> QED BY <3>1, OtherSettings
  <2> QED BY <1>3, <2>1, HandleSettings, StatusSettings DEF EventLoop
<1>4. ASSUME NEW j \in Jobs, Job(j) PROVE SettingsInv'
  <2>1. Aside
    BY <1>4 DEF Aside, Job, Health, CallFails, LoggedIn, LoggedOut, StopAndSleep, WakeUp, Queued
  <2> QED BY <2>1, OtherSettings
<1>5. ASSUME NEW r \in Runs, Run(r) \/ RunFails(r) PROVE SettingsInv'
  <2>1. Aside
    BY <1>5 DEF Aside, Run, RunMounts, RunServes, RunEnds, RunFails, RunToldToStop, RunUnmounts, Stay, Crashed
  <2> QED BY <2>1, OtherSettings
<1> QED BY <1>1, <1>2, <1>3, <1>4, <1>5 DEF ClientNext

LEMMA SettingsStart == ClientInit => SettingsInv
<1> SUFFICES ASSUME ClientInit PROVE SettingsInv
  OBVIOUS
<1>1. events = <<>> /\ timers = {} /\ config = Default /\ ui.settings = config /\ callback = "none"
      /\ ui = [loading |-> FALSE, active |-> FALSE, status |-> "out", error |-> FALSE,
               away |-> FALSE, reset |-> FALSE, editing |-> FALSE, settings |-> Default]
  BY DEF ClientInit
<1>2. Queue = {} /\ events \in Seq(Closures)
  BY <1>1 DEF Queue
<1> QED BY <1>1, <1>2, DefaultAssumption DEF SettingsInv, WindowOK, SettingsOK

\* A mount takes the settings the window shows when MOUNT is clicked, whatever
\* was changed, refused, shown or mounted before, and also when a setting was
\* changed while a file system was mounted, unless the defaults were restored
\* or a click came before the work of an earlier one was done (logic.rs:294,
\* :450-460, :582).
THEOREM MountsAsShown == ClientSpec => []MountsWhatIsShown
<1>1. SettingsInv => MountsWhatIsShown
  BY DEF SettingsInv, SettingsOK, MountsWhatIsShown
<1> QED BY <1>1, SettingsStart, SettingsStep, PTL DEF ClientSpec
----------------------------------------------------------------------------
(* Daemons *)

InUse(d) == d = 0 \/ (d \in Runs /\ runs[d].at # "none")
Ended == {r \in Runs : runs[r].at = "done"}

\* Each run waits at most once, and while it serves unnotified.
WaitersOK ==
    /\ waiters \in Seq(Runs)
    /\ \A i, k \in DOMAIN waiters : waiters[i] = waiters[k] => i = k
    /\ \A i \in DOMAIN waiters : runs[waiters[i]].at = "serving" /\ ~runs[waiters[i]].woken

\* A daemon that was told to stop has left the slot for good.
DaemonsOK ==
    /\ \A r \in Runs : IF runs[r].at = "none" THEN runs[r] = NoRun
                       ELSE runs[r].daemon \in 0 .. r /\ InUse(runs[r].daemon)
    /\ \A q, r \in Runs : q < r /\ runs[q].at = "none" => runs[r].at = "none"
    /\ slot # Nobody => slot \in Daemons /\ InUse(slot)
    /\ \A d \in permits : d \in Daemons /\ InUse(d)
    /\ slot \notin permits
    /\ \A r \in Runs : runs[r].woken => runs[r].daemon # slot /\ runs[r].at \in {"serving", "unmount", "done"}
    /\ umounts <= Cardinality(Ended)

DaemonsInv == RunsOK /\ WaitersOK /\ DaemonsOK

\* A queue without one of its elements.
Cut(w, n) == SubSeq(w, 1, n - 1) \o SubSeq(w, n + 1, Len(w))

LEMMA CutIs ==
    ASSUME NEW S, NEW w \in Seq(S), NEW n \in DOMAIN w, NEW v, v = Cut(w, n)
    PROVE  /\ v \in Seq(S) /\ DOMAIN v = 1 .. Len(w) - 1
           /\ \A i \in DOMAIN v : v[i] = IF i < n THEN w[i] ELSE w[i + 1]
<1>1. Len(w) \in Nat /\ n \in 1 .. Len(w) /\ \A i \in 1 .. Len(w) : w[i] \in S
  BY LenProperties
<1> DEFINE a == SubSeq(w, 1, n - 1)
           b == SubSeq(w, n + 1, Len(w))
<1>2. a \in Seq(S) /\ Len(a) = n - 1 /\ \A i \in 1 .. n - 1 : a[i] = w[i]
  <2>1. n - 1 \in Int /\ \A i \in 1 .. n - 1 : w[i] \in S
    BY <1>1
  <2>2. a \in Seq(S) /\ Len(a) = (IF 1 <= n - 1 THEN n - 1 - 1 + 1 ELSE 0)
        /\ \A i \in 1 .. (n - 1 - 1 + 1) : a[i] = w[1 + i - 1]
    BY <2>1, SubSeqProperties
  <2> HIDE DEF a
  <2> QED BY <1>1, <2>2
<1>3. b \in Seq(S) /\ Len(b) = Len(w) - n /\ \A i \in 1 .. Len(w) - n : b[i] = w[n + i]
  <2>1. n + 1 \in Int /\ Len(w) \in Int /\ \A i \in n + 1 .. Len(w) : w[i] \in S
    BY <1>1
  <2>2. b \in Seq(S) /\ Len(b) = (IF n + 1 <= Len(w) THEN Len(w) - (n + 1) + 1 ELSE 0)
        /\ \A i \in 1 .. Len(w) - (n + 1) + 1 : b[i] = w[n + 1 + i - 1]
    BY <2>1, SubSeqProperties
  <2> HIDE DEF b
  <2>3. Len(b) = Len(w) - n
    BY <1>1, <2>2
  <2>4. \A i \in 1 .. Len(w) - n : i \in 1 .. Len(w) - (n + 1) + 1 /\ n + 1 + i - 1 = n + i
    BY <1>1
  <2> QED BY <2>2, <2>3, <2>4
<1>4. v = a \o b
  BY DEF Cut
<1> HIDE DEF a, b
<1>5. /\ v \in Seq(S) /\ Len(v) = Len(a) + Len(b)
      /\ \A i \in 1 .. Len(a) + Len(b) : v[i] = IF i <= Len(a) THEN a[i] ELSE b[i - Len(a)]
  <2>1. /\ a \o b \in Seq(S) /\ Len(a \o b) = Len(a) + Len(b)
        /\ \A i \in 1 .. Len(a) + Len(b) : (a \o b)[i] = IF i <= Len(a) THEN a[i] ELSE b[i - Len(a)]
    BY <1>2, <1>3, ConcatProperties
  <2> DEFINE c == a \o b
  <2>2. v = c
    BY <1>4
  <2>3. /\ c \in Seq(S) /\ Len(c) = Len(a) + Len(b)
        /\ \A i \in 1 .. Len(a) + Len(b) : c[i] = IF i <= Len(a) THEN a[i] ELSE b[i - Len(a)]
    BY <2>1
  <2> HIDE DEF c
  <2> QED BY <2>2, <2>3
<1>6. DOMAIN v = 1 .. Len(v) /\ Len(v) = Len(w) - 1
  <2>1. DOMAIN v = 1 .. Len(v)
    BY <1>5, LenProperties
  <2> DEFINE L == Len(w)
  <2>3. L \in Nat /\ n \in 1 .. L
    BY <1>1
  <2> HIDE DEF L
  <2>4. n - 1 + (L - n) = L - 1
    BY <2>3
  <2>2. n - 1 + (Len(w) - n) = Len(w) - 1
    BY <2>4 DEF L
  <2> QED BY <1>2, <1>3, <1>5, <2>1, <2>2
<1> HIDE DEF a, b
<1>7. ASSUME NEW i \in 1 .. Len(w) - 1 PROVE v[i] = IF i < n THEN w[i] ELSE w[i + 1]
  <2>1. CASE i < n
    <3>1. i \in 1 .. n - 1 /\ i \in 1 .. Len(a) + Len(b) /\ i <= Len(a)
      BY <1>1, <1>2, <1>3, <2>1
    <3> QED BY <1>2, <1>5, <2>1, <3>1
  <2>2. CASE ~(i < n)
    <3>1. i - (n - 1) \in 1 .. Len(w) - n /\ n + (i - (n - 1)) = i + 1 /\ ~(i <= n - 1) /\ i \in 1 .. Len(a) + Len(b)
      <4> DEFINE L == Len(w)
                 A == Len(a)
                 B == Len(b)
      <4>1. L \in Nat /\ n \in 1 .. L /\ A = n - 1 /\ B = L - n /\ i \in 1 .. L - 1
        BY <1>1, <1>2, <1>3
      <4> HIDE DEF L, A, B
      <4>2. i \in Nat /\ n \in Nat /\ L \in Nat /\ n <= i /\ i <= L - 1
        BY <2>2, <4>1
      <4>3. i - (n - 1) \in 1 .. L - n
        BY <4>2
      <4>4. n + (i - (n - 1)) = i + 1
        BY <4>2
      <4>5. ~(i <= n - 1) /\ i \in 1 .. A + B
        BY <4>1, <4>2
      <4> QED BY <4>3, <4>4, <4>5 DEF L, A, B
    <3>2. v[i] = b[i - (n - 1)]
      <4>1. Len(a) = n - 1
        BY <1>2
      <4>2. v[i] = b[i - Len(a)]
        BY <1>5, <3>1, <4>1
      <4> QED BY <4>1, <4>2
    <3>3. b[i - (n - 1)] = w[n + (i - (n - 1))]
      BY <1>3, <3>1
    <3> QED BY <2>2, <3>1, <3>2, <3>3
  <2> QED BY <2>1, <2>2
<1> QED BY <1>5, <1>6, <1>7

\* A run that still waits is told nothing by a step that leaves it alone.
LEMMA WaitersStay ==
    ASSUME WaitersOK, UNCHANGED waiters,
           \A r \in Runs : runs[r].at = "serving" /\ ~runs[r].woken => runs'[r].at = "serving" /\ ~runs'[r].woken
    PROVE  WaitersOK'
<1>1. \A i \in DOMAIN waiters : waiters[i] \in Runs
  BY LenProperties DEF WaitersOK
<1> QED BY <1>1 DEF WaitersOK

LEMMA WaiterLeaves ==
    ASSUME WaitersOK, NEW n \in DOMAIN waiters, waiters' = Without(n),
           \A r \in Runs \ {waiters[n]} : runs[r].at = "serving" /\ ~runs[r].woken
                => runs'[r].at = "serving" /\ ~runs'[r].woken
    PROVE  WaitersOK'
<1>0. \A i \in DOMAIN waiters : waiters[i] \in Runs
  BY LenProperties DEF WaitersOK
<1>1. /\ waiters' \in Seq(Runs) /\ DOMAIN waiters' = 1 .. Len(waiters) - 1
      /\ \A i \in DOMAIN waiters' : waiters'[i] = IF i < n THEN waiters[i] ELSE waiters[i + 1]
  <2>1. waiters' = Cut(waiters, n)
    BY DEF Without, Cut
  <2>2. waiters \in Seq(Runs) /\ n \in DOMAIN waiters
    BY DEF WaitersOK
  <2> QED BY <2>1, <2>2, CutIs
<1>2. Len(waiters) \in Nat /\ DOMAIN waiters = 1 .. Len(waiters)
  BY LenProperties DEF WaitersOK
<1> DEFINE was(i) == IF i < n THEN i ELSE i + 1
<1>3. \A i \in DOMAIN waiters' : was(i) \in DOMAIN waiters /\ was(i) # n /\ waiters'[i] = waiters[was(i)]
  BY <1>1, <1>2
<1>7. \A i, k \in DOMAIN waiters' : was(i) = was(k) => i = k
  BY <1>1, <1>2
<1> HIDE DEF was
<1>4. \A i, k \in DOMAIN waiters' : waiters'[i] = waiters'[k] => i = k
  BY <1>3, <1>7 DEF WaitersOK
<1>5. ASSUME NEW i \in DOMAIN waiters'
      PROVE  runs'[waiters'[i]].at = "serving" /\ ~runs'[waiters'[i]].woken
  <2>1. waiters'[i] \in Runs /\ waiters'[i] # waiters[n]
    BY <1>0, <1>3 DEF WaitersOK
  <2>2. runs[waiters'[i]].at = "serving" /\ ~runs[waiters'[i]].woken
    BY <1>3 DEF WaitersOK
  <2> QED BY <2>1, <2>2
<1> QED BY <1>1, <1>4, <1>5 DEF WaitersOK

\* Runs that have ended stay so.
LEMMA EndedGrows ==
    ASSUME \A r \in Runs : runs[r].at = "done" => runs'[r].at = "done"
    PROVE  Cardinality(Ended) <= Cardinality(Ended') /\ Cardinality(Ended) \in Nat /\ Cardinality(Ended') \in Nat
<1>1. IsFiniteSet(Runs)
  BY BoundsAssumption, FS_Interval DEF Runs
<1>2. Ended' \subseteq Runs /\ Ended \subseteq Ended'
  BY DEF Ended
<1>3. IsFiniteSet(Ended')
  BY <1>1, <1>2, FS_Subset
<1> QED BY <1>2, <1>3, FS_Subset, FS_CardinalityType

\* A step after which every run has the daemon it had, and that takes nothing
\* into the slot.
LEMMA DaemonsStay ==
    ASSUME DaemonsInv, RunsOK', WaitersOK', slot' \in {slot, Nobody},
           \A r \in Runs : /\ runs[r].at = "done" => runs'[r].at = "done"
                           /\ runs'[r].daemon = runs[r].daemon
                           /\ IF runs[r].at = "none" THEN runs'[r] = runs[r] ELSE runs'[r].at # "none"
                           /\ runs'[r].woken =>
                                /\ runs[r].woken \/ runs[r].daemon # slot'
                                /\ runs'[r].at \in {"serving", "unmount", "done"},
           \A d \in permits' : d \in permits \/ (d \in Daemons /\ InUse(d) /\ d # slot'),
           umounts' <= umounts \/ umounts' <= Cardinality(Ended')
    PROVE  DaemonsInv'
<1>1. \A d : InUse(d) => InUse(d)'
  BY DEF InUse
<1>2. umounts' <= Cardinality(Ended')
  BY EndedGrows DEF DaemonsInv, DaemonsOK, RunsOK
<1>3. /\ slot' \notin permits'
      /\ \A r \in Runs : runs'[r].woken => /\ runs'[r].daemon # slot'
                                           /\ runs'[r].at \in {"serving", "unmount", "done"}
  <2>1. Nobody \notin Daemons
    BY NobodyAssumption DEF Daemons
  <2>2. \A r \in Runs : runs[r].woken => runs[r].daemon # Nobody
    BY NobodyAssumption DEF DaemonsInv, DaemonsOK, NoRun
  <2> QED BY <2>1, <2>2 DEF DaemonsInv, DaemonsOK
<1>4. (\A r \in Runs : IF runs[r].at = "none" THEN runs[r] = NoRun
                        ELSE runs[r].daemon \in 0 .. r /\ InUse(runs[r].daemon))'
  BY <1>1 DEF DaemonsInv, DaemonsOK
<1>5. ((slot # Nobody => slot \in Daemons /\ InUse(slot)) /\ \A d \in permits : d \in Daemons /\ InUse(d))'
  BY <1>1 DEF DaemonsInv, DaemonsOK
<1>6. \A q, r \in Runs : q < r /\ runs'[q].at = "none" => runs'[r].at = "none"
  BY DEF DaemonsInv, DaemonsOK
<1> QED BY <1>2, <1>3, <1>4, <1>5, <1>6 DEF DaemonsInv, DaemonsOK

LEMMA DaemonsAre ==
    ASSUME DaemonsInv
    PROVE  /\ umounts <= umounts
           /\ \A r \in Runs :
                /\ runs[r].woken => runs[r].at \in {"serving", "unmount", "done"} /\ runs[r].daemon # slot
                /\ runs[r].at # "none" => runs[r].daemon \in Daemons /\ InUse(runs[r].daemon)
<1>1. umounts <= umounts
  BY DEF DaemonsInv, RunsOK
<1>2. \A r \in Runs : 0 .. r \subseteq Daemons
  BY BoundsAssumption DEF Runs, Daemons
<1> QED BY <1>1, <1>2 DEF DaemonsInv, DaemonsOK

\* A notification wakes a run that waits for this daemon, or leaves a permit.
LEMMA NotifyIs ==
    ASSUME DaemonsInv, NEW d \in Daemons, NotifyOne(d)
    PROVE  \/ permits' = permits \cup {d} /\ UNCHANGED <<runs, waiters>>
           \/ \E i \in DOMAIN waiters :
                /\ waiters[i] \in Runs /\ runs[waiters[i]].daemon = d /\ Live(waiters[i])
                /\ runs' = [runs EXCEPT ![waiters[i]].woken = TRUE]
                /\ waiters' = Without(i) /\ UNCHANGED permits
<1>1. ASSUME NEW i \in Waiting(d) PROVE i \in DOMAIN waiters /\ waiters[i] \in Runs /\ runs[waiters[i]].daemon = d /\ Live(waiters[i])
  BY <1>1, LenProperties DEF Waiting, DaemonsInv, WaitersOK, Live
<1> QED BY <1>1 DEF NotifyOne

LEMMA StopSlotDaemons ==
    ASSUME DaemonsInv, RunsOK', StopSlot, UNCHANGED umounts
    PROVE  /\ DaemonsInv' /\ slot' = Nobody
           /\ \A r \in Runs : Live(r)' => Live(r) /\ runs'[r].daemon = runs[r].daemon
           /\ permits \subseteq permits'
           /\ \A r \in Runs : Live(r)' => \/ runs'[r].daemon # slot
                                        \/ slot \in permits'
                                        \/ \E q \in Runs \ {r} : Live(q) /\ runs[q].daemon = runs[r].daemon
<1>1. slot' = Nobody
  BY DEF StopSlot
<1>2. CASE slot = Nobody
  <2>1. UNCHANGED <<permits, waiters, runs>>
    BY <1>2 DEF StopSlot
  <2>2. WaitersOK'
    BY <2>1, WaitersStay DEF DaemonsInv
  <2>3. DaemonsInv'
    BY <1>1, <2>1, <2>2, DaemonsAre, DaemonsStay
  <2>4. \A r \in Runs : Live(r) => runs[r].daemon # Nobody
    BY NobodyAssumption DEF DaemonsInv, DaemonsOK, Live
  <2> QED BY <1>1, <1>2, <2>1, <2>3, <2>4 DEF Live
<1>3. CASE slot # Nobody
  <2>1. NotifyOne(slot) /\ slot \in Daemons /\ InUse(slot)
    BY <1>3 DEF StopSlot, DaemonsInv, DaemonsOK
  <2>2. CASE permits' = permits \cup {slot} /\ UNCHANGED <<runs, waiters>>
    <3>1. WaitersOK'
      BY <2>2, WaitersStay DEF DaemonsInv
    <3>2. DaemonsInv'
      BY <1>1, <1>3, <2>1, <2>2, <3>1, DaemonsAre, DaemonsStay
    <3> QED BY <1>1, <2>2, <3>2 DEF Live
  <2>3. ASSUME NEW i \in DOMAIN waiters, waiters[i] \in Runs, runs[waiters[i]].daemon = slot, Live(waiters[i]),
               runs' = [runs EXCEPT ![waiters[i]].woken = TRUE], waiters' = Without(i), UNCHANGED permits
        PROVE  /\ DaemonsInv'
               /\ \A r \in Runs : Live(r)' => Live(r) /\ runs'[r].daemon = runs[r].daemon
               /\ \A r \in Runs : Live(r)' => runs'[r].daemon # slot \/ waiters[i] # r
    <3> DEFINE w == waiters[i]
    <3>1. /\ runs'[w].woken /\ runs'[w].at = runs[w].at /\ runs'[w].daemon = slot
          /\ \A r \in Runs \ {w} : runs'[r] = runs[r]
      BY <2>3 DEF DaemonsInv, RunsOK, RunOK
    <3>2. w \in Runs /\ waiters[i] = w /\ Live(w) /\ runs[w].daemon = slot
      BY <2>3
    <3> HIDE DEF w
    <3>3. WaitersOK'
      BY <2>3, <3>1, <3>2, WaiterLeaves DEF DaemonsInv
    <3>4. ASSUME NEW r \in Runs
          PROVE  /\ runs[r].at = "done" => runs'[r].at = "done"
                 /\ runs'[r].daemon = runs[r].daemon
                 /\ IF runs[r].at = "none" THEN runs'[r] = runs[r] ELSE runs'[r].at # "none"
                 /\ runs'[r].woken =>
                      /\ runs[r].woken \/ runs[r].daemon # slot'
                      /\ runs'[r].at \in {"serving", "unmount", "done"}
      <4>1. CASE r = w
        BY <1>1, <1>3, <2>3, <3>1, <3>2, <4>1 DEF Live, DaemonsInv, WaitersOK
      <4>2. CASE r # w
        BY <3>1, <4>2 DEF DaemonsInv, DaemonsOK
      <4> QED BY <4>1, <4>2
    <3>6. umounts' <= umounts
      BY DEF RunsOK, DaemonsInv
    <3>5. DaemonsInv'
      BY <1>1, <2>3, <3>3, <3>4, <3>6, DaemonsStay
    <3> QED BY <3>1, <3>2, <3>5 DEF Live
  <2>4. \/ permits' = permits \cup {slot} /\ UNCHANGED <<runs, waiters>>
        \/ \E i \in DOMAIN waiters :
                /\ waiters[i] \in Runs /\ runs[waiters[i]].daemon = slot /\ Live(waiters[i])
                /\ runs' = [runs EXCEPT ![waiters[i]].woken = TRUE]
                /\ waiters' = Without(i) /\ UNCHANGED permits
    BY <2>1, NotifyIs
  <2> QED BY <1>1, <2>2, <2>3, <2>4
<1> QED BY <1>2, <1>3

\* A run goes on, and its notification may be used up or left to others.
LEMMA MoveDaemons ==
    ASSUME DaemonsInv, RunsOK', WaitersOK', UNCHANGED slot, umounts' <= umounts \/ umounts' <= Cardinality(Ended'),
           NEW r \in Runs, runs[r].at \notin {"none", "done"},
           NEW here \in {"mounted", "serving", "unmount", "done"}, runs' = [runs EXCEPT ![r].at = here],
           runs[r].woken => here \in {"serving", "unmount", "done"},
           \A d \in permits' : d \in permits \/ (d = runs[r].daemon /\ runs[r].woken)
    PROVE  DaemonsInv'
<1>1. /\ runs'[r].at = here /\ runs'[r].daemon = runs[r].daemon /\ runs'[r].woken = runs[r].woken
      /\ \A q \in Runs \ {r} : runs'[q] = runs[q]
  BY DEF DaemonsInv, RunsOK, RunOK
<1>2. ASSUME NEW q \in Runs
      PROVE  /\ runs[q].at = "done" => runs'[q].at = "done"
             /\ runs'[q].daemon = runs[q].daemon
             /\ IF runs[q].at = "none" THEN runs'[q] = runs[q] ELSE runs'[q].at # "none"
             /\ runs'[q].woken =>
                  /\ runs[q].woken \/ runs[q].daemon # slot'
                  /\ runs'[q].at \in {"serving", "unmount", "done"}
  <2>1. CASE q = r
    BY <1>1, <2>1
  <2>2. CASE q # r
    BY <1>1, <2>2 DEF DaemonsInv, DaemonsOK
  <2> QED BY <2>1, <2>2
<1>3. \A d \in permits' : d \in permits \/ (d \in Daemons /\ InUse(d) /\ d # slot')
  <2>1. runs[r].daemon \in Daemons /\ InUse(runs[r].daemon) /\ (runs[r].woken => runs[r].daemon # slot)
    BY DaemonsAre
  <2> QED BY <2>1
<1> QED BY <1>2, <1>3, DaemonsStay

Goes(r) ==
    /\ DaemonsInv' /\ slot' = slot
    /\ \A q \in Runs : Live(q)' => Live(q) /\ runs'[q].daemon = runs[q].daemon
    /\ \/ permits \subseteq permits'
       \/ Live(r) /\ ~Live(r)' /\ permits' = permits \ {runs[r].daemon}

LEMMA MountsGoes == ASSUME DaemonsInv, RunsOK', NEW r \in Runs, RunMounts(r) PROVE Goes(r)
<1>1. /\ runs[r].at = "mount" /\ UNCHANGED <<slot, umounts, permits, waiters>>
      /\ \E here \in {"mounted", "done"} : runs' = [runs EXCEPT ![r].at = here]
  BY DEF RunMounts, RunAt, Stay
<1>2. PICK here \in {"mounted", "done"} : runs' = [runs EXCEPT ![r].at = here]
  BY <1>1
<1>3. /\ runs'[r].at = here /\ runs'[r].daemon = runs[r].daemon /\ runs'[r].woken = runs[r].woken
      /\ \A q \in Runs \ {r} : runs'[q] = runs[q]
  BY <1>2 DEF DaemonsInv, RunsOK, RunOK
<1>4. WaitersOK'
  BY <1>1, <1>3, WaitersStay DEF DaemonsInv
<1>5. umounts' <= umounts /\ ~runs[r].woken
  BY <1>1 DEF DaemonsInv, RunsOK, DaemonsOK
<1>6. DaemonsInv'
  BY <1>1, <1>2, <1>4, <1>5, MoveDaemons
<1> QED BY <1>1, <1>3, <1>6 DEF Goes, Live

LEMMA ServesGoes == ASSUME DaemonsInv, RunsOK', NEW r \in Runs, RunServes(r) PROVE Goes(r)
<1>1. runs[r].at = "mounted" /\ UNCHANGED <<slot, umounts>>
  BY DEF RunServes, RunAt, Stay, table
<1>2. umounts' <= umounts /\ ~runs[r].woken
  BY <1>1 DEF DaemonsInv, RunsOK, DaemonsOK
<1>3. CASE /\ permits' = permits \ {runs[r].daemon} /\ UNCHANGED waiters
           /\ runs' = [runs EXCEPT ![r].at = "unmount"]
  <2>1. /\ runs'[r].at = "unmount" /\ runs'[r].daemon = runs[r].daemon /\ runs'[r].woken = runs[r].woken
        /\ \A q \in Runs \ {r} : runs'[q] = runs[q]
    BY <1>3 DEF DaemonsInv, RunsOK, RunOK
  <2>2. WaitersOK'
    BY <1>1, <1>3, <2>1, WaitersStay DEF DaemonsInv
  <2>3. DaemonsInv'
    BY <1>1, <1>2, <1>3, <2>2, MoveDaemons
  <2> QED BY <1>1, <1>2, <1>3, <2>1, <2>3 DEF Goes, Live
<1>4. CASE waiters' = Append(waiters, r) /\ UNCHANGED permits /\ runs' = [runs EXCEPT ![r].at = "serving"]
  <2>1. /\ runs'[r].at = "serving" /\ runs'[r].daemon = runs[r].daemon /\ runs'[r].woken = runs[r].woken
        /\ \A q \in Runs \ {r} : runs'[q] = runs[q]
    BY <1>4 DEF DaemonsInv, RunsOK, RunOK
  <2>2. WaitersOK'
    <3>1. /\ waiters' \in Seq(Runs) /\ Len(waiters') = Len(waiters) + 1
          /\ \A i \in 1 .. Len(waiters) : waiters'[i] = waiters[i]
          /\ waiters'[Len(waiters) + 1] = r
      BY <1>4, AppendProperties DEF DaemonsInv, WaitersOK
    <3>2. Len(waiters) \in Nat /\ DOMAIN waiters = 1 .. Len(waiters) /\ DOMAIN waiters' = 1 .. Len(waiters) + 1
          /\ \A i \in 1 .. Len(waiters) : waiters[i] \in Runs
      BY <3>1, LenProperties DEF DaemonsInv, WaitersOK
    <3>3. \A i \in 1 .. Len(waiters) : waiters[i] \in Runs \ {r}
      BY <1>1, <3>2 DEF DaemonsInv, WaitersOK
    <3>4. \A i \in 1 .. Len(waiters) + 1 : i \in 1 .. Len(waiters) \/ i = Len(waiters) + 1
      BY <3>2
    <3>5. \A i, k \in DOMAIN waiters' : waiters'[i] = waiters'[k] => i = k
      BY <3>1, <3>2, <3>3, <3>4 DEF DaemonsInv, WaitersOK
    <3>6. \A i \in DOMAIN waiters' : runs'[waiters'[i]].at = "serving" /\ ~runs'[waiters'[i]].woken
      BY <1>2, <2>1, <3>1, <3>2, <3>3, <3>4 DEF DaemonsInv, WaitersOK
    <3> QED BY <3>1, <3>5, <3>6 DEF WaitersOK
  <2>3. DaemonsInv'
    BY <1>1, <1>2, <1>4, <2>2, MoveDaemons
  <2> QED BY <1>1, <1>2, <1>4, <2>1, <2>3 DEF Goes, Live
<1> QED BY <1>3, <1>4 DEF RunServes

LEMMA ToldGoes == ASSUME DaemonsInv, RunsOK', NEW r \in Runs, RunToldToStop(r) PROVE Goes(r)
<1>1. /\ runs[r].at = "serving" /\ runs[r].woken /\ UNCHANGED <<slot, umounts, permits, waiters>>
      /\ runs' = [runs EXCEPT ![r].at = "unmount"]
  BY DEF RunToldToStop, RunAt, Stay, table
<1>2. /\ runs'[r].at = "unmount" /\ runs'[r].daemon = runs[r].daemon /\ runs'[r].woken = runs[r].woken
      /\ \A q \in Runs \ {r} : runs'[q] = runs[q]
  BY <1>1 DEF DaemonsInv, RunsOK, RunOK
<1>3. WaitersOK'
  BY <1>1, <1>2, WaitersStay DEF DaemonsInv
<1>4. umounts' <= umounts
  BY <1>1 DEF DaemonsInv, RunsOK
<1>5. DaemonsInv'
  BY <1>1, <1>3, <1>4, MoveDaemons
<1> QED BY <1>1, <1>2, <1>5 DEF Goes, Live

LEMMA EndsGoes == ASSUME DaemonsInv, RunsOK', NEW r \in Runs, RunEnds(r) \/ RunFails(r) PROVE Goes(r)
<1> DEFINE ended == [runs EXCEPT ![r].at = "done"]
<1>1. runs[r].at = "serving" /\ UNCHANGED <<slot, umounts>>
  BY DEF RunEnds, RunFails, RunAt, Stay, table
<1>2. umounts' <= umounts
  BY <1>1, DaemonsAre
<1>3. /\ ended[r].at = "done" /\ ended[r].daemon = runs[r].daemon /\ ended[r].woken = runs[r].woken
      /\ \A q \in Runs \ {r} : ended[q] = runs[q]
      /\ ended = [q \in Runs |-> ended[q]] /\ \A q \in Runs : RunOK(ended[q])
  BY DEF DaemonsInv, RunsOK, RunOK
<1>4. ASSUME ~runs[r].woken, runs' = ended, UNCHANGED permits,
             NEW i \in DOMAIN waiters, waiters[i] = r, waiters' = Without(i)
      PROVE  Goes(r)
  <2>1. WaitersOK'
    BY <1>3, <1>4, WaiterLeaves DEF DaemonsInv
  <2>2. DaemonsInv'
    BY <1>1, <1>2, <1>4, <2>1, MoveDaemons
  <2> HIDE DEF ended
  <2> QED BY <1>1, <1>3, <1>4, <2>2 DEF Goes, Live
<1>5. CASE runs[r].woken /\ runs' = ended /\ permits' = permits \cup {runs[r].daemon} /\ UNCHANGED waiters
  <2>1. WaitersOK'
    BY <1>3, <1>5, WaitersStay DEF DaemonsInv
  <2>2. DaemonsInv'
    BY <1>1, <1>2, <1>5, <2>1, MoveDaemons
  <2> HIDE DEF ended
  <2> QED BY <1>1, <1>3, <1>5, <2>2 DEF Goes, Live
<1>6. ASSUME runs[r].woken, NEW i \in Waiting(runs[r].daemon), waiters[i] # r,
             runs' = [ended EXCEPT ![waiters[i]].woken = TRUE], waiters' = Without(i), UNCHANGED permits
      PROVE  Goes(r)
  <2> DEFINE w == waiters[i]
  <2>1. i \in DOMAIN waiters /\ runs[w].daemon = runs[r].daemon
    BY DEF Waiting
  <2>2. w \in Runs /\ runs[w].at = "serving" /\ ~runs[w].woken
    BY <2>1, LenProperties DEF DaemonsInv, WaitersOK
  <2>3. w = waiters[i] /\ w # r /\ runs' = [ended EXCEPT ![w].woken = TRUE]
    BY <1>6
  <2> HIDE DEF w, ended
  <2>4. /\ runs'[w].at = "serving" /\ runs'[w].daemon = runs[w].daemon /\ runs'[w].woken
        /\ runs'[r].at = "done" /\ runs'[r].daemon = runs[r].daemon /\ runs'[r].woken
        /\ \A q \in Runs \ {r, w} : runs'[q] = runs[q]
    <3>1. w \in Runs /\ RunOK(ended[w]) /\ ended = [q \in Runs |-> ended[q]]
      BY <1>3, <2>2
    <3>2. /\ runs'[w].at = ended[w].at /\ runs'[w].daemon = ended[w].daemon /\ runs'[w].woken = TRUE
          /\ \A q \in Runs \ {w} : runs'[q] = ended[q]
      BY <2>3, <3>1 DEF RunOK
    <3> QED BY <1>3, <1>6, <2>2, <2>3, <3>2
  <2>5. WaitersOK'
    <3>1. \A q \in Runs \ {w} : runs[q].at = "serving" /\ ~runs[q].woken
                => runs'[q].at = "serving" /\ ~runs'[q].woken
      BY <1>6, <2>4
    <3> QED BY <1>6, <2>1, <2>3, <3>1, WaiterLeaves DEF DaemonsInv
  <2>6. ASSUME NEW q \in Runs
        PROVE  /\ runs[q].at = "done" => runs'[q].at = "done"
               /\ runs'[q].daemon = runs[q].daemon
               /\ IF runs[q].at = "none" THEN runs'[q] = runs[q] ELSE runs'[q].at # "none"
               /\ runs'[q].woken =>
                    /\ runs[q].woken \/ runs[q].daemon # slot'
                    /\ runs'[q].at \in {"serving", "unmount", "done"}
    <3>1. CASE q \in {r, w}
      BY <1>1, <1>6, <2>1, <2>2, <2>4, <3>1, DaemonsAre
    <3>2. CASE q \notin {r, w}
      BY <2>4, <3>2, DaemonsAre
    <3> QED BY <3>1, <3>2
  <2>7. DaemonsInv'
    BY <1>1, <1>2, <1>6, <2>5, <2>6, DaemonsStay
  <2> QED BY <1>1, <1>6, <2>2, <2>4, <2>7 DEF Goes, Live
<1> QED BY <1>4, <1>5, <1>6 DEF RunEnds, RunFails, RunReturns

LEMMA UnmountsGoes == ASSUME DaemonsInv, RunsOK', NEW r \in Runs, RunUnmounts(r) PROVE Goes(r)
<1>1. /\ runs[r].at = "unmount" /\ UNCHANGED <<slot, permits, waiters>> /\ umounts' \in {umounts, umounts + 1}
      /\ runs' = [runs EXCEPT ![r].at = "done"]
  BY DEF RunUnmounts, RunAt, Stay, table
<1>2. /\ runs'[r].at = "done" /\ runs'[r].daemon = runs[r].daemon /\ runs'[r].woken = runs[r].woken
      /\ \A q \in Runs \ {r} : runs'[q] = runs[q]
  BY <1>1 DEF DaemonsInv, RunsOK, RunOK
<1>3. WaitersOK'
  BY <1>1, <1>2, WaitersStay DEF DaemonsInv
<1>4. umounts' <= Cardinality(Ended')
  <2>1. Ended' = Ended \cup {r} /\ r \notin Ended
    BY <1>1, <1>2 DEF Ended
  <2>2. IsFiniteSet(Ended) /\ Cardinality(Ended) \in Nat
    <3>1. IsFiniteSet(Runs)
      BY BoundsAssumption, FS_Interval DEF Runs
    <3>2. Ended \subseteq Runs
      BY DEF Ended
    <3> QED BY <3>1, <3>2, FS_Subset, FS_CardinalityType
  <2>3. Cardinality(Ended') = Cardinality(Ended) + 1
    BY <2>1, <2>2, FS_AddElement
  <2>4. umounts <= Cardinality(Ended) /\ umounts \in Nat
    BY DEF DaemonsInv, DaemonsOK, RunsOK
  <2> QED BY <1>1, <2>2, <2>3, <2>4
<1>5. DaemonsInv'
  BY <1>1, <1>3, <1>4, MoveDaemons
<1> QED BY <1>1, <1>2, <1>5 DEF Goes, Live

LEMMA RunGoes == ASSUME DaemonsInv, RunsOK', NEW r \in Runs, Run(r) \/ RunFails(r) PROVE Goes(r)
BY MountsGoes, ServesGoes, EndsGoes, ToldGoes, UnmountsGoes DEF Run

\* A run that starts has the daemon of the slot, or one of its own.
LEMMA SpawnDaemons ==
    ASSUME DaemonsInv, RunsOK', SpawnRun
    PROVE  /\ DaemonsInv' /\ UNCHANGED permits
           /\ \E r \in Runs :
                /\ runs[r].at = "none" /\ Live(r)' /\ runs'[r].daemon = slot'
                /\ \A q \in Runs \ {r} : runs'[q] = runs[q]
           /\ slot # Nobody => slot' = slot
           /\ slot = Nobody => \A q \in Runs : Live(q) => runs[q].daemon # slot'
<1>1. PICK r \in Runs :
        /\ runs[r] = NoRun /\ \A q \in 1 .. r - 1 : runs[q] # NoRun
        /\ slot' = IF slot = Nobody THEN r ELSE slot
        /\ runs' = [runs EXCEPT ![r] = [at |-> "mount", daemon |-> slot', woken |-> FALSE]]
  BY DEF SpawnRun
<1>2. UNCHANGED <<permits, waiters, umounts>>
  BY DEF SpawnRun, table
<1>3. /\ runs[r].at = "none" /\ ~runs[r].woken
      /\ runs'[r].at = "mount" /\ ~runs'[r].woken /\ runs'[r].daemon = slot'
      /\ \A q \in Runs \ {r} : runs'[q] = runs[q]
  BY <1>1 DEF NoRun, DaemonsInv, RunsOK, RunOK
<1>4. WaitersOK'
  BY <1>2, <1>3, WaitersStay DEF DaemonsInv
<1>5. \A d : InUse(d) => InUse(d)' /\ d # r
  BY <1>3, BoundsAssumption DEF InUse, Runs
<1>6. ASSUME NEW q \in Runs PROVE IF q < r THEN runs[q].at # "none" ELSE runs[q].at = "none"
  <2>1. CASE q < r
    <3>1. q \in 1 .. r - 1
      BY <2>1 DEF Runs
    <3> QED BY <1>1, <2>1, <3>1 DEF DaemonsInv, DaemonsOK
  <2>2. CASE ~(q < r)
    <3>1. q = r \/ r < q
      BY <2>2 DEF Runs
    <3> QED BY <1>3, <2>2, <3>1 DEF DaemonsInv, DaemonsOK
  <2> QED BY <2>1, <2>2
<1>7. slot' \in 0 .. r /\ slot' # Nobody /\ slot' \in Daemons /\ InUse(slot)'
  <2>1. CASE slot = Nobody
    BY <1>1, <1>3, <2>1, NobodyAssumption DEF InUse, Runs, Daemons
  <2>2. CASE slot # Nobody
    <3>1. slot \in Daemons /\ InUse(slot) /\ slot' = slot
      BY <1>1, <2>2 DEF DaemonsInv, DaemonsOK
    <3>2. slot = 0 \/ (slot \in Runs /\ slot < r)
      BY <1>6, <3>1 DEF InUse
    <3> QED BY <1>5, <2>2, <3>1, <3>2 DEF Runs
  <2> QED BY <2>1, <2>2
<1>8. slot' \notin permits' /\ \A q \in Runs : runs[q].at # "none" /\ (runs[q].woken \/ slot = Nobody) => runs[q].daemon # slot'
  <2>1. CASE slot = Nobody
    <3>1. slot' = r
      BY <1>1, <2>1
    <3>2. \A q \in Runs : runs[q].at # "none" => InUse(runs[q].daemon)
      BY DaemonsAre
    <3>3. \A d \in permits : InUse(d)
      BY DEF DaemonsInv, DaemonsOK
    <3> QED BY <1>2, <1>5, <3>1, <3>2, <3>3
  <2>2. CASE slot # Nobody
    BY <1>1, <1>2, <2>2, DaemonsAre DEF DaemonsInv, DaemonsOK
  <2> QED BY <2>1, <2>2
<1>9. DaemonsInv'
  <2>1. (\A q \in Runs : IF runs[q].at = "none" THEN runs[q] = NoRun
                         ELSE runs[q].daemon \in 0 .. q /\ InUse(runs[q].daemon))'
    BY <1>3, <1>5, <1>7 DEF DaemonsInv, DaemonsOK
  <2>2. \A p, q \in Runs : p < q /\ runs'[p].at = "none" => runs'[q].at = "none"
    <3>1. \A q \in Runs : runs'[q].at = "none" <=> ~(q < r) /\ q # r
      BY <1>3, <1>6
    <3> QED BY <3>1 DEF Runs
  <2>3. (\A d \in permits : d \in Daemons /\ InUse(d))'
    BY <1>2, <1>5 DEF DaemonsInv, DaemonsOK
  <2>4. \A q \in Runs : runs'[q].woken => runs'[q].daemon # slot' /\ runs'[q].at \in {"serving", "unmount", "done"}
    BY <1>3, <1>8, DaemonsAre
  <2>5. umounts' <= Cardinality(Ended')
    <3>1. \A q \in Runs : runs[q].at = "done" => runs'[q].at = "done"
      BY <1>3
    <3> QED BY <1>2, <3>1, EndedGrows DEF DaemonsInv, DaemonsOK, RunsOK
  <2> QED BY <1>4, <1>7, <1>8, <2>1, <2>2, <2>3, <2>4, <2>5 DEF DaemonsInv, DaemonsOK
<1>10. Live(r)' /\ (slot = Nobody => \A q \in Runs : Live(q) => runs[q].daemon # slot')
  BY <1>3, <1>8 DEF Live
<1> QED BY <1>1, <1>2, <1>3, <1>9, <1>10
\* The steps that leave the runs alone.
LEMMA StillDaemons ==
    ASSUME DaemonsInv, RunsOK', UNCHANGED <<slot, permits, waiters, runs>>, umounts' <= umounts
    PROVE  DaemonsInv'
<1>1. WaitersOK'
  BY WaitersStay DEF DaemonsInv
<1> QED BY <1>1, DaemonsAre, DaemonsStay

LEMMA DaemonsStep == DaemonsInv /\ RunsOK' /\ [ClientNext]_all => DaemonsInv'
<1> SUFFICES ASSUME DaemonsInv, RunsOK', [ClientNext]_all PROVE DaemonsInv'
  OBVIOUS
<1> USE DEF table, service, past
<1>0. umounts <= umounts /\ umounts - 1 <= umounts
  BY DEF DaemonsInv, RunsOK
<1>1. CASE Process \/ UNCHANGED all
  BY <1>0, <1>1, StillDaemons DEF Process, all, window
<1>2. CASE Buttons
  BY <1>0, <1>2, StillDaemons DEF Buttons, Retry, Login, Logout, Ask, ClickMount, ClickUnmount, CloseError,
        CloseWindow, Edit, ChangeString, ChangeBool, ChangeInt, Changing, Changed, Restore, Click
<1>3. CASE EventLoop
  <2>1. CASE QueueMounted \/ Handle \/ TimerFires \/ Leave
    BY <1>0, <2>1, StillDaemons DEF QueueMounted, Handle, TimerFires, Leave
  <2>2. CASE UnmountSlot \/ DropGui
    BY <2>2, StopSlotDaemons DEF UnmountSlot, DropGui
  <2> QED BY <1>3, <2>1, <2>2, SpawnDaemons DEF EventLoop
<1>4. ASSUME NEW j \in Jobs, Job(j) PROVE DaemonsInv'
  <2>1. CASE StopAndSleep(j)
    BY <2>1, StopSlotDaemons DEF StopAndSleep
  <2>2. CASE ~StopAndSleep(j)
    BY <1>0, <1>4, <2>2, StillDaemons DEF Job, Health, CallFails, LoggedIn, LoggedOut, WakeUp
  <2> QED BY <2>1, <2>2
<1>5. ASSUME NEW r \in Runs, Run(r) \/ RunFails(r) PROVE DaemonsInv'
  BY <1>5, RunGoes DEF Goes
<1>6. CASE UmountRuns \/ UmountFromOutside
  BY <1>0, <1>6, StillDaemons DEF UmountRuns, UmountFromOutside
<1> QED BY <1>1, <1>2, <1>3, <1>4, <1>5, <1>6 DEF ClientNext

LEMMA DaemonsStart == ClientInit => DaemonsInv
<1> SUFFICES ASSUME ClientInit PROVE DaemonsInv
  OBVIOUS
<1>1. /\ runs = [r \in Runs |-> NoRun] /\ slot = 0 /\ umounts = 0 /\ permits = {} /\ waiters = <<>>
  BY DEF ClientInit
<1>2. RunsOK
  BY MountsStart DEF MountsInv
<1>3. WaitersOK
  BY <1>1 DEF WaitersOK
<1>4. Ended = {}
  BY <1>1 DEF Ended, NoRun
<1>5. umounts <= Cardinality(Ended)
  BY <1>1, <1>4, FS_EmptySet
<1>6. 0 \in Daemons
  BY BoundsAssumption DEF Daemons
<1> QED BY <1>1, <1>2, <1>3, <1>5, <1>6 DEF DaemonsInv, DaemonsOK, InUse, NoRun

----------------------------------------------------------------------------
(* Jobs and the lock *)

JobIs(x) == x = NoJob \/ x \in [at : {"health", "call", "stop", "sleep", "done"}, kind : {"retry", "login", "logout"}]

\* The lock is held by the logout that sleeps, with the slot empty.
JobsOK ==
    /\ jobs = [j \in Jobs |-> jobs[j]]
    /\ \A j \in Jobs : /\ JobIs(jobs[j])
                       /\ jobs[j].at \in {"stop", "sleep"} => jobs[j].kind = "logout"
                       /\ jobs[j].at = "sleep" <=> lock = j
    /\ lock # Nobody => lock \in Jobs /\ slot = Nobody

\* One job goes on.
LEMMA JobMoves ==
    ASSUME JobsOK, NEW j \in Jobs, jobs[j] # NoJob,
           NEW here \in {"call", "stop", "sleep", "done"}, JobGoto(j, here),
           here \in {"stop", "sleep"} => jobs[j].kind = "logout",
           IF here = "sleep" THEN lock = Nobody /\ lock' = j
           ELSE lock' = IF lock = j THEN Nobody ELSE lock,
           lock' # Nobody => slot' = Nobody
    PROVE  JobsOK'
<1>1. Nobody \notin Jobs
  BY NobodyAssumption DEF Jobs
<1>2. /\ jobs' = [i \in Jobs |-> jobs'[i]] /\ jobs'[j].at = here /\ jobs'[j].kind = jobs[j].kind
      /\ JobIs(jobs'[j]) /\ \A i \in Jobs \ {j} : jobs'[i] = jobs[i]
  BY DEF JobGoto, JobsOK, JobIs
<1>3. \A i \in Jobs \ {j} : lock' = i <=> lock = i
  BY <1>1
<1>4. here = "sleep" <=> lock' = j
  BY <1>1
<1>5. lock' # Nobody => lock' \in Jobs /\ slot' = Nobody
  BY DEF JobsOK
<1> QED BY <1>1, <1>2, <1>3, <1>4, <1>5 DEF JobsOK

LEMMA JobStep == ASSUME JobsOK, NEW j \in Jobs, Job(j) PROVE JobsOK'
<1> USE DEF JobAt, service
<1>0. NoJob.at = "none"
  BY DEF NoJob
<1>1. CASE Health(j) \/ CallFails(j) \/ LoggedIn(j)
  <2>1. /\ UNCHANGED <<lock, slot>> /\ jobs[j].at \in {"health", "call"} /\ jobs[j] # NoJob
        /\ \E here \in {"call", "done"} : JobGoto(j, here)
    BY <1>0, <1>1 DEF Health, CallFails, LoggedIn
  <2>2. lock # j /\ (lock # Nobody => slot = Nobody)
    BY <2>1 DEF JobsOK
  <2>3. PICK here \in {"call", "done"} : JobGoto(j, here)
    BY <2>1
  <2> QED BY <2>1, <2>2, <2>3, JobMoves
<1>2. CASE LoggedOut(j)
  <2>1. /\ UNCHANGED <<lock, slot>> /\ jobs[j].at = "call" /\ jobs[j] # NoJob /\ jobs[j].kind = "logout"
        /\ JobGoto(j, "stop")
    BY <1>0, <1>2 DEF LoggedOut
  <2>2. lock # j
    BY <2>1 DEF JobsOK
  <2> QED BY <2>1, <2>2, JobMoves DEF JobsOK
<1>3. CASE StopAndSleep(j)
  <2>1. /\ lock = Nobody /\ lock' = j /\ slot' = Nobody /\ jobs[j].at = "stop" /\ jobs[j] # NoJob
        /\ JobGoto(j, "sleep")
    BY <1>0, <1>3 DEF StopAndSleep, StopSlot
  <2>2. jobs[j].kind = "logout"
    BY <2>1 DEF JobsOK
  <2> QED BY <2>1, <2>2, JobMoves
<1>4. CASE WakeUp(j)
  <2>1. /\ lock' = Nobody /\ jobs[j].at = "sleep" /\ jobs[j] # NoJob /\ JobGoto(j, "done")
    BY <1>0, <1>4 DEF WakeUp
  <2>2. lock = j
    <3>1. jobs[j].at = "sleep" <=> lock = j
      BY DEF JobsOK
    <3> QED BY <2>1, <3>1
  <2> QED BY <2>1, <2>2, JobMoves
<1> QED BY <1>1, <1>2, <1>3, <1>4 DEF Job

LEMMA AskJobs ==
    ASSUME JobsOK, NEW button \in {"retry", "login", "logout"}, NEW status, Ask(button, status)
    PROVE  JobsOK'
<1>1. UNCHANGED <<lock, slot>>
  BY DEF Ask, Click, service
<1>2. PICK j : jobs[j] = NoJob /\ jobs' = [jobs EXCEPT ![j] = [at |-> "health", kind |-> button]]
  BY DEF Ask
<1>3. j \in Jobs => lock # j
  BY <1>2 DEF JobsOK, NoJob
<1>4. JobIs([at |-> "health", kind |-> button])
  BY DEF JobIs
<1> QED BY <1>1, <1>2, <1>3, <1>4 DEF JobsOK

LEMMA JobsStep == JobsOK /\ [ClientNext]_all => JobsOK'
<1> SUFFICES ASSUME JobsOK, [ClientNext]_all PROVE JobsOK'
  OBVIOUS
<1> USE DEF service, past
<1>0. UNCHANGED <<jobs, lock, slot>> => JobsOK'
  BY DEF JobsOK
<1>1. CASE Process \/ UNCHANGED all \/ UmountRuns \/ UmountFromOutside
  BY <1>0, <1>1 DEF Process, all, window, UmountRuns, UmountFromOutside
<1>2. CASE Buttons
  <2>1. CASE Retry \/ Login \/ Logout
    BY <2>1, AskJobs DEF Retry, Login, Logout
  <2>2. CASE ~(Retry \/ Login \/ Logout)
    BY <1>0, <1>2, <2>2 DEF Buttons, ClickMount, ClickUnmount, CloseError,
        CloseWindow, Edit, ChangeString, ChangeBool, ChangeInt, Changing, Changed, Restore, Click
  <2> QED BY <2>1, <2>2
<1>3. CASE EventLoop
  <2>1. CASE QueueMounted \/ Handle \/ TimerFires \/ Leave
    BY <1>0, <2>1 DEF QueueMounted, Handle, TimerFires, Leave
  <2>2. CASE SpawnRun \/ UnmountSlot \/ DropGui
    <3>1. UNCHANGED <<jobs, lock>> /\ lock = Nobody
      BY <2>2 DEF SpawnRun, UnmountSlot, DropGui, StopSlot
    <3> QED BY <3>1 DEF JobsOK
  <2> QED BY <1>3, <2>1, <2>2 DEF EventLoop
<1>4. ASSUME NEW r \in Runs, Run(r) \/ RunFails(r) PROVE JobsOK'
  <2>1. UNCHANGED <<jobs, lock, slot>>
    BY <1>4 DEF Run, RunMounts, RunServes, RunEnds, RunFails, RunToldToStop, RunUnmounts, Stay
  <2> QED BY <1>0, <2>1
<1> QED BY <1>1, <1>2, <1>3, <1>4, JobStep DEF ClientNext

LEMMA JobsStart == ClientInit => JobsOK
<1> SUFFICES ASSUME ClientInit PROVE JobsOK
  OBVIOUS
<1>1. jobs = [j \in Jobs |-> NoJob] /\ lock = Nobody
  BY DEF ClientInit
<1>2. Nobody \notin Jobs
  BY NobodyAssumption DEF Jobs
<1> QED BY <1>1, <1>2 DEF JobsOK, JobIs, NoJob
----------------------------------------------------------------------------
(* The window shows a run that serves *)

Running == \E r \in Runs : Live(r) /\ runs[r].daemon \notin permits

Closing == {"unmounted", "logged out"}

\* Once the queued closures have been handled, the window will show a mount.
Showing ==
    \/ ui.active /\ \A i \in DOMAIN events : events[i] \notin Closing
    \/ \E i \in DOMAIN events : /\ events[i] = "mounted"
                                /\ \A k \in DOMAIN events : k > i => events[k] \notin Closing

\* No two runs that live share a daemon, each can be reached by the slot or has
\* been, and one that goes on is shown.
ShownOK ==
    ~early /\ ~late =>
        /\ \A q, r \in Runs : Live(q) /\ Live(r) /\ runs[q].daemon = runs[r].daemon => q = r
        /\ \A r \in Runs : Live(r) => runs[r].daemon \in {slot} \cup permits
        /\ callback = "mount" => ~Running
        /\ Running => callback = "mounting" \/ Showing

ShownInv == DaemonsInv /\ JobsOK /\ WindowOK /\ ShownOK

\* A step that starts no run.
LEMMA ShownStays ==
    ASSUME ShownOK, early => early', late => late',
           \A r \in Runs : Live(r)' => Live(r) /\ runs'[r].daemon = runs[r].daemon,
           ~early /\ ~late => \A r \in Runs : Live(r)' /\ runs[r].daemon \in {slot} \cup permits
                                                => runs[r].daemon \in {slot'} \cup permits',
           ~early' /\ ~late' /\ Running' => /\ Running
                                            /\ callback' = "mount" => callback = "mount"
                                            /\ callback = "mounting" \/ Showing => callback' = "mounting" \/ Showing'
    PROVE  ShownOK'
<1> SUFFICES ASSUME ~early', ~late'
             PROVE  /\ \A q, r \in Runs : Live(q)' /\ Live(r)' /\ runs'[q].daemon = runs'[r].daemon => q = r
                    /\ \A r \in Runs : Live(r)' => runs'[r].daemon \in {slot'} \cup permits'
                    /\ callback' = "mount" => ~Running'
                    /\ Running' => callback' = "mounting" \/ Showing'
  BY DEF ShownOK
<1>1. ~early /\ ~late
  OBVIOUS
<1>2. \A q, r \in Runs : Live(q)' /\ Live(r)' /\ runs'[q].daemon = runs'[r].daemon => q = r
  BY <1>1 DEF ShownOK
<1>3. \A r \in Runs : Live(r)' => runs'[r].daemon \in {slot'} \cup permits'
  BY <1>1 DEF ShownOK
<1>4. Running' => callback' # "mount" /\ (callback' = "mounting" \/ Showing')
  BY <1>1 DEF ShownOK
<1> QED BY <1>2, <1>3, <1>4

\* What is shown does not change with a closure that is about something else.
LEMMA ShowingGrows ==
    ASSUME WindowOK, UNCHANGED ui.active, NEW event \in Closures \ Closing, events' = Append(events, event),
           Showing \/ event = "mounted"
    PROVE  Showing'
<1>1. /\ Len(events') = Len(events) + 1 /\ Len(events) \in Nat /\ events'[Len(events) + 1] = event
      /\ \A i \in 1 .. Len(events) : events'[i] = events[i]
      /\ events \in Seq(Closures) /\ events' \in Seq(Closures)
  BY AppendProperties, LenProperties DEF WindowOK
<1>2. DOMAIN events = 1 .. Len(events) /\ DOMAIN events' = 1 .. Len(events) + 1
  BY <1>1, LenProperties
<1>3. \A i \in DOMAIN events' : i \in DOMAIN events \/ i = Len(events) + 1
  BY <1>1, <1>2
<1>4. DOMAIN events \subseteq DOMAIN events' /\ Len(events) + 1 \in DOMAIN events'
  BY <1>1, <1>2
<1>5. \A i \in DOMAIN events' : i > Len(events) + 1 => FALSE
  BY <1>1, <1>2
<1>6. CASE event = "mounted"
  BY <1>1, <1>4, <1>5, <1>6 DEF Showing
<1>7. CASE ui.active /\ \A i \in DOMAIN events : events[i] \notin Closing
  BY <1>1, <1>2, <1>3, <1>7 DEF Showing
<1>8. ASSUME NEW i \in DOMAIN events, events[i] = "mounted",
             \A k \in DOMAIN events : k > i => events[k] \notin Closing
      PROVE  Showing'
  <2>1. \A k \in DOMAIN events' : k > i => events'[k] \notin Closing
    BY <1>1, <1>2, <1>3, <1>8
  <2>2. i \in DOMAIN events' /\ events'[i] = "mounted"
    BY <1>1, <1>2, <1>4, <1>8
  <2> QED BY <2>1, <2>2 DEF Showing
<1> QED BY <1>6, <1>7, <1>8 DEF Showing

\* A closure that was handled has left its mark.
LEMMA ShowingHandles ==
    ASSUME WindowOK, events # <<>>, events' = Tail(events), ui' = Shown(Head(events)),
           Head(events) # "crashed", Showing
    PROVE  Showing'
<1> DEFINE event == Head(events)
<1>1. /\ event \in Closures /\ events' \in Seq(Closures) /\ event = events[1] /\ events \in Seq(Closures)
      /\ Len(events') = Len(events) - 1 /\ \A i \in 1 .. Len(events') : events'[i] = events[i + 1]
  BY HeadTailProperties DEF WindowOK
<1>2. Len(events) \in Nat \ {0} /\ DOMAIN events = 1 .. Len(events) /\ DOMAIN events' = 1 .. Len(events) - 1
  BY <1>1, LenProperties, EmptySeq DEF WindowOK
<1>3. /\ \A i \in DOMAIN events' : i + 1 \in DOMAIN events /\ events'[i] = events[i + 1]
      /\ \A i \in DOMAIN events : i = 1 \/ (i - 1 \in DOMAIN events' /\ events'[i - 1] = events[i])
      /\ 1 \in DOMAIN events
  BY <1>1, <1>2
<1>4. ui.active \in BOOLEAN /\ ui'.active = IF event = "mounted" THEN TRUE
                   ELSE IF event \in {"unmounted", "logged out"} THEN FALSE ELSE ui.active
  <2> USE <1>1 DEF Shown, WindowOK
  <2>1. CASE event \in {"healthy", "unhealthy", "logged in", "failed"}
    BY <2>1
  <2>2. CASE event \in {"logged out", "mounted", "unmounted"}
    BY <2>2
  <2>3. CASE event \in {"changed", "refused", "restored"}
    BY <2>3
  <2> QED BY <2>1, <2>2, <2>3 DEF Closures
<1> HIDE DEF event
<1>5. CASE ui.active /\ \A i \in DOMAIN events : events[i] \notin Closing
  BY <1>1, <1>3, <1>4, <1>5 DEF Showing, Closing
<1>6. ASSUME NEW i \in DOMAIN events, events[i] = "mounted",
             \A k \in DOMAIN events : k > i => events[k] \notin Closing
      PROVE  Showing'
  <2>1. CASE i = 1
    <3>1. \A k \in DOMAIN events' : k + 1 > i
      BY <1>2, <2>1
    <3> QED BY <1>1, <1>3, <1>4, <1>6, <2>1, <3>1 DEF Showing
  <2>2. CASE i # 1
    <3>1. \A k \in DOMAIN events' : k > i - 1 => k + 1 > i
      BY <1>2, <2>2
    <3>2. i - 1 \in DOMAIN events' /\ events'[i - 1] = "mounted"
      BY <1>3, <1>6, <2>2
    <3>3. \A k \in DOMAIN events' : k > i - 1 => events'[k] \notin Closing
      BY <1>3, <1>6, <3>1
    <3> QED BY <3>2, <3>3 DEF Showing
  <2> QED BY <2>1, <2>2
<1> QED BY <1>5, <1>6 DEF Showing

Cast == <<runs, permits, slot>>

\* A step in which no run, daemon or callback takes part, and that queues at
\* most one closure about something else.
LEMMA ShownAside ==
    ASSUME ShownInv, UNCHANGED Cast, early => early', late => late',
           callback' \in {callback, "drop", "none"},
           callback = "mounting" => callback' = "mounting",
           ~early' /\ ~late' /\ Running /\ Showing => Showing'
    PROVE  ShownOK'
<1>1. \A r \in Runs : Live(r)' = Live(r)
  BY DEF Cast, Live
<1>2. Running' => Running
  BY <1>1 DEF Cast, Running
<1>3. \A r \in Runs : Live(r)' => Live(r) /\ runs'[r].daemon = runs[r].daemon
  BY <1>1 DEF Cast
<1>4. {slot'} \cup permits' = {slot} \cup permits
  BY DEF Cast
<1>5. callback' = "mount" => callback = "mount"
  OBVIOUS
<1> QED BY <1>2, <1>3, <1>4, <1>5, ShownStays DEF ShownInv

\* The window stays as it is, but for one more closure.
LEMMA ShownQueues ==
    ASSUME ShownInv, UNCHANGED Cast, UNCHANGED <<ui, callback, early, late>>,
           NEW event \in Closures \ Closing, events' = Append(events, event)
    PROVE  ShownOK'
<1>1. Showing => Showing'
  BY ShowingGrows DEF ShownInv
<1> QED BY <1>1, ShownAside

\* A step that has nothing to do with the window.
LEMMA ShownStill ==
    ASSUME ShownInv, UNCHANGED Cast, UNCHANGED <<events, early, late>>, ui'.active = ui.active,
           callback' \in {callback, "drop", "none"},
           callback = "mounting" => callback' = "mounting"
    PROVE  ShownOK'
<1>1. Showing => Showing'
  BY DEF Showing
<1> QED BY <1>1, ShownAside

\* The daemon of the slot is told to stop: no run goes on.
LEMMA StopShown ==
    ASSUME ShownInv, RunsOK', StopSlot, UNCHANGED <<umounts, early, late>>
    PROVE  ShownOK'
<1>1. DaemonsInv
  BY DEF ShownInv
<1>2. /\ slot' = Nobody
      /\ \A r \in Runs : Live(r)' => Live(r) /\ runs'[r].daemon = runs[r].daemon
      /\ permits \subseteq permits'
      /\ \A r \in Runs : Live(r)' => \/ runs'[r].daemon # slot
                                   \/ slot \in permits'
                                   \/ \E q \in Runs \ {r} : Live(q) /\ runs[q].daemon = runs[r].daemon
  BY <1>1, StopSlotDaemons
<1>3. ~early /\ ~late => \A r \in Runs : Live(r)' /\ runs[r].daemon \in {slot} \cup permits
                                            => runs[r].daemon \in permits'
  <2> SUFFICES ASSUME ~early, ~late, NEW r \in Runs, Live(r)', runs[r].daemon \in {slot} \cup permits
               PROVE  runs[r].daemon \in permits'
    OBVIOUS
  <2>1. ~\E q \in Runs \ {r} : Live(q) /\ runs[q].daemon = runs[r].daemon
    BY <1>2 DEF ShownInv, ShownOK
  <2> QED BY <1>2, <2>1
<1>4. ~early' /\ ~late' => ~Running'
  BY <1>2, <1>3 DEF ShownInv, ShownOK, Running
<1> QED BY <1>2, <1>3, <1>4, ShownStays DEF ShownInv

\* A run that starts is about to be shown, and no other one goes on.
LEMMA SpawnShown == ASSUME ShownInv, RunsOK', SpawnRun PROVE ShownOK'
<1>1. UNCHANGED <<permits, early, late>> /\ callback = "mount" /\ callback' = "mounting" /\ DaemonsInv
  BY SpawnDaemons DEF SpawnRun, past, ShownInv
<1>2. PICK r \in Runs :
        /\ runs[r].at = "none" /\ Live(r)' /\ runs'[r].daemon = slot'
        /\ \A q \in Runs \ {r} : runs'[q] = runs[q]
  BY <1>1, SpawnDaemons
<1>3. /\ slot # Nobody => slot' = slot
      /\ slot = Nobody => \A q \in Runs : Live(q) => runs[q].daemon # slot'
  BY <1>1, SpawnDaemons
<1> SUFFICES ASSUME ~early, ~late
             PROVE  /\ \A p, q \in Runs : Live(p)' /\ Live(q)' /\ runs'[p].daemon = runs'[q].daemon => p = q
                    /\ \A q \in Runs : Live(q)' => runs'[q].daemon \in {slot'} \cup permits
  BY <1>1 DEF ShownOK
<1>4. /\ \A p, q \in Runs : Live(p) /\ Live(q) /\ runs[p].daemon = runs[q].daemon => p = q
      /\ \A q \in Runs : Live(q) => runs[q].daemon \in permits
  BY <1>1 DEF ShownInv, ShownOK, Running
<1>5. \A q \in Runs \ {r} : /\ Live(q)' => Live(q) /\ runs'[q].daemon = runs[q].daemon
                            /\ Live(q) => runs[q].daemon # slot'
  <2>1. slot \notin permits
    BY <1>1 DEF DaemonsInv, DaemonsOK
  <2> QED BY <1>2, <1>3, <1>4, <2>1 DEF Live
<1> QED BY <1>2, <1>4, <1>5

\* A run goes on, and what it does is not shown at once.
LEMMA RunShown == ASSUME ShownInv, RunsOK', NEW r \in Runs, Run(r) \/ RunFails(r) PROVE ShownOK'
<1>1. Goes(r)
  BY RunGoes DEF ShownInv
<1>2. /\ UNCHANGED <<ui, callback, early, late>>
      /\ UNCHANGED events \/ events' = Append(events, "crashed")
  BY DEF Run, RunMounts, RunServes, RunEnds, RunFails, RunToldToStop, RunUnmounts, Stay, Crashed
<1>3. Showing => Showing'
  <2>1. CASE UNCHANGED events
    BY <1>2, <2>1 DEF Showing
  <2>2. CASE events' = Append(events, "crashed")
    BY <1>2, <2>2, ShowingGrows DEF ShownInv, Closures, Closing
  <2> QED BY <1>2, <2>1, <2>2
<1>4. ASSUME ~early, ~late, NEW q \in Runs, Live(q)'
      PROVE  /\ runs[q].daemon \in permits => runs[q].daemon \in permits'
             /\ Live(q) /\ runs'[q].daemon = runs[q].daemon
  <2>1. Live(r) /\ runs[r].daemon = runs[q].daemon => q = r
    BY <1>1, <1>4 DEF Goes, ShownInv, ShownOK
  <2> QED BY <1>1, <1>4, <2>1 DEF Goes
<1>5. ~early' /\ ~late' /\ Running' => Running
  BY <1>2, <1>4 DEF Running
<1> QED BY <1>1, <1>2, <1>3, <1>4, <1>5, ShownStays DEF Goes, ShownInv

LEMMA HandleShown == ASSUME ShownInv, Handle PROVE ShownOK'
<1>1. /\ UNCHANGED Cast /\ UNCHANGED <<callback, early>> /\ (late => late')
      /\ events # <<>> /\ events' = Tail(events) /\ ui' = Shown(Head(events))
      /\ ~late' => ~(Head(events) = "crashed" /\ \E r \in Runs : Live(r))
  BY DEF Handle, service, Cast
<1>2. ~late' /\ Running => Head(events) # "crashed"
  BY <1>1 DEF Running
<1>3. ~late' /\ Running /\ Showing => Showing'
  BY <1>1, <1>2, ShowingHandles DEF ShownInv
<1>4. callback' \in {callback, "drop", "none"} /\ (callback = "mounting" => callback' = "mounting")
  BY <1>1
<1> QED BY <1>1, <1>3, <1>4, ShownAside

\* A click that mounts finds nothing that goes on.
LEMMA ClickShown ==
    ASSUME ShownInv, NEW button, Click(button), UNCHANGED callback,
           UNCHANGED events \/ \E event \in {"changed", "refused", "restored"} : events' = Append(events, event)
    PROVE  ShownOK'
<1>1. /\ UNCHANGED Cast /\ (early => early') /\ UNCHANGED late
      /\ \E still \in BOOLEAN : ui' = [ui EXCEPT !.loading = TRUE, !.editing = @ /\ still]
  BY DEF Click, Cast, service
<1>2. ui'.active = ui.active
  BY <1>1 DEF ShownInv, WindowOK
<1>3. Showing => Showing'
  <2>1. CASE UNCHANGED events
    BY <1>2, <2>1 DEF Showing
  <2>2. ASSUME NEW event \in {"changed", "refused", "restored"}, events' = Append(events, event)
        PROVE  Showing => Showing'
    BY <1>2, <2>2, ShowingGrows DEF ShownInv, Closures, Closing
  <2> QED BY <2>1, <2>2
<1> QED BY <1>1, <1>3, ShownAside

LEMMA MountShown == ASSUME ShownInv, ClickMount \/ ClickUnmount PROVE ShownOK'
<1>1. /\ UNCHANGED Cast /\ (early => early') /\ UNCHANGED <<events, late>>
      /\ \E still \in BOOLEAN : ui' = [ui EXCEPT !.loading = TRUE, !.editing = @ /\ still]
      /\ callback = "none" /\ callback' \in {"mount", "unmount"}
      /\ callback' = "mount" => ~ui.active
      /\ ~early' => events = <<>>
  BY DEF ClickMount, ClickUnmount, Click, Cast, service, Reachable, Pending
<1>2. ui'.active = ui.active
  BY <1>1 DEF ShownInv, WindowOK
<1>3. Showing => Showing'
  BY <1>1, <1>2 DEF Showing
<1>4. \A r \in Runs : Live(r)' = Live(r) /\ runs'[r].daemon = runs[r].daemon
  BY <1>1 DEF Live, Cast
<1>5. {slot'} \cup permits' = {slot} \cup permits /\ (Running' => Running)
  BY <1>1, <1>4 DEF Cast, Running
<1>6. ~early' /\ callback' = "mount" => ~Showing
  BY <1>1 DEF Showing
<1>7. ~early' /\ ~late' /\ Running => Showing
  BY <1>1 DEF ShownInv, ShownOK
<1> QED BY <1>1, <1>3, <1>4, <1>5, <1>6, <1>7, ShownStays DEF ShownInv

LEMMA JobShown == ASSUME ShownInv, RunsOK', NEW j \in Jobs, Job(j) PROVE ShownOK'
<1> USE DEF service, past, desk, Cast
<1>1. CASE Health(j) \/ CallFails(j) \/ LoggedIn(j)
  <2>1. /\ UNCHANGED Cast /\ UNCHANGED <<ui, callback, early, late>>
        /\ \E event \in {"healthy", "unhealthy", "failed", "logged in"} : events' = Append(events, event)
    BY <1>1 DEF Health, CallFails, LoggedIn, Queued
  <2>2. {"healthy", "unhealthy", "failed", "logged in"} \subseteq Closures \ Closing
    BY DEF Closures, Closing
  <2>3. PICK event \in Closures \ Closing : events' = Append(events, event)
    BY <2>1, <2>2
  <2> QED BY <2>1, <2>3, ShownQueues
<1>2. CASE LoggedOut(j)
  <2>1. UNCHANGED Cast /\ UNCHANGED <<ui, callback, events, early, late>>
    BY <1>2 DEF LoggedOut
  <2> QED BY <2>1, ShownStill
<1>3. CASE StopAndSleep(j)
  BY <1>3, StopShown DEF StopAndSleep, table
<1>4. CASE WakeUp(j)
  <2>1. UNCHANGED Cast /\ UNCHANGED <<ui, callback, early, late>> /\ jobs[j].at = "sleep"
    BY <1>4 DEF WakeUp, JobAt
  <2>2. slot = Nobody /\ Nobody \notin Daemons
    <3>1. lock = j /\ Nobody \notin Jobs
      BY <2>1, NobodyAssumption DEF ShownInv, JobsOK, Jobs
    <3> QED BY <3>1, NobodyAssumption DEF ShownInv, JobsOK, Daemons
  <2>3. \A r \in Runs : Live(r) => runs[r].daemon \in Daemons
    BY DaemonsAre DEF Live, ShownInv
  <2>4. ~early' /\ ~late' => ~Running
    BY <2>1, <2>2, <2>3 DEF ShownInv, ShownOK, Running
  <2> HIDE DEF Cast
  <2> QED BY <2>1, <2>4, ShownAside
<1> QED BY <1>1, <1>2, <1>3, <1>4 DEF Job

LEMMA ShownStep == ShownInv /\ RunsOK' /\ [ClientNext]_all => ShownOK'
<1> SUFFICES ASSUME ShownInv, RunsOK', [ClientNext]_all PROVE ShownOK'
  OBVIOUS
<1> USE DEF service, past, desk, Cast
<1>1. CASE Process \/ UNCHANGED all \/ UmountRuns \/ UmountFromOutside
  <2>1. UNCHANGED Cast /\ UNCHANGED <<ui, callback, events, early, late>>
    BY <1>1 DEF Process, all, window, UmountRuns, UmountFromOutside
  <2> QED BY <2>1, ShownStill
<1>2. CASE Buttons
  <2>1. CASE Retry \/ Login \/ Logout \/ ChangeString \/ ChangeBool \/ ChangeInt \/ Restore
    <3>1. /\ \E button : Click(button)
          /\ UNCHANGED callback
          /\ UNCHANGED events \/ \E event \in {"changed", "refused", "restored"} : events' = Append(events, event)
      BY <2>1 DEF Retry, Login, Logout, Ask, ChangeString, ChangeBool, ChangeInt, Changing, Changed, Restore
    <3> QED BY <3>1, ClickShown
  <2>2. CASE CloseError \/ Edit
    <3>1. /\ UNCHANGED Cast /\ UNCHANGED <<callback, events, early, late>>
          /\ ui' = [ui EXCEPT !.error = FALSE] \/ ui' = [ui EXCEPT !.editing = TRUE]
      BY <2>2 DEF CloseError, Edit
    <3>2. ui'.active = ui.active
      BY <3>1 DEF ShownInv, WindowOK
    <3> QED BY <3>1, <3>2, ShownStill
  <2>3. CASE CloseWindow
    <3>1. UNCHANGED Cast /\ UNCHANGED <<ui, events, early, late>> /\ callback' = "drop" /\ callback = "none"
      BY <2>3 DEF CloseWindow
    <3> QED BY <3>1, ShownStill
  <2> QED BY <1>2, <2>1, <2>2, <2>3, MountShown DEF Buttons
<1>3. CASE EventLoop
  <2>1. CASE QueueMounted
    <3>1. /\ UNCHANGED Cast /\ UNCHANGED <<ui, early, late>>
          /\ events' = Append(events, "mounted") /\ callback' = "none"
      BY <2>1 DEF QueueMounted
    <3>2. Showing'
      BY <3>1, ShowingGrows DEF ShownInv, Closures, Closing
    <3>3. \A r \in Runs : Live(r)' = Live(r)
      BY <3>1 DEF Live
    <3>4. Running' => Running
      BY <3>1, <3>3 DEF Running
    <3>5. {slot'} \cup permits' = {slot} \cup permits /\ \A r \in Runs : runs'[r].daemon = runs[r].daemon
      BY <3>1
    <3> HIDE DEF Cast
    <3> QED BY <3>1, <3>2, <3>3, <3>4, <3>5, ShownStays DEF ShownInv
  <2>2. CASE UnmountSlot \/ DropGui
    BY <2>2, StopShown DEF UnmountSlot, DropGui, table
  <2>3. CASE Leave
    <3>1. UNCHANGED Cast /\ UNCHANGED <<ui, events, early, late>> /\ callback' = "none" /\ callback = "leave"
      BY <2>3 DEF Leave
    <3> QED BY <3>1, ShownStill
  <2>4. CASE TimerFires
    <3>1. /\ UNCHANGED Cast /\ UNCHANGED <<callback, events, early, late>>
          /\ \E status : ui' = [ui EXCEPT !.status = status]
      BY <2>4 DEF TimerFires
    <3>2. ui'.active = ui.active
      BY <3>1 DEF ShownInv, WindowOK
    <3> QED BY <3>1, <3>2, ShownStill
  <2> QED BY <1>3, <2>1, <2>2, <2>3, <2>4, SpawnShown, HandleShown DEF EventLoop
<1>4. ASSUME NEW j \in Jobs, Job(j) PROVE ShownOK'
  BY <1>4, JobShown
<1>5. ASSUME NEW r \in Runs, Run(r) \/ RunFails(r) PROVE ShownOK'
  BY <1>5, RunShown
<1> QED BY <1>1, <1>2, <1>3, <1>4, <1>5 DEF ClientNext

LEMMA ShownStart == ClientInit => ShownOK
<1> SUFFICES ASSUME ClientInit PROVE ShownOK
  OBVIOUS
<1>1. \A r \in Runs : ~Live(r)
  BY DEF ClientInit, Live, NoRun
<1> QED BY <1>1 DEF ShownOK, Running

AllInv == MountsInv /\ SettingsInv /\ DaemonsInv /\ JobsOK /\ ShownOK

LEMMA AllStep == AllInv /\ [ClientNext]_all => AllInv'
<1> SUFFICES ASSUME AllInv, [ClientNext]_all PROVE AllInv'
  OBVIOUS
<1>1. MountsInv' /\ SettingsInv'
  BY MountsStep, SettingsStep DEF AllInv
<1>2. RunsOK'
  BY <1>1 DEF MountsInv
<1> QED BY <1>1, <1>2, DaemonsStep, JobsStep, ShownStep DEF AllInv, ShownInv, SettingsInv

\* A window at rest that offers MOUNT has no run that serves, whatever was
\* mounted, unmounted, logged out of or crashed before (logic.rs:288-355), unless
\* a click came before the work of the last one was done or the crash of an old
\* run was shown late.
THEOREM ShownWhenActive == ClientSpec => []ActiveIsShown
<1>1. AllInv => ActiveIsShown
  <2> SUFFICES ASSUME AllInv, callback = "none", events = <<>>, ~ui.active, ~early, ~late PROVE ~Running
    BY DEF ActiveIsShown, Running
  <2>1. ~Showing
    BY DEF Showing
  <2> QED BY <2>1 DEF AllInv, ShownOK
<1>2. ClientInit => AllInv
  BY MountsStart, SettingsStart, DaemonsStart, JobsStart, ShownStart DEF AllInv
<1> QED BY <1>1, <1>2, AllStep, PTL DEF ClientSpec
----------------------------------------------------------------------------
(* Types *)

\* A process that is up has a login left.
ProcessOK == TypeOK /\ (process = "up" => attempts < MaxLoginAttempts)

LEMMA ProcessStep == ASSUME ProcessOK, [Next]_vars PROVE ProcessOK'
<1> USE DEF ProcessOK, TypeOK
<1>1. CASE UNCHANGED vars
  BY <1>1 DEF vars
<1>2. CASE LoginFails
  BY <1>2, AttemptsAssumption DEF LoginFails, End, session, rest, At
<1>3. CASE HealthCheck \/ LoginSucceeds \/ Start
  BY <1>3 DEF HealthCheck, LoginSucceeds, Start, Goto, End, session, rest, At
<1>4. CASE Mount \/ Serve \/ SessionEnds \/ SessionFails \/ ShutdownReceived
  BY <1>4 DEF Mount, Serve, SessionEnds, SessionFails, ShutdownReceived, Goto, End, session, rest, At
<1>5. CASE Unmount \/ LazyUnmount \/ Exit
  BY <1>5 DEF Unmount, LazyUnmount, Exit, Goto, End, session, rest, At
<1>6. CASE SignalTask \/ LazyUnmountRuns \/ ExternalUnmount
  BY <1>6 DEF SignalTask, Listen, Notify, LazyUnmountRuns, ExternalUnmount, main, rest
<1>7. CASE Signal
  <2>1. /\ UNCHANGED <<gui, foreground, attempts, woken, mounted, lazy, missed, phase>>
        /\ signals' \in 0 .. MaxSignals /\ process = "up"
    BY <1>7, SignalsAssumption DEF Signal, End
  <2>2. /\ process' \in {process, "killed"} /\ shell' \in {shell, "killed"}
        /\ handler' \in {handler, "signalled"}
    <3>1. CASE handler \in {"none", "spawned"}
      BY <1>7, <3>1 DEF Signal, End
    <3>2. CASE handler = "listening"
      BY <1>7, <3>2 DEF Signal, End
    <3>3. CASE handler \in {"signalled", "done"}
      BY <1>7, <3>3 DEF Signal, End
    <3> QED BY <3>1, <3>2, <3>3
  <2> QED BY <2>1, <2>2
<1> QED BY <1>1, <1>2, <1>3, <1>4, <1>5, <1>6, <1>7 DEF Next, Main

\* What the event loop is in, and the process below it.
LoopOK ==
    /\ ProcessOK
    /\ callback \in {"none", "mount", "mounting", "unmount", "drop", "leave"}

LEMMA LoopStep == LoopOK /\ [ClientNext]_all => LoopOK'
<1> SUFFICES ASSUME LoopOK, [ClientNext]_all PROVE LoopOK'
  OBVIOUS
<1>1. /\ [Next]_vars \/ Leave
      /\ callback' \in {callback, "none", "mount", "mounting", "unmount", "drop", "leave"}
  <2> USE DEF service, past, desk
  <2>1. CASE Process \/ UNCHANGED all \/ UmountRuns \/ UmountFromOutside
    BY <2>1 DEF Process, all, window, UmountRuns, UmountFromOutside
  <2>2. CASE Buttons
    <3>1. CASE Retry \/ Login \/ Logout \/ ChangeString \/ ChangeBool \/ ChangeInt \/ Restore
      BY <3>1 DEF Retry, Login, Logout, Ask, ChangeString, ChangeBool, ChangeInt, Changing, Changed, Restore, Click
    <3>2. CASE ClickMount \/ ClickUnmount \/ CloseError \/ CloseWindow \/ Edit
      BY <3>2 DEF ClickMount, ClickUnmount, CloseError, CloseWindow, Edit, Click
    <3> QED BY <2>2, <3>1, <3>2 DEF Buttons
  <2>3. CASE EventLoop
    BY <2>3 DEF EventLoop, SpawnRun, QueueMounted, UnmountSlot, DropGui, Leave, Handle, TimerFires
  <2>4. ASSUME NEW j \in Jobs, Job(j) PROVE UNCHANGED <<vars, callback>>
    BY <2>4 DEF Job, Health, CallFails, LoggedIn, LoggedOut, StopAndSleep, WakeUp
  <2>5. ASSUME NEW r \in Runs, Run(r) \/ RunFails(r) PROVE UNCHANGED <<vars, callback>>
    BY <2>5 DEF Run, RunMounts, RunServes, RunEnds, RunFails, RunToldToStop, RunUnmounts, Stay
  <2> QED BY <2>1, <2>2, <2>3, <2>4, <2>5 DEF ClientNext
<1>2. ProcessOK'
  <2>1. CASE Leave
    <3>1. /\ UNCHANGED <<gui, foreground, attempts, handler, woken, mounted, lazy, missed, signals, phase>>
          /\ process' = "ok" /\ shell' \in {shell, "ok"}
      BY <2>1 DEF Leave, End, session
    <3> QED BY <3>1 DEF LoopOK, ProcessOK, TypeOK
  <2> QED BY <1>1, <2>1, ProcessStep DEF LoopOK
<1>3. callback' \in {"none", "mount", "mounting", "unmount", "drop", "leave"}
  BY <1>1 DEF LoopOK
<1> QED BY <1>2, <1>3 DEF LoopOK

LEMMA LoopStart == ClientInit => LoopOK
<1> SUFFICES ASSUME ClientInit PROVE LoopOK
  OBVIOUS
<1>1. ProcessOK
  <2>1. 0 \in 0 .. MaxLoginAttempts /\ 0 < MaxLoginAttempts /\ 0 \in 0 .. MaxSignals
    BY AttemptsAssumption, SignalsAssumption
  <2>2. Init
    BY DEF ClientInit
  <2>3. phase \in {"start", "connect"}
    BY <2>2 DEF Init
  <2> QED BY <2>1, <2>2, <2>3 DEF ProcessOK, TypeOK, Init
<1> QED BY <1>1 DEF LoopOK, ClientInit

LEMMA TypeHolds == AllInv /\ LoopOK => ClientTypeOK
<1> SUFFICES ASSUME AllInv, LoopOK PROVE ClientTypeOK
  OBVIOUS
<1> USE DEF AllInv
<1>1. lock # Nobody => jobs[lock] = [at |-> "sleep", kind |-> "logout"]
  BY DEF JobsOK, JobIs, NoJob
<1>2. slot \in {Nobody} \cup {d \in Daemons : d = 0 \/ runs[d] # NoRun}
  BY DEF DaemonsInv, DaemonsOK, InUse, NoRun
<1>3. \A r \in Runs : runs[r] # NoRun => runs[r].daemon \in 0 .. r
  BY DEF DaemonsInv, DaemonsOK
<1>4. umounts \in 0 .. MaxRuns
  <2>1. umounts \in Nat /\ umounts <= Cardinality(Ended) /\ MaxRuns \in Nat
    BY BoundsAssumption DEF DaemonsInv, DaemonsOK, RunsOK
  <2>2. IsFiniteSet(Runs) /\ Cardinality(Runs) = MaxRuns
    BY <2>1, FS_Interval DEF Runs
  <2>3. Cardinality(Ended) \in Nat /\ Cardinality(Ended) <= MaxRuns
    BY <2>2, FS_Subset, FS_CardinalityType DEF Ended
  <2> QED BY <2>1, <2>3
<1>5. permits \subseteq Daemons
  BY DEF DaemonsInv, DaemonsOK
<1> QED BY <1>1, <1>2, <1>3, <1>4, <1>5
    DEF ClientTypeOK, LoopOK, ProcessOK, SettingsInv, WindowOK, DaemonsInv, WaitersOK

\* The process, the window and its tasks have their types throughout, the lock
\* is held across an await by a logout only, and what is in the slot, waits or
\* was told to stop is a daemon that was created (logic.rs:15-22, 246, 297).
THEOREM TypeCorrect == ClientSpec => []ClientTypeOK
<1>1. ClientInit => AllInv /\ LoopOK
  BY MountsStart, SettingsStart, DaemonsStart, JobsStart, ShownStart, LoopStart DEF AllInv
<1>2. AllInv /\ LoopOK /\ [ClientNext]_all => AllInv' /\ LoopOK'
  BY AllStep, LoopStep
<1> QED BY <1>1, <1>2, TypeHolds, PTL DEF ClientSpec
===============================================================================
