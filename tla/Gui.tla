---------------------------------- MODULE Gui ----------------------------------
(***************************************************************************)
(* The client with a window (client/src/gui/logic.rs, with the guards of   *)
(* the buttons in gui/app.slint), on top of the process of module Daemon.  *)
(* Three kinds of actors: the event loop, which runs the callbacks of the  *)
(* buttons, the closures queued for it and its timers, one at a time; a    *)
(* job per click that asks the server; and a run of run_async per mount.   *)
(*                                                                         *)
(* All runs mount at one mount point, so their mounts lie on top of each   *)
(* other and an unmount takes the topmost one, whoever made it.            *)
(***************************************************************************)
EXTENDS Daemon, Sequences, FiniteSets

CONSTANTS
    MaxJobs,    \* bound on the clicks that ask the server
    MaxRuns,    \* bound on the mounts
    Nobody,     \* no daemon in the slot, no holder of its lock
    Values,     \* the values of one setting
    Default,    \* its value in default_config
    Scopes      \* bound: the buttons, jobs and mounts, and whether the user waits

ASSUME BoundsAssumption == MaxJobs \in Nat /\ MaxRuns \in Nat \ {0}
ASSUME DefaultAssumption == Default \in Values
ASSUME NobodyAssumption == Nobody \notin Nat

Jobs == 1 .. MaxJobs
Runs == 1 .. MaxRuns
Daemons == 0 .. MaxRuns     \* that of lib.rs, and one a mount may create

VARIABLES
    ui,         \* what the window shows
    events,     \* the closures queued by invoke_from_event_loop
    timers,     \* single_shot timers that set the status
    callback,   \* the callback the event loop is in
    jobs,       \* the tasks spawned by retry, login and logout
    lock,       \* who holds Gui.daemon across an await
    slot,       \* Gui.daemon
    permits,    \* daemons whose shutdown_notify holds a permit
    waiters,    \* runs waiting in wait_for_shutdown, in order
    runs,       \* the tasks spawned by mount
    mounts,     \* runs whose file systems are mounted, the topmost last
    umounts,    \* spawned umount commands
    config,     \* Gui.config
    early,      \* history: a click while the work of an earlier one was pending
    late,       \* history: a crash shown while another run was serving
    stacked,    \* history: a mount on top of another
    stuck,      \* history: a mount nobody will take away: its unmount failed for
                \* good, or its session failed
    restored,   \* history: defaults shown and nothing changed since
    scope       \* the scope of this behaviour

desk == <<ui, events, timers, callback>>
service == <<slot, permits, waiters, runs>>
table == <<mounts, umounts>>
past == <<early, late, stacked, stuck, restored, scope>>
window == <<desk, jobs, lock, service, table, config, past>>
all == <<vars, window>>

Open == At("window")
NoJob == [at |-> "none", kind |-> "none"]
NoRun == [at |-> "none", daemon |-> Nobody, woken |-> FALSE]
Live(r) == runs[r].at \in {"mount", "mounted", "serving"} /\ ~runs[r].woken

----------------------------------------------------------------------------
(* Clicks: app.slint shows the loading overlay and calls back *)

\* The overlay and an error cover the buttons; the page without a server lets
\* the clicks beside RETRY through.
Reachable == Open /\ callback = "none" /\ ~ui.loading /\ ~ui.error

Pending == events # <<>> \/ timers # {} \/ \E j \in Jobs : jobs[j].at \notin {"none", "done"}

Click(button) ==
    /\ button \in scope.buttons
    /\ Reachable /\ (button = "retry" => ui.away)
    /\ \E still \in BOOLEAN : ui' = [ui EXCEPT !.loading = TRUE, !.editing = @ /\ still]
    /\ scope.patient => ~Pending
    /\ early' = (early \/ Pending)
    /\ UNCHANGED <<vars, timers, lock, service, table, late, stacked, stuck, scope>>

\* retry, login and logout spawn a task.
Ask(button, status) ==
    /\ Click(button) /\ ui.status = status
    /\ \E j \in 1 .. scope.jobs :
         /\ jobs[j] = NoJob /\ \A i \in 1 .. j - 1 : jobs[i] # NoJob
         /\ jobs' = [jobs EXCEPT ![j] = [at |-> "health", kind |-> button]]
    /\ UNCHANGED <<events, callback, config, restored>>

Retry == \E status \in {"in", "out"} : Ask("retry", status)
Login == Ask("login", "out")
Logout == Ask("logout", "in")

\* mount and unmount block the event loop until they have the slot.
ClickMount ==
    /\ Click("mount") /\ ui.status = "in" /\ ~ui.active
    /\ \E r \in 1 .. scope.runs : runs[r] = NoRun
    /\ callback' = "mount"
    /\ UNCHANGED <<events, jobs, config, restored>>

ClickUnmount ==
    /\ Click("unmount") /\ ui.status = "in" /\ ui.active
    /\ callback' = "unmount"
    /\ UNCHANGED <<events, jobs, config, restored>>

\* An edit view and a list of options open while no file system is active.
\* They stay open when one is mounted, and so does their OK; any click may be
\* the one that closes the last of them.
Edit ==
    /\ "change" \in scope.buttons
    /\ Reachable /\ ui.status = "in" /\ ~ui.active
    /\ ui' = [ui EXCEPT !.editing = TRUE]
    /\ UNCHANGED <<vars, events, timers, callback, jobs, lock, service, table, config, past>>

Changing == Click("change") /\ ui.status = "in" /\ UNCHANGED <<callback, jobs>>

\* Gui.config changes at once and is shown by an event.  A name or a value
\* without an arm in the match changes nothing.
Changed == config' \in Values /\ events' = Append(events, "changed") /\ restored' = FALSE

\* Fault: the window is not told of the change.
ChangeStringUnshown ==
    /\ Changing /\ ui.editing
    /\ config' \in Values /\ events' = Append(events, "refused") /\ restored' = FALSE

ChangeString == Changing /\ ui.editing /\ Changed

\* A switch shows the value it would change, and is off while one is active.
ChangeBool == Changing /\ ~ui.active /\ Changed /\ config' # config

\* A size or a capacity with which the cache could exceed 1 GB, and a buffer of
\* 5 MB or more, are refused.
ChangeInt ==
    /\ Changing /\ ui.editing
    /\ \/ Changed
       \/ events' = Append(events, "refused") /\ UNCHANGED <<config, restored>>

\* on_restore_default: the defaults are shown; Gui.config stays as it is.
Restore ==
    /\ Click("restore") /\ ui.status = "in" /\ ~ui.active /\ ui.reset
    /\ events' = Append(events, "restored")
    /\ restored' = TRUE
    /\ UNCHANGED <<callback, jobs, config>>

CloseError ==
    /\ Open /\ callback = "none" /\ ui.error /\ ~ui.loading
    /\ ui' = [ui EXCEPT !.error = FALSE]
    /\ UNCHANGED <<vars, events, timers, callback, jobs, lock, service, table, config, past>>

\* run returns, and Gui is dropped.
CloseWindow ==
    /\ Open /\ callback = "none"
    /\ callback' = "drop"
    /\ UNCHANGED <<vars, ui, events, timers, jobs, lock, service, table, config, past>>

----------------------------------------------------------------------------
(* The notification of a daemon *)

Waiting(d) == {i \in DOMAIN waiters : runs[waiters[i]].daemon = d}
Without(i) == SubSeq(waiters, 1, i - 1) \o SubSeq(waiters, i + 1, Len(waiters))

\* Fault: notify_waiters in place of notify_one.
NotifyWaiters(d) ==
    /\ runs' = [r \in Runs |-> IF runs[r].daemon = d /\ runs[r].at = "serving"
                               THEN [runs[r] EXCEPT !.woken = TRUE] ELSE runs[r]]
    /\ waiters' = SelectSeq(waiters, LAMBDA r : runs[r].daemon # d)
    /\ UNCHANGED permits

\* trigger_shutdown: notify_one wakes the first waiter, or leaves a permit.
NotifyOne(d) ==
    IF Waiting(d) = {}
    THEN permits' = permits \cup {d} /\ UNCHANGED <<runs, waiters>>
    ELSE \E i \in Waiting(d) :
           /\ \A k \in Waiting(d) : i <= k
           /\ runs' = [runs EXCEPT ![waiters[i]].woken = TRUE]
           /\ waiters' = Without(i)
           /\ UNCHANGED permits

\* The daemon in the slot is taken out and told to stop.
StopSlot ==
    /\ lock = Nobody
    /\ slot' = Nobody
    /\ IF slot = Nobody THEN UNCHANGED <<permits, waiters, runs>> ELSE NotifyOne(slot)

----------------------------------------------------------------------------
(* The event loop *)

\* on_mount spawns the run first and queues its event afterwards.
SpawnRun ==
    /\ Open /\ callback = "mount" /\ lock = Nobody
    /\ \E r \in Runs :
         /\ runs[r] = NoRun /\ \A q \in 1 .. r - 1 : runs[q] # NoRun
         /\ slot' = IF slot = Nobody THEN r ELSE slot
         /\ runs' = [runs EXCEPT ![r] = [at |-> "mount", daemon |-> slot', woken |-> FALSE]]
    /\ callback' = "mounting"
    /\ UNCHANGED <<vars, ui, events, timers, jobs, lock, permits, waiters, table, config, past>>

QueueMounted ==
    /\ Open /\ callback = "mounting"
    /\ callback' = "none"
    /\ events' = Append(events, "mounted")
    /\ UNCHANGED <<vars, ui, timers, jobs, lock, service, table, config, past>>

UnmountSlot ==
    /\ Open /\ callback = "unmount"
    /\ StopSlot
    /\ callback' = "none"
    /\ events' = Append(events, "unmounted")
    /\ UNCHANGED <<vars, ui, timers, jobs, lock, table, config, past>>

\* drop: unmount, then logout, whose result is ignored.
DropGui ==
    /\ Open /\ callback = "drop"
    /\ StopSlot
    /\ callback' = "leave"
    /\ UNCHANGED <<vars, ui, events, timers, jobs, lock, table, config, past>>

\* The runtime is dropped with the tasks it still runs; their mounts may stay.
Leave ==
    /\ Open /\ callback = "leave"
    /\ End("ok")
    /\ callback' = "none"
    /\ mounts' \in {mounts, <<>>}
    /\ UNCHANGED <<gui, foreground, attempts, session, signals, ui, events, timers, jobs, lock, service, umounts, config, past>>

\* What each closure does to the window.
Shown(event) ==
    CASE event = "healthy" -> [ui EXCEPT !.loading = FALSE, !.away = FALSE]
      [] event = "unhealthy" -> [ui EXCEPT !.loading = FALSE, !.away = TRUE]
      [] event = "logged in" -> [ui EXCEPT !.loading = FALSE, !.settings = config]
      [] event = "failed" -> [ui EXCEPT !.error = TRUE]
      [] event = "logged out" -> [ui EXCEPT !.loading = FALSE, !.active = FALSE]
      [] event = "mounted" -> [ui EXCEPT !.loading = FALSE, !.active = TRUE]
      [] event = "unmounted" -> [ui EXCEPT !.loading = FALSE, !.active = FALSE]
      [] event = "crashed" -> [ui EXCEPT !.loading = FALSE, !.active = FALSE, !.error = TRUE]
      [] event = "changed" -> [ui EXCEPT !.loading = FALSE, !.reset = TRUE, !.settings = config]
      [] event = "refused" -> [ui EXCEPT !.loading = FALSE, !.error = TRUE]
      [] event = "restored" -> [ui EXCEPT !.loading = FALSE, !.reset = FALSE, !.settings = Default]

Handle ==
    /\ Open /\ callback = "none" /\ events # <<>>
    /\ events' = Tail(events)
    /\ ui' = Shown(Head(events))
    /\ timers' = timers \cup (CASE Head(events) = "logged in" -> {"in"}
                                [] Head(events) = "logged out" -> {"out"}
                                [] OTHER -> {})
    /\ late' = (late \/ (Head(events) = "crashed" /\ \E r \in Runs : Live(r)))
    /\ UNCHANGED <<vars, callback, jobs, lock, service, table, config, early, stacked, stuck, restored, scope>>

TimerFires ==
    /\ Open /\ callback = "none"
    /\ \E status \in timers :
         /\ timers' = timers \ {status}
         /\ ui' = [ui EXCEPT !.status = status]
    /\ UNCHANGED <<vars, events, callback, jobs, lock, service, table, config, past>>

----------------------------------------------------------------------------
(* Jobs *)

JobAt(j, at) == Open /\ jobs[j].at = at
JobGoto(j, at) == jobs' = [jobs EXCEPT ![j].at = at]

\* Fault: the window is not told that the server is not there.
QueuedIfHealthy(event) == IF event = "unhealthy" THEN events ELSE Append(events, event)

Queued(event) == Append(events, event)

\* health_check queues its closure and then returns to its caller.
Health(j) ==
    /\ JobAt(j, "health")
    /\ \/ events' = Queued("unhealthy") /\ JobGoto(j, "done")
       \/ events' = Queued("healthy") /\ JobGoto(j, IF jobs[j].kind = "retry" THEN "done" ELSE "call")
    /\ UNCHANGED <<vars, ui, timers, callback, lock, service, table, config, past>>

CallFails(j) ==
    /\ JobAt(j, "call")
    /\ events' = Queued("failed") /\ JobGoto(j, "done")
    /\ UNCHANGED <<vars, ui, timers, callback, lock, service, table, config, past>>

LoggedIn(j) ==
    /\ JobAt(j, "call") /\ jobs[j].kind = "login"
    /\ events' = Queued("logged in") /\ JobGoto(j, "done")
    /\ UNCHANGED <<vars, ui, timers, callback, lock, service, table, config, past>>

LoggedOut(j) ==
    /\ JobAt(j, "call") /\ jobs[j].kind = "logout"
    /\ JobGoto(j, "stop")
    /\ UNCHANGED <<vars, desk, lock, service, table, config, past>>

\* The lock of the slot is held while the job sleeps.
StopAndSleep(j) ==
    /\ JobAt(j, "stop")
    /\ StopSlot
    /\ lock' = j /\ JobGoto(j, "sleep")
    /\ UNCHANGED <<vars, desk, table, config, past>>

WakeUp(j) ==
    /\ JobAt(j, "sleep")
    /\ lock' = Nobody
    /\ events' = Queued("logged out") /\ JobGoto(j, "done")
    /\ UNCHANGED <<vars, ui, timers, callback, service, table, config, past>>

----------------------------------------------------------------------------
(* Runs *)

RunAt(r, at) == Open /\ runs[r].at = at
Stay == UNCHANGED <<vars, ui, timers, callback, jobs, lock, slot, config, early, late, restored, scope>>

\* A run that returns an error says so to the window.
Crashed == events' = Append(events, "crashed")

RunMounts(r) ==
    /\ RunAt(r, "mount")
    /\ \/ /\ runs' = [runs EXCEPT ![r].at = "mounted"]
          /\ mounts' = Append(mounts, r) /\ stacked' = (stacked \/ mounts # <<>>)
          /\ UNCHANGED events
       \/ /\ runs' = [runs EXCEPT ![r].at = "done"] /\ Crashed
          /\ UNCHANGED <<mounts, stacked>>
    /\ Stay /\ UNCHANGED <<permits, waiters, umounts, stuck>>

\* Fault: a permit is not looked at.
RunServesUntold(r) ==
    /\ RunAt(r, "mounted")
    /\ runs' = [runs EXCEPT ![r].at = "serving"]
    /\ waiters' = Append(waiters, r)
    /\ Stay /\ UNCHANGED <<permits, events, table, stacked, stuck>>

\* The first poll of wait_for_shutdown takes a permit or waits.
RunServes(r) ==
    /\ RunAt(r, "mounted")
    /\ IF runs[r].daemon \in permits
       THEN /\ permits' = permits \ {runs[r].daemon}
            /\ runs' = [runs EXCEPT ![r].at = "unmount"]
            /\ UNCHANGED waiters
       ELSE /\ runs' = [runs EXCEPT ![r].at = "serving"]
            /\ waiters' = Append(waiters, r)
            /\ UNCHANGED permits
    /\ Stay /\ UNCHANGED <<events, table, stacked, stuck>>

\* The run returns; a notification that came as well is passed on.
RunReturns(r) ==
    LET next == {i \in Waiting(runs[r].daemon) : waiters[i] # r}
        ended == [runs EXCEPT ![r].at = "done"]
    IN  \/ /\ ~runs[r].woken
           /\ runs' = ended /\ UNCHANGED permits
           /\ \E i \in DOMAIN waiters : waiters[i] = r /\ waiters' = Without(i)
        \/ /\ runs[r].woken /\ next = {}
           /\ runs' = ended /\ permits' = permits \cup {runs[r].daemon} /\ UNCHANGED waiters
        \/ /\ runs[r].woken
           /\ \E i \in next :
                /\ \A k \in next : i <= k
                /\ runs' = [ended EXCEPT ![waiters[i]].woken = TRUE]
                /\ waiters' = Without(i) /\ UNCHANGED permits

IsMounted(r) == r \in {mounts[i] : i \in DOMAIN mounts}

\* Its session has ended.
RunEnds(r) ==
    /\ RunAt(r, "serving") /\ ~IsMounted(r)
    /\ RunReturns(r)
    /\ Crashed \/ UNCHANGED events
    /\ Stay /\ UNCHANGED <<table, stacked, stuck>>

\* wait fails while the file system is still mounted: nobody unmounts it.
RunFails(r) ==
    /\ RunAt(r, "serving") /\ IsMounted(r)
    /\ RunReturns(r)
    /\ Crashed /\ stuck' = TRUE
    /\ Stay /\ UNCHANGED <<table, stacked>>

RunToldToStop(r) ==
    /\ RunAt(r, "serving") /\ runs[r].woken
    /\ runs' = [runs EXCEPT ![r].at = "unmount"]
    /\ Stay /\ UNCHANGED <<events, permits, waiters, table, stacked, stuck>>

Topmost(left) == left = IF mounts = <<>> THEN <<>> ELSE SubSeq(mounts, 1, Len(mounts) - 1)

\* Fault: nothing is tried after a failed unmount.
RunUnmountsOnce(r) ==
    /\ RunAt(r, "unmount")
    /\ runs' = [runs EXCEPT ![r].at = "done"]
    /\ Topmost(mounts') \/ UNCHANGED mounts
    /\ Stay /\ UNCHANGED <<umounts, stuck, events, permits, waiters, stacked>>

\* unmount, or else lazy_unmount, which spawns a command and is content.
RunUnmounts(r) ==
    /\ RunAt(r, "unmount")
    /\ runs' = [runs EXCEPT ![r].at = "done"]
    /\ \/ Topmost(mounts') /\ UNCHANGED <<umounts, stuck>>
       \/ umounts' = umounts + 1 /\ UNCHANGED <<mounts, stuck>>
       \/ stuck' = TRUE /\ UNCHANGED table
    /\ Stay /\ UNCHANGED <<events, permits, waiters, stacked>>

\* A spawned umount outlives the process.
UmountRuns ==
    /\ umounts > 0
    /\ umounts' = umounts - 1
    /\ \/ Topmost(mounts') /\ UNCHANGED stuck
       \/ stuck' = TRUE /\ UNCHANGED mounts
    /\ UNCHANGED <<vars, desk, jobs, lock, service, config, early, late, stacked, restored, scope>>

UmountFromOutside ==
    /\ mounts # <<>> /\ Topmost(mounts')
    /\ UNCHANGED <<vars, desk, jobs, lock, service, umounts, config, past>>

----------------------------------------------------------------------------
ClientInit ==
    /\ Init
    /\ scope \in Scopes
    /\ ui = [loading |-> FALSE, active |-> FALSE, status |-> "out", error |-> FALSE,
             away |-> FALSE, reset |-> FALSE, editing |-> FALSE, settings |-> Default]
    /\ events = <<>> /\ timers = {} /\ callback = "none"
    /\ jobs = [j \in Jobs |-> NoJob] /\ lock = Nobody
    /\ slot = 0 /\ permits = {} /\ waiters = <<>> /\ runs = [r \in Runs |-> NoRun]
    /\ mounts = <<>> /\ umounts = 0
    /\ config = Default
    /\ early = FALSE /\ late = FALSE /\ stacked = FALSE /\ stuck = FALSE /\ restored = FALSE

\* The process of Daemon: its start, a signal, or the life without a window.
Process == Next /\ UNCHANGED window

Buttons ==
    \/ Retry \/ Login \/ Logout \/ ClickMount \/ ClickUnmount \/ CloseError \/ CloseWindow
    \/ Edit \/ ChangeString \/ ChangeBool \/ ChangeInt \/ Restore

EventLoop ==
    \/ SpawnRun \/ QueueMounted \/ UnmountSlot \/ DropGui \/ Leave \/ Handle \/ TimerFires

Job(j) ==
    Health(j) \/ CallFails(j) \/ LoggedIn(j) \/ LoggedOut(j) \/ StopAndSleep(j) \/ WakeUp(j)

Run(r) ==
    RunMounts(r) \/ RunServes(r) \/ RunEnds(r) \/ RunToldToStop(r) \/ RunUnmounts(r)

ClientNext ==
    \/ Process
    \/ Buttons \/ EventLoop
    \/ \E j \in Jobs : Job(j)
    \/ \E r \in Runs : Run(r) \/ RunFails(r)
    \/ UmountRuns \/ UmountFromOutside

\* The event loop turns, tokio polls every ready task, the server answers or
\* the request times out, and a spawned command ends.  Nobody has to click, and no
\* session has to fail.
ClientFairness ==
    /\ Fairness
    /\ WF_all(EventLoop)
    /\ \A j \in Jobs : WF_all(Job(j))
    /\ \A r \in Runs : WF_all(Run(r))
    /\ WF_all(UmountRuns)

ClientSpec == ClientInit /\ [][ClientNext]_all /\ ClientFairness

----------------------------------------------------------------------------
(* Properties *)

\* The process and the window have their types, the lock is held by a logout
\* only, and every daemon in use has been created (logic.rs:15-22, 246, 297).
ClientTypeOK ==
    /\ TypeOK
    /\ ui \in [loading : BOOLEAN, active : BOOLEAN, status : {"in", "out"}, error : BOOLEAN,
               away : BOOLEAN, reset : BOOLEAN, editing : BOOLEAN, settings : Values]
    /\ timers \subseteq {"in", "out"}
    /\ callback \in {"none", "mount", "mounting", "unmount", "drop", "leave"}
    /\ lock # Nobody => jobs[lock] = [at |-> "sleep", kind |-> "logout"]
    /\ slot \in {Nobody} \cup {d \in Daemons : d = 0 \/ runs[d] # NoRun}
    /\ \A r \in Runs : runs[r] # NoRun => runs[r].daemon \in 0 .. r
    /\ \A i \in DOMAIN waiters : runs[waiters[i]].at = "serving" /\ ~runs[waiters[i]].woken
    /\ permits \subseteq Daemons /\ config \in Values
    /\ umounts \in 0 .. MaxRuns

\* A window at rest that offers MOUNT has no run that serves: whoever mounts
\* again gets a run that UNMOUNT reaches (logic.rs:288-355), unless a click was
\* made before the work of the last one was done, which the overlay that
\* health_check lifts allows, or the crash of an old run was shown late.
ActiveIsShown ==
    Open /\ callback = "none" /\ events = <<>> /\ ~ui.active /\ ~early /\ ~late
        => \A r \in Runs : ~(Live(r) /\ runs[r].daemon \notin permits)

\* When every run has ended, nothing is left mounted, unless an unmount was
\* refused, a session failed with its file system mounted, a mount lay on top of
\* another, or the process ended (lib.rs:198-223).
RunsLeaveNoMount ==
    Open /\ ~stacked /\ ~stuck /\ umounts = 0 /\ (\A r \in Runs : runs[r].at \in {"none", "done"})
        => mounts = <<>>

\* A mount takes the settings the window shows when MOUNT is clicked: it copies
\* Gui.config (logic.rs:294), and a setting is shown once it is in there
\* (:450-460), also one that is changed while another file system is mounted.
\* The two agree unless the defaults were restored (:582-594) or a click was early.
MountsWhatIsShown ==
    Open /\ callback = "mount" /\ ~restored /\ ~early => ui.settings = config

\* A run whose daemon has left the slot was told to stop and ends, wherever it
\* was (daemon.rs:84 keeps a permit for a run that does not wait yet).
StopEnds ==
    \A r \in Runs :
        (Live(r) /\ runs[r].daemon # slot) ~> (runs[r].at = "done" \/ ~Open \/ early \/ late)

\* The loading overlay covers the window until the answer to the click, and
\* every click is answered, whatever the server says (logic.rs:40-55).
OverlayEnds == ui.loading ~> (~ui.loading \/ ~Open)
================================================================================
