------------------------------- MODULE Daemon -------------------------------
(***************************************************************************)
(* The life of one client process (client/src/lib.rs, daemon.rs,           *)
(* mount/unix.rs): login, daemonisation, mount, shutdown.  Three actors    *)
(* run concurrently: the main task, which mounts and then waits in a       *)
(* select!; the signal task, which listens and then notifies; and whoever  *)
(* sends signals or unmounts from outside.  With gui_enabled the main task *)
(* opens a window instead, which is module Gui.                            *)
(* fuse3, the mount table and the umount command are external: each of     *)
(* their calls may succeed or fail.                                        *)
(***************************************************************************)
EXTENDS Naturals

CONSTANTS
    MaxLoginAttempts,   \* MAX_LOGIN_ATTEMPTS
    MaxSignals          \* bound on the signals sent to the process

ASSUME AttemptsAssumption == MaxLoginAttempts \in Nat \ {0}
ASSUME SignalsAssumption == MaxSignals \in Nat

VARIABLES
    gui,        \* config.gui_enabled
    foreground, \* config.foreground
    process,    \* the process: "up", or how it ended
    shell,      \* what the shell that started it has seen so far
    phase,      \* where the main task is
    attempts,   \* failed logins
    handler,    \* where the signal task is
    woken,      \* the waiter in shutdown_notify has been notified
    mounted,    \* the mount table has the file system
    lazy,       \* the spawned umount command
    signals,    \* history: signals sent
    missed      \* history: notify_waiters found nobody waiting

vars == <<gui, foreground, process, shell, phase, attempts, handler, woken, mounted, lazy,
          signals, missed>>

TypeOK ==
    /\ gui \in BOOLEAN /\ foreground \in BOOLEAN
    /\ process \in {"up", "ok", "failed", "killed"}
    /\ shell \in {"waiting", "ok", "failed", "killed"}
    /\ phase \in {"connect", "login", "start", "mount", "mounted", "serving", "unmount",
                  "lazy_unmount", "cleanup", "window"}
    /\ attempts \in 0 .. MaxLoginAttempts
    /\ handler \in {"none", "spawned", "listening", "signalled", "done"}
    /\ woken \in BOOLEAN /\ mounted \in BOOLEAN /\ missed \in BOOLEAN
    /\ lazy \in {"none", "running", "done", "refused"}
    /\ signals \in 0 .. MaxSignals

Init ==
    /\ gui \in BOOLEAN /\ foreground \in BOOLEAN
    /\ process = "up" /\ shell = "waiting"
    /\ phase = (IF gui THEN "start" ELSE "connect") /\ attempts = 0
    /\ handler = "none" /\ woken = FALSE
    /\ mounted = FALSE /\ lazy = "none"
    /\ signals = 0 /\ missed = FALSE

----------------------------------------------------------------------------
At(here) == process = "up" /\ phase = here
Goto(there) == phase' = there /\ UNCHANGED <<process, shell>>

\* The process ends; a shell that still waits for it sees how.
End(how) ==
    /\ process' = how
    /\ shell' = IF shell = "waiting" THEN how ELSE shell
    /\ UNCHANGED phase

session == <<handler, woken, mounted, lazy, missed>>
rest == <<gui, foreground, signals>>

----------------------------------------------------------------------------
(* The main task: start *)

HealthCheck ==
    /\ At("connect")
    /\ Goto("login") \/ End("failed")
    /\ UNCHANGED <<attempts, session, rest>>

LoginSucceeds ==
    /\ At("login")
    /\ Goto("start")
    /\ UNCHANGED <<attempts, session, rest>>

\* Fault: the attempts are counted and never limited.
LoginFailsUnlimited ==
    /\ At("login")
    /\ attempts' = attempts + 1
    /\ UNCHANGED <<process, shell, phase, session, rest>>

\* Fault: after the last attempt the count starts again.
LoginFailsRestarting ==
    /\ At("login")
    /\ attempts' = (attempts + 1) % MaxLoginAttempts
    /\ UNCHANGED <<process, shell, phase, session, rest>>

LoginFails ==
    /\ At("login")
    /\ attempts' = attempts + 1
    /\ IF attempts' < MaxLoginAttempts THEN UNCHANGED <<process, shell, phase>> ELSE End("failed")
    /\ UNCHANGED <<session, rest>>

\* Daemonising, logging and the runtime; in the background the shell's process
\* exits with the code of the first child, before anything is mounted.
Start ==
    /\ At("start")
    /\ \/ /\ phase' = IF gui THEN "window" ELSE "mount"
          /\ handler' = IF gui THEN "none" ELSE "spawned"
          /\ shell' = IF foreground THEN "waiting" ELSE "ok"
          /\ UNCHANGED process
       \/ /\ \/ End("failed")
             \/ ~foreground /\ process' = "failed" /\ shell' = "ok" /\ UNCHANGED phase
          /\ UNCHANGED handler
    /\ UNCHANGED <<attempts, woken, mounted, lazy, missed, rest>>

----------------------------------------------------------------------------
(* The main task: run_async *)

Mount ==
    /\ At("mount")
    /\ \/ Goto("mounted") /\ mounted' = TRUE
       \/ End("failed") /\ UNCHANGED mounted
    /\ UNCHANGED <<attempts, handler, woken, lazy, missed, rest>>

\* The first poll of the select! registers the waiter of wait_for_shutdown.
Serve ==
    /\ At("mounted")
    /\ Goto("serving")
    /\ UNCHANGED <<attempts, session, rest>>

\* mount_point.wait(): the session ended, by an unmount from outside or by itself.
SessionEnds ==
    /\ At("serving") /\ ~mounted
    /\ Goto("cleanup") \/ End("failed")
    /\ UNCHANGED <<attempts, session, rest>>

\* wait fails while the file system is still mounted.
SessionFails ==
    /\ At("serving") /\ mounted
    /\ End("failed")
    /\ UNCHANGED <<attempts, session, rest>>

ShutdownReceived ==
    /\ At("serving") /\ woken
    /\ Goto("unmount")
    /\ UNCHANGED <<attempts, session, rest>>

\* fuse3's unmount refuses, for example, while files are open.
Unmount ==
    /\ At("unmount")
    /\ \/ Goto("cleanup") /\ mounted' = FALSE
       \/ Goto("lazy_unmount") /\ UNCHANGED mounted
    /\ UNCHANGED <<attempts, handler, woken, lazy, missed, rest>>

\* Fault: nothing is tried after a failed unmount.
LazyUnmountSkipped ==
    /\ At("lazy_unmount")
    /\ Goto("cleanup")
    /\ UNCHANGED <<attempts, session, rest>>

\* Ok once a command could be spawned, whatever the command does then; an
\* error is logged and changes nothing.
LazyUnmount ==
    /\ At("lazy_unmount")
    /\ Goto("cleanup")
    /\ lazy' \in {"running", "refused"}
    /\ UNCHANGED <<attempts, handler, woken, mounted, missed, rest>>

Exit ==
    /\ At("cleanup")
    /\ End("ok")
    /\ UNCHANGED <<attempts, session, rest>>

----------------------------------------------------------------------------
(* The signal task *)

main == <<process, shell, phase, attempts>>

Listen ==
    /\ process = "up" /\ handler = "spawned"
    /\ handler' = "listening"
    /\ UNCHANGED <<main, woken, mounted, lazy, missed, rest>>

\* Fault: the waiter is not woken.
NotifyNobody ==
    /\ process = "up" /\ handler = "signalled"
    /\ handler' = "done"
    /\ missed' = (phase # "serving")
    /\ UNCHANGED <<main, woken, mounted, lazy, rest>>

\* notify_waiters reaches the waiters of this moment and stores nothing.
Notify ==
    /\ process = "up" /\ handler = "signalled"
    /\ handler' = "done"
    /\ woken' = (phase = "serving")
    /\ missed' = (phase # "serving")
    /\ UNCHANGED <<main, mounted, lazy, rest>>

----------------------------------------------------------------------------
(* The world *)

\* A signal kills the process until the handlers are registered; the first one
\* after that goes to the signal task, the others go nowhere.
Signal ==
    /\ process = "up" /\ signals < MaxSignals
    /\ signals' = signals + 1
    /\ CASE handler \in {"none", "spawned"} -> End("killed") /\ UNCHANGED handler
         [] handler = "listening" -> handler' = "signalled" /\ UNCHANGED <<process, shell, phase>>
         [] OTHER -> UNCHANGED <<process, shell, phase, handler>>
    /\ UNCHANGED <<gui, foreground, attempts, woken, mounted, lazy, missed>>

ExternalUnmount ==
    /\ mounted
    /\ mounted' = FALSE
    /\ UNCHANGED <<main, handler, woken, lazy, missed, rest>>

\* The umount command, which outlives the process, unmounts or is refused.
LazyUnmountRuns ==
    /\ lazy = "running"
    /\ \/ lazy' = "done" /\ mounted' = FALSE
       \/ lazy' = "refused" /\ UNCHANGED mounted
    /\ UNCHANGED <<main, handler, woken, missed, rest>>

----------------------------------------------------------------------------
Main ==
    \/ HealthCheck \/ LoginSucceeds \/ LoginFails \/ Start
    \/ Mount \/ Serve \/ SessionEnds \/ ShutdownReceived \/ Unmount \/ LazyUnmount \/ Exit

SignalTask == Listen \/ Notify

Next ==
    \/ Main \/ SignalTask \/ LazyUnmountRuns
    \/ SessionFails \/ Signal \/ ExternalUnmount

\* Both tasks are polled until they end: the server answers or the request
\* times out, the user types, and fuse3 and umount return.  Nobody has to send
\* a signal or to unmount, and no session has to fail.
Fairness == WF_vars(Main) /\ WF_vars(SignalTask) /\ WF_vars(LazyUnmountRuns)

Spec == Init /\ [][Next]_vars /\ Fairness

----------------------------------------------------------------------------
(* Properties *)

\* client/src/daemon.rs:157 "Handles Unix signals for graceful shutdown
\* (SIGTERM, SIGINT, SIGHUP)": after a signal the process ends, unless the
\* signal came between the registration of the handlers and that of the waiter.
TimelySignalsStop == (handler = "signalled" /\ phase = "serving") ~> (process # "up")

\* tests/signals.rs "Daemon exited but mount point is still active (Zombie)":
\* when a process that shut down in order has exited, the mount is gone in the
\* end, or a lazy unmount was tried and refused.
LeavesNoMount == (process = "ok") ~> (~mounted \/ lazy = "refused")

\* A start concludes, with a mount, a window or an exit, whatever the logins, the server
\* and fuse3 answer: perform_login gives up after MAX_LOGIN_ATTEMPTS.
StartConcludes == <>(process # "up" \/ phase \in {"serving", "window"})

============================================================================
