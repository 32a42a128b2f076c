--------------------------------- MODULE MCGui ---------------------------------
(* Values of the constants of Gui for TLC. *)
EXTENDS Gui

Within(buttons, n, k, patient) == [buttons |-> buttons, jobs |-> n, runs |-> k, patient |-> patient]

\* Two mounts of a patient user, with unmounts or with settings changed before
\* and between them, and a user who does not wait.
SomeScopes ==
    {Within({"login", "mount", "unmount"}, 1, 2, TRUE),
     Within({"login", "change", "restore", "mount"}, 1, 2, TRUE),
     Within({"login", "retry", "logout", "mount", "unmount"}, 2, 1, FALSE)}
================================================================================
