---------------------------- MODULE InstalledCore ----------------------------
(***************************************************************************)
(* What the loader of custom cores promises to whoever runs `rw-core':     *)
(* there always is a core, and it changes in one step, from what it was to *)
(* the one asked for.  Somebody who asked is not kept waiting for ever;    *)
(* he may be given up on, and then the old core stays.                     *)
(***************************************************************************)
CONSTANTS
    Choices,    \* the cores that may be asked for
    Nothing,    \* none of them
    First       \* the one of them the image contains

VARIABLES
    runs,     \* the core
    asked     \* the core asked for, or Nothing

Init == runs = First /\ asked = Nothing

Ask == asked = Nothing /\ asked' \in Choices /\ UNCHANGED runs

Install ==
    /\ asked # Nothing
    /\ runs' = asked
    /\ UNCHANGED asked

Leave == asked # Nothing /\ asked' = Nothing /\ UNCHANGED runs

Next == Ask \/ Install \/ Leave

Spec == Init /\ [][Next]_<<runs, asked>> /\ WF_<<runs, asked>>(Leave)
=============================================================================
