----------------------------- MODULE CommandLine -----------------------------
(***************************************************************************)
(* What the modes of the program have in common: main runs one of them and  *)
(* the process ends with its exit status.                                  *)
(***************************************************************************)
EXTENDS Integers

CONSTANTS
    None,  \* no value
    Modes  \* the modes the program may be started in

VARIABLES
    mode,  \* which option was given
    exit   \* the exit status, or Running

Running == -1
Success == 0
Failure == 1
Terminated == 134  \* an exception that nothing catches
=============================================================================
