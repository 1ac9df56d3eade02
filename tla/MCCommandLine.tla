--------------------------- MODULE MCCommandLine ---------------------------
(***************************************************************************)
(* The command line with three commands, the second of which begins with   *)
(* the name of the first, and texts with each of them, with an empty line, *)
(* with a word that only begins like a command, and with a line that is    *)
(* cut and has a parameter nobody takes.                                   *)
(***************************************************************************)
EXTENDS CommandLine

Letters == {"h", "i", "x", "_", "r", "n", "0"}

AllCommands == << [name |-> << "h" >>, parameters |-> 0],
                  [name |-> << "h", "i" >>, parameters |-> 0],
                  [name |-> << "x" >>, parameters |-> 0] >>

Lines == { << "h", "n", "x", "n" >>, << "h", "i", "r", "n" >>, << "x", "x", "n" >>,
           << "h", "_", "x", "x", "n" >> }
=============================================================================
