------------------------------ MODULE MCService ------------------------------
(***************************************************************************)
(* A small instance of Service for TLC.                                    *)
(***************************************************************************)
EXTENDS Service, RecipeInstances

(* A program with a timer and one with a counter, as the wizard builds them. *)
MCOthers == RecipeIds \ {"on_delay", "count_eject"}

(* Three calls, two of them with the same files.  `Own`: each for a project *)
(* of its own, as the server makes them for requests without a name;        *)
(* `Shared`: all for one project at once; `InTurn`: one after the other,    *)
(* one of them forced.  In `Own` and `InTurn` the disk may fail and the     *)
(* process die.                                                             *)
MCCalls == {1, 2, 3}
MCFilesOf == [c \in MCCalls |-> IF c = 2 THEN <<"program.st", "S7.stl">>
                                ELSE <<"program.st", "XGK.il">>]
OneDir == [c \in MCCalls |-> "line1"]
OwnDirs == [c \in MCCalls |-> <<"run-1", "run-2", "run-3">>[c]]
Calling(dir, forced, serial, fails) ==
    [dir |-> dir, forced |-> forced, serial |-> serial, crashes |-> fails, faults |-> fails]
Own == Calling(OwnDirs, MCCalls, FALSE, TRUE)
Shared == Calling(OneDir, MCCalls, FALSE, FALSE)
InTurn == Calling(OneDir, {2}, TRUE, TRUE)
MCSetups == {Own, Shared, InTurn}

(* Four assignments to two coils that read an input or the first coil, in   *)
(* every order, so that both coils can be double at once; and three with a  *)
(* function block call among them.  One per line.                           *)
CONSTANT MCRead
MCAssignments == [lhs: Coils, ins: MCRead]
MCLinesOf(n, statements) ==
    {[i \in 1..n |-> [stmts |-> <<s[i]>>, comment |-> FALSE]] : s \in [1..n -> statements]}
MCLines == MCLinesOf(4, MCAssignments)
             \cup MCLinesOf(3, MCAssignments \cup {[lhs |-> None, ins |-> {}]})
MCHints == Coils \X (1..4)
MCLetters == [INPUT |-> "P", OUTPUT |-> "P", INTERNAL |-> "M", TIMER |-> "T", COUNTER |-> "C"]
=============================================================================
