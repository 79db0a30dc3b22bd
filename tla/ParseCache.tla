----------------------------- MODULE ParseCache -----------------------------
(***************************************************************************)
(* What the parse cache of content objects promises its users.            *)
(*                                                                         *)
(* Every live content object has either no parse yet or exactly one, and  *)
(* once it has one it keeps that very parse until the object dies.  This  *)
(* is what lets a handler fetch the parse once and keep using the pointer *)
(* across later calls, including calls that run Python code.               *)
(***************************************************************************)
CONSTANTS
    Capsules,   \* the objects that can be content objects
    Parses,     \* the identities a parse can have
    NULL        \* no parse

VARIABLES
    alive,      \* the content objects that exist
    parse       \* parse[c]: the parse of c, or NULL

Init ==
    /\ alive \subseteq Capsules
    /\ parse = [c \in Capsules |-> NULL]

\* The ways one object may change in a step.  A step is one command of the
\* program, so several objects may change in it, each in one of these ways.
Keep(c) == (c \in alive') = (c \in alive) /\ parse'[c] = parse[c]
Fill(c) == c \in alive /\ c \in alive' /\ parse[c] = NULL /\ parse'[c] \in Parses
Born(c) == c \notin alive /\ c \in alive' /\ parse[c] = NULL
Die(c)  == c \in alive /\ c \notin alive' /\ parse'[c] = NULL

Next ==
    /\ alive' \subseteq Capsules
    /\ parse' \in [Capsules -> Parses \cup {NULL}]
    /\ \A c \in Capsules : Keep(c) \/ Fill(c) \/ Born(c) \/ Die(c)

Spec == Init /\ [][Next]_<<alive, parse>>

=============================================================================
