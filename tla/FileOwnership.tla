---------------------------- MODULE FileOwnership ----------------------------
(***************************************************************************)
(* What the FILE handles of util.c promise the binding's callers.          *)
(*                                                                         *)
(* A handle is an owner of its own: it is bound to the open file it was   *)
(* made from and stays bound to it until the handle itself is closed,     *)
(* whatever the Python program does with its files meanwhile.  A handle   *)
(* can only be made from a file that is open (through a Python file or    *)
(* through another handle), and a Python file is opened and closed        *)
(* without touching any handle.  Opening may always fail, which changes    *)
(* nothing.                                                                *)
(***************************************************************************)
CONSTANTS
    PyFiles,    \* the Python file objects, naming the files they open
    Handles,    \* the FILE handles the binding can have at once
    InitOpen,   \* the Python files open at the start
    Closed      \* an unbound handle

VARIABLES
    open,       \* the Python files that are open
    bound       \* bound[h]: the file h writes to, or Closed

Init ==
    /\ open = InitOpen
    /\ bound = [h \in Handles |-> Closed]

\* Files a new handle can be made from: open through an owner.
Reachable == (open \cup {bound[h] : h \in Handles}) \ {Closed}

OpenHandle(h, f) ==
    /\ bound[h] = Closed /\ f \in Reachable
    /\ bound' = [bound EXCEPT ![h] = f]
    /\ UNCHANGED open

CloseHandle(h) ==
    /\ bound[h] # Closed
    /\ bound' = [bound EXCEPT ![h] = Closed]
    /\ UNCHANGED open

PyOpen(p) == p \notin open /\ open' = open \cup {p} /\ UNCHANGED bound

PyClose(p) == p \in open /\ open' = open \ {p} /\ UNCHANGED bound

Next ==
    \/ \E h \in Handles, f \in PyFiles : OpenHandle(h, f)
    \/ \E h \in Handles : CloseHandle(h)
    \/ \E p \in PyFiles : PyOpen(p) \/ PyClose(p)

Spec == Init /\ [][Next]_<<open, bound>>

=============================================================================
