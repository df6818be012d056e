------------------------------ MODULE NodeMap -------------------------------
(***************************************************************************)
(* What the daemon promises the kernel about inode numbers.                 *)
(*                                                                          *)
(* A number is bound to a file of the server when the file is first met,    *)
(* and stays bound to it; two files never share a number and a file never   *)
(* has two.  Every entry shown to the kernel is a bound pair.               *)
(***************************************************************************)
CONSTANTS Id, Object

VARIABLES
    binding,    \* the set of <<object, number>> pairs bound so far
    shown       \* the pairs the kernel was told about

Fresh(o, i) ==
    \A b \in binding : b[1] # o /\ b[2] # i

(* Meet file o, under number i, and show the pair to the kernel or not.     *)
Answer(o, i) ==
    /\ <<o, i>> \in binding \/ Fresh(o, i)
    /\ binding' = binding \cup {<<o, i>>}
    /\ shown' \in {shown, shown \cup {<<o, i>>}}

Init ==
    /\ binding = {}
    /\ shown = {}

Next == \E o \in Object, i \in Id : Answer(o, i)

Spec == Init /\ [][Next]_<<binding, shown>>
=============================================================================
