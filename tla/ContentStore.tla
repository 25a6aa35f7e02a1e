---------------------------- MODULE ContentStore ----------------------------
(***************************************************************************)
(* What a repository is to whoever reads it: a graph of objects that only  *)
(* grows and is closed at every moment, and refs that name objects of it.  *)
(* Everything that writes to a repository, local commands and transfers    *)
(* alike, is meant to look like this from outside.                         *)
(***************************************************************************)
CONSTANTS Refs,       \* the branches, and HEAD where it is detached
          NoObject    \* what a ref that does not exist names

VARIABLES names,      \* stored object -> the objects it names
          tip         \* ref -> stored object, or NoObject

Stored == DOMAIN names
Closed == \A o \in Stored : names[o] \subseteq Stored
Named(ref) == tip[ref] \in Stored \cup {NoObject}

Init == Closed /\ \A ref \in Refs : Named(ref)

\* Objects are content addressed: none goes, none changes.
Grow == \A o \in Stored : o \in Stored' /\ names'[o] = names[o]

\* At most one ref moves in a step, to an object that is there or away.
Move == \A ref \in Refs : tip'[ref] # tip[ref] =>
            /\ Named(ref)'
            /\ \A other \in Refs \ {ref} : tip'[other] = tip[other]

Next == Grow /\ Closed' /\ Move

Spec == Init /\ [][Next]_<<names, tip>>

\* A step of the specification, for a state with several stores.
Step == UNCHANGED <<names, tip>> \/ Next
=============================================================================
