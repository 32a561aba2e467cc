----------------------------- MODULE AllObjects -----------------------------
(***************************************************************************)
(* What the global all-objects list of the collector (m_all_objects in    *)
(* src/unnamed/part_002) promises, stated over the SET of objects it      *)
(* links rather than over its next pointers: gc_new links one object that *)
(* was not in it, sweep unlinks one object that was, and the objects that *)
(* exist at boot (the runtime roots) are never unlinked.                  *)
(***************************************************************************)
CONSTANTS Objects,  \* every heap slot
          Boot      \* objects linked before the collector starts

VARIABLE objects    \* the objects reachable from the list head

Init == objects = Boot

\* gc_new publishes one new object
Link(o) ==
  /\ o \notin objects
  /\ objects' = objects \cup {o}

\* sweep frees one object; a runtime root is never freed
Unlink(o) ==
  /\ o \in objects \ Boot
  /\ objects' = objects \ {o}

Next == \E o \in Objects : Link(o) \/ Unlink(o)

Spec == Init /\ [][Next]_objects
=============================================================================
