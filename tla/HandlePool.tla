------------------------------ MODULE HandlePool ------------------------------
(***************************************************************************)
(* What PersistentList<T> promises its owner: a pool of objects named by   *)
(* handles, where a live handle names one object until it is freed and no  *)
(* allocation gives out a handle that is still live.                       *)
(***************************************************************************)
EXTENDS Naturals

CONSTANTS Handles,        \* the names a pool can give out
          Objects         \* what it stores

VARIABLE live             \* the live handles, each with its object

vars == <<live>>

Init == live = <<>>

Alloc(h, o) == /\ h \notin DOMAIN live
               /\ live' = [g \in DOMAIN live \cup {h} |->
                             IF g = h THEN o ELSE live[g]]

Free(h) == /\ h \in DOMAIN live
           /\ live' = [g \in DOMAIN live \ {h} |-> live[g]]

Clear == live' = <<>>

Next == \/ \E h \in Handles, o \in Objects : Alloc(h, o)
        \/ \E h \in DOMAIN live : Free(h)
        \/ Clear

Spec == Init /\ [][Next]_vars
=============================================================================
