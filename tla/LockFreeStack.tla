---------------------------- MODULE LockFreeStack ----------------------------
(***************************************************************************)
(* LockFree::Stack<T> (include/lockfree/Stack.hpp): nodes that are either  *)
(* on the list of free nodes or on the list of pushed ones, each list with *)
(* a head word that is swapped by a weak CAS.  A word is the index of a    *)
(* node in its low bits and a tag above them, here a pair; the tag grows   *)
(* whenever a word becomes the head because the node above it left, and    *)
(* when a popped node is given back, so that a head that was read before   *)
(* is not taken for the one that is there now.                             *)
(*                                                                         *)
(* One action per atomic access.  The tag is unbounded here; in the code   *)
(* it has the bits of a size_t that the index leaves.                      *)
(***************************************************************************)
EXTENDS Integers, Sequences

CONSTANTS Procs,      \* the threads that call the stack
          Data,       \* the elements
          NoData,     \* not an element
          Capacity,   \* number of nodes
          MaxTag      \* bound: no push starts once the free head has this tag

ASSUME CapacityAssumption == Capacity \in Nat \ {0}
ASSUME DataAssumption == NoData \notin Data
ASSUME BoundAssumption == MaxTag \in Nat

VARIABLES free,       \* _abaFree
          pushed,     \* _abaPushed
          nextFree,   \* Node::abaNextFree
          nextPushed, \* Node::abaNextPushed
          nodeData,   \* Node::data
          pc,         \* where each thread is
          word,       \* abaFree in push, abaPushed in pop: the node in hand
          next,       \* the word read last: of the node in hand, or of a head
          item        \* the argument of push, the result of pop

vars == <<free, pushed, nextFree, nextPushed, nodeData, pc, word, next, item>>

Nodes == 1 .. Capacity
Words == (0 .. Capacity) \X Nat

(* word & _indexMask, and word + _abaOffset *)
Node(w) == w[1]
Bump(w) == <<w[1], w[2] + 1>>
Null == <<0, 0>>

PushPcs == {"pushNext", "pushTake", "pushWrite", "pushHead", "pushLink", "pushCas"}
PopPcs  == {"popNext", "popTake", "popRead", "popHead", "popLink", "popCas"}

Init == /\ free = <<1, 0>>
        /\ pushed = Null
        /\ nextFree = [n \in Nodes |-> IF n = Capacity THEN Null ELSE <<n + 1, 0>>]
        /\ nextPushed = [n \in Nodes |-> Null]
        /\ nodeData = [n \in Nodes |-> NoData]
        /\ pc = [p \in Procs |-> "idle"]
        /\ word = [p \in Procs |-> Null]
        /\ next = [p \in Procs |-> Null]
        /\ item = [p \in Procs |-> NoData]

Goto(p, l) == pc' = [pc EXCEPT ![p] = l]
Return(p) == /\ Goto(p, "idle")
             /\ word' = [word EXCEPT ![p] = Null]
             /\ next' = [next EXCEPT ![p] = Null]
             /\ item' = [item EXCEPT ![p] = NoData]

Forget(p) == next' = [next EXCEPT ![p] = Null]

heads == <<free, pushed>>
nodes == <<nextFree, nextPushed, nodeData>>
-----------------------------------------------------------------------------
(* push *)

Push(p, d) == /\ pc[p] = "idle"
              /\ free[2] < MaxTag
              /\ Node(free) # 0
              /\ word' = [word EXCEPT ![p] = free]
              /\ item' = [item EXCEPT ![p] = d]
              /\ Goto(p, "pushNext")
              /\ UNCHANGED <<heads, nodes, next>>

PushNext(p) == /\ pc[p] = "pushNext"
               /\ next' = [next EXCEPT ![p] = nextFree[Node(word[p])]]
               /\ Goto(p, "pushTake")
               /\ UNCHANGED <<heads, nodes, word, item>>

(* Fault: only the index of the head is compared. *)
PushTake_NoTag(p) ==
    /\ pc[p] = "pushTake"
    /\ Node(free) = Node(word[p])
    /\ free' = Bump(next[p])
    /\ Forget(p)
    /\ Goto(p, "pushWrite")
    /\ UNCHANGED <<pushed, nodes, word, item>>

PushTake(p) == /\ pc[p] = "pushTake"
               /\ free = word[p]
               /\ free' = Bump(next[p])
               /\ Forget(p)
               /\ Goto(p, "pushWrite")
               /\ UNCHANGED <<pushed, nodes, word, item>>

(* The CAS fails, spuriously too, and the loop reads the head again: the    *)
(* push goes on, or gives up because no node is left.                       *)
PushRetry(p) == /\ pc[p] = "pushTake"
                /\ Node(free) # 0
                /\ word' = [word EXCEPT ![p] = free]
                /\ Forget(p)
                /\ Goto(p, "pushNext")
                /\ UNCHANGED <<heads, nodes, item>>

PushGivesUp(p) == /\ pc[p] = "pushTake"
                  /\ Node(free) = 0
                  /\ Return(p)
                  /\ UNCHANGED <<heads, nodes>>

PushWrite(p) == /\ pc[p] = "pushWrite"
                /\ nodeData' = [nodeData EXCEPT ![Node(word[p])] = item[p]]
                /\ Goto(p, "pushHead")
                /\ UNCHANGED <<heads, nextFree, nextPushed, word, next, item>>

PushHead(p) == /\ pc[p] = "pushHead"
               /\ next' = [next EXCEPT ![p] = pushed]
               /\ Goto(p, "pushLink")
               /\ UNCHANGED <<heads, nodes, word, item>>

PushLink(p) == /\ pc[p] = "pushLink"
               /\ nextPushed' = [nextPushed EXCEPT ![Node(word[p])] = next[p]]
               /\ Goto(p, "pushCas")
               /\ UNCHANGED <<heads, nextFree, nodeData, word, next, item>>

PushCas(p) == /\ pc[p] = "pushCas"
              /\ pushed = next[p]
              /\ pushed' = word[p]
              /\ Return(p)
              /\ UNCHANGED <<free, nodes>>

PushCasFails(p) == /\ pc[p] = "pushCas"
                   /\ Forget(p)
                   /\ Goto(p, "pushHead")
                   /\ UNCHANGED <<heads, nodes, word, item>>
-----------------------------------------------------------------------------
(* pop: the same with the lists exchanged *)

Pop(p) == /\ pc[p] = "idle"
          /\ Node(pushed) # 0
          /\ word' = [word EXCEPT ![p] = pushed]
          /\ Goto(p, "popNext")
          /\ UNCHANGED <<heads, nodes, next, item>>

PopNext(p) == /\ pc[p] = "popNext"
              /\ next' = [next EXCEPT ![p] = nextPushed[Node(word[p])]]
              /\ Goto(p, "popTake")
              /\ UNCHANGED <<heads, nodes, word, item>>

PopTake(p) == /\ pc[p] = "popTake"
              /\ pushed = word[p]
              /\ pushed' = Bump(next[p])
              /\ Forget(p)
              /\ Goto(p, "popRead")
              /\ UNCHANGED <<free, nodes, word, item>>

PopRetry(p) == /\ pc[p] = "popTake"
               /\ Node(pushed) # 0
               /\ word' = [word EXCEPT ![p] = pushed]
               /\ Forget(p)
               /\ Goto(p, "popNext")
               /\ UNCHANGED <<heads, nodes, item>>

PopGivesUp(p) == /\ pc[p] = "popTake"
                 /\ Node(pushed) = 0
                 /\ Return(p)
                 /\ UNCHANGED <<heads, nodes>>

(* Fault: the node goes back to the free list with the word it was taken by. *)
PopRead_SameTag(p) ==
    /\ pc[p] = "popRead"
    /\ item' = [item EXCEPT ![p] = nodeData[Node(word[p])]]
    /\ nodeData' = [nodeData EXCEPT ![Node(word[p])] = NoData]
    /\ Goto(p, "popHead")
    /\ UNCHANGED <<heads, nextFree, nextPushed, word, next>>

(* The element is copied and destroyed, and the tag of the node grows. *)
PopRead(p) == /\ pc[p] = "popRead"
              /\ item' = [item EXCEPT ![p] = nodeData[Node(word[p])]]
              /\ nodeData' = [nodeData EXCEPT ![Node(word[p])] = NoData]
              /\ word' = [word EXCEPT ![p] = Bump(word[p])]
              /\ Goto(p, "popHead")
              /\ UNCHANGED <<heads, nextFree, nextPushed, next>>

PopHead(p) == /\ pc[p] = "popHead"
              /\ next' = [next EXCEPT ![p] = free]
              /\ Goto(p, "popLink")
              /\ UNCHANGED <<heads, nodes, word, item>>

PopLink(p) == /\ pc[p] = "popLink"
              /\ nextFree' = [nextFree EXCEPT ![Node(word[p])] = next[p]]
              /\ Goto(p, "popCas")
              /\ UNCHANGED <<heads, nextPushed, nodeData, word, next, item>>

PopCas(p) == /\ pc[p] = "popCas"
             /\ free = next[p]
             /\ free' = word[p]
             /\ Return(p)
             /\ UNCHANGED <<pushed, nodes>>

PopCasFails(p) == /\ pc[p] = "popCas"
                  /\ Forget(p)
                  /\ Goto(p, "popHead")
                  /\ UNCHANGED <<heads, nodes, word, item>>
-----------------------------------------------------------------------------
PushStep(p) == \/ \E d \in Data : Push(p, d)
               \/ PushNext(p) \/ PushTake(p) \/ PushRetry(p) \/ PushGivesUp(p)
               \/ PushWrite(p) \/ PushHead(p) \/ PushLink(p)
               \/ PushCas(p) \/ PushCasFails(p)

PopStep(p) == \/ Pop(p)
              \/ PopNext(p) \/ PopTake(p) \/ PopRetry(p) \/ PopGivesUp(p)
              \/ PopRead(p) \/ PopHead(p) \/ PopLink(p)
              \/ PopCas(p) \/ PopCasFails(p)

Next == \E p \in Procs : PushStep(p) \/ PopStep(p)

Spec == Init /\ [][Next]_vars
-----------------------------------------------------------------------------
(* Every variable keeps its type: words of known nodes, and the position    *)
(* and locals of each thread inside push and pop.                           *)
TypeOK == /\ free \in Words
          /\ pushed \in Words
          /\ nextFree \in [Nodes -> Words]
          /\ nextPushed \in [Nodes -> Words]
          /\ nodeData \in [Nodes -> Data \cup {NoData}]
          /\ pc \in [Procs -> {"idle"} \cup PushPcs \cup PopPcs]
          /\ word \in [Procs -> Words]
          /\ next \in [Procs -> Words]
          /\ item \in [Procs -> Data \cup {NoData}]

(* The threads that own the node in their hand: it has left one list and is *)
(* not yet on the other.                                                    *)
Holders == {p \in Procs : pc[p] \in {"pushWrite", "pushHead", "pushLink", "pushCas",
                                     "popRead", "popHead", "popLink", "popCas"}}

(* s is the list that starts with the word head: the word at each place      *)
(* names the node there, and the one after the last names none.             *)
Lists == UNION {[1 .. k -> Nodes] : k \in 0 .. Capacity}
WordAt(s, head, following, i) == IF i = 1 THEN head ELSE following[s[i - 1]]
IsList(s, head, following) ==
    /\ \A i \in 1 .. Len(s) : Node(WordAt(s, head, following, i)) = s[i]
    /\ Node(WordAt(s, head, following, Len(s) + 1)) = 0

(* Each node is in one place: once on the free list, once on the list of    *)
(* pushed nodes, or in the hand of one thread.  No element is lost, none is *)
(* overwritten, and the plain accesses to Node::data do not race.           *)
OnePlace ==
    /\ \E f, p \in Lists :
          /\ IsList(f, free, nextFree) /\ IsList(p, pushed, nextPushed)
          /\ LET places == f \o p
             IN  /\ \A i, j \in 1 .. Len(places) : places[i] = places[j] => i = j
                 /\ \A n \in Nodes : (\E i \in 1 .. Len(places) : places[i] = n)
                                         <=> ~ \E q \in Holders : Node(word[q]) = n
    /\ \A q, r \in Holders : Node(word[q]) = Node(word[r]) => q = r

(* A CAS that would succeed installs what the list really holds below its   *)
(* head, however long ago the thread read it: the tag tells a node that     *)
(* left and came back from one that stayed.                                 *)
NoStaleNext ==
    \A p \in Procs :
        /\ pc[p] = "pushTake" /\ free = word[p]   => nextFree[Node(free)] = next[p]
        /\ pc[p] = "popTake"  /\ pushed = word[p] => nextPushed[Node(pushed)] = next[p]

(* The words, the lists and what the threads have read agree. *)
LinksSound == TypeOK /\ OnePlace /\ NoStaleNext
-----------------------------------------------------------------------------
Taken(p) == CASE pc[p] = "popRead" -> nodeData[Node(word[p])]
              [] pc[p] \in {"popHead", "popLink", "popCas"} -> item[p]
              [] OTHER -> NoData

(* The pushed nodes, the newest first. *)
PushedList == CHOOSE s \in Lists : IsList(s, pushed, nextPushed)

Lifo == INSTANCE BoundedLifo WITH
            stack <- [i \in 1 .. Len(PushedList) |-> nodeData[PushedList[i]]],
            out   <- [p \in Procs |-> Taken(p)]

(* The two lists are a bounded stack: a push takes effect at its last CAS, a *)
(* pop at its first, and what a pop takes is what was pushed last.           *)
ImplementsLifo == Lifo!Spec
=============================================================================
