---------------------------- MODULE PersistentList ----------------------------
(***************************************************************************)
(* PersistentList<T> (include/PersistentList.hpp): the pool behind the     *)
(* workers of the App, the events of a Worker, the timeouts of an Env and  *)
(* the windows.  Nodes never move and are never returned to the heap       *)
(* before clear(); a freed node waits on the stack free_ and the next      *)
(* alloc reuses it.                                                        *)
(*                                                                         *)
(* free(index) does not look at isFree, so the class relies on its callers *)
(* to free by index only what is live; free(pointer) tolerates a pointer   *)
(* to a node that is already free.  The address of a node's data stands    *)
(* for its index: each node allocates its own.                             *)
(***************************************************************************)
EXTENDS Integers, Sequences, FiniteSets

CONSTANTS Objects,        \* the values stored
          NoObject,       \* a node whose object has been destroyed
          MaxNodes        \* bound: no alloc beyond this many nodes

ASSUME NoObjectAssumption == NoObject \notin Objects
ASSUME MaxNodesAssumption == MaxNodes \in Nat

VARIABLES data,           \* data[i] is Node::data of list_[i]
          isFree,         \* the indices of the nodes whose isFree is set
          freeList,       \* free_: the indices of the free nodes, a stack
          size            \* size_

listVars == <<data, isFree, freeList, size>>

Indices == DOMAIN data
Live == Indices \ isFree

ListInit == data = <<>> /\ isFree = {} /\ freeList = <<>> /\ size = 0

(* Fault: the reused node stays on the free stack. *)
AllocReuse_KeepsFree(o) ==
    /\ freeList # <<>>
    /\ LET i == freeList[Len(freeList)]
       IN  /\ data' = [data EXCEPT ![i] = o]
           /\ isFree' = isFree \ {i}
    /\ size' = size + 1
    /\ UNCHANGED freeList

(* alloc takes the node that was freed last ... *)
AllocReuse(o) ==
    /\ freeList # <<>>
    /\ LET i == freeList[Len(freeList)]
       IN  /\ data' = [data EXCEPT ![i] = o]
           /\ isFree' = isFree \ {i}
    /\ freeList' = SubSeq(freeList, 1, Len(freeList) - 1)
    /\ size' = size + 1

(* ... and grows the list when there is none. *)
AllocAppend(o) ==
    /\ freeList = <<>>
    /\ \E n \in 0 .. MaxNodes - 1 :
          /\ Indices = 0 .. n - 1
          /\ data' = [j \in 0 .. n |-> IF j = n THEN o ELSE data[j]]
    /\ size' = size + 1
    /\ UNCHANGED <<isFree, freeList>>

Release(i) ==
    /\ isFree' = isFree \cup {i}
    /\ data' = [data EXCEPT ![i] = NoObject]
    /\ freeList' = Append(freeList, i)
    /\ size' = size - 1

(* free(index), which looks at the range of the index only. *)
FreeIndex(i) == IF i \in Indices THEN Release(i) ELSE UNCHANGED listVars

(* Fault: a node that is already free is freed again. *)
FreePointer_Unchecked(i) == i \in Indices /\ Release(i)

(* free(pointer), with any pointer into a node, live or not. *)
FreePointer(i) ==
    /\ i \in Indices
    /\ IF i \in isFree THEN UNCHANGED listVars ELSE Release(i)

Clear == data' = <<>> /\ isFree' = {} /\ freeList' = <<>> /\ size' = 0

(* What the callers free by index is live or out of range, never free:       *)
(* EventAllocator::remove once for each event, App::destroyWorker after a    *)
(* successful terminate, Env::resolveTimeout and WindowManager::destroy for  *)
(* what they have just found.                                                *)
FreedByIndex == (0 .. MaxNodes) \ isFree

ListNext == \/ \E o \in Objects : AllocReuse(o) \/ AllocAppend(o)
            \/ \E i \in FreedByIndex : FreeIndex(i)
            \/ \E i \in Indices : FreePointer(i)
            \/ Clear

ListSpec == ListInit /\ [][ListNext]_listVars
-----------------------------------------------------------------------------
(* The list, its free marks, the stack of free indices and the size field   *)
(* keep their shape.                                                        *)
ListTypeOK ==
    /\ \E n \in 0 .. MaxNodes : data \in [0 .. n - 1 -> Objects \cup {NoObject}]
    /\ isFree \in SUBSET Indices
    /\ freeList \in Seq(Nat)
    /\ size \in Int

(* free_ lists exactly the free nodes, each once: the same node is never    *)
(* given to two owners.                                                     *)
FreeListExact ==
    /\ \A k \in 1 .. Len(freeList) : freeList[k] \in isFree
    /\ \A k, l \in 1 .. Len(freeList) : freeList[k] = freeList[l] => k = l
    /\ \A i \in isFree : \E k \in 1 .. Len(freeList) : freeList[k] = i

(* size(), which App::emitEvent takes for the number of workers that will   *)
(* process an event, is the number of nodes that forEach visits.            *)
SizeIsLive == size = Cardinality(Live)

(* The four fields describe one list of nodes, whatever is allocated, freed  *)
(* by index or by pointer, or cleared.                                       *)
ListSound == ListTypeOK /\ FreeListExact /\ SizeIsLive

Pool == INSTANCE HandlePool WITH
            Handles <- 0 .. MaxNodes - 1,
            live    <- [i \in Live |-> data[i]]

(* The list with its stack of free nodes is a pool of handles: alloc never  *)
(* returns a live handle, and freeing one leaves every other object alone.  *)
ImplementsPool == Pool!Spec
=============================================================================
