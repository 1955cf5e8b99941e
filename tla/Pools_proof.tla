------------------------------ MODULE Pools_proof ------------------------------
(***************************************************************************)
(* Proofs about the two pools of nodes, LockFreeStack and PersistentList,  *)
(* which keep their nodes for good and hand them out again.                *)
(*                                                                         *)
(* The first part is about LockFreeStack, for every set of threads, any    *)
(* number of nodes and any number of calls: that a node is in one place    *)
(* although heads are compared long after they were read, and that the two *)
(* lists implement a bounded stack.                                        *)
(*                                                                         *)
(* The second part is about PersistentList, for every history of calls:    *)
(* that its free nodes are listed exactly once, that it counts the live    *)
(* ones, and that it implements a pool of handles.                         *)
(***************************************************************************)
EXTENDS LockFreeStack, PersistentList, FiniteSetTheorems, SequenceTheorems,
        WellFoundedInduction, TLAPS

(* Where a pop has the node with the tag it will come back with. *)
Back == {"popHead", "popLink", "popCas"}

Hand(q) == Node(word[q])
In(n, s) == \E i \in DOMAIN s : s[i] = n

(* s is the list that starts with head, and tag has the tag of each node in *)
(* the word that leads to it.                                               *)
Listed(s, head, following, tag) ==
    /\ s \in Seq(Nodes)
    /\ \A i, j \in DOMAIN s : s[i] = s[j] => i = j
    /\ \A i \in DOMAIN s : WordAt(s, head, following, i) = <<s[i], tag[s[i]]>>
    /\ Node(WordAt(s, head, following, Len(s) + 1)) = 0

(* Each node is on the free list f, on the list p of pushed nodes, or in    *)
(* the hand of one thread.                                                  *)
Placed(f, p, tag) ==
    /\ \A n \in Nodes : ~ (In(n, f) /\ In(n, p))
    /\ \A q \in Holders : /\ Hand(q) \in Nodes /\ ~ In(Hand(q), f) /\ ~ In(Hand(q), p)
                          /\ word[q] = <<Hand(q), tag[Hand(q)]>>
    /\ \A q, r \in Holders : Hand(q) = Hand(r) => q = r
    /\ \A n \in Nodes : In(n, f) \/ In(n, p) \/ \E q \in Holders : Hand(q) = n

(* What a thread that has read a head knows: a node comes back to that head *)
(* only with a greater tag, so that as long as the head is the word it has  *)
(* read, nothing has happened to the node.                                  *)
PushReads(q, tag) ==
    /\ Hand(q) \in Nodes /\ word[q][2] <= tag[Hand(q)]
    /\ word[q][2] = tag[Hand(q)] => \A r \in Holders : Hand(r) = Hand(q) => pc[r] \notin Back
    /\ (pc[q] = "pushTake" /\ free = word[q]) => next[q] = nextFree[Hand(q)]

PopReads(q, f, tag) ==
    /\ Hand(q) \in Nodes /\ word[q][2] <= tag[Hand(q)]
    /\ word[q][2] = tag[Hand(q)] => /\ ~ In(Hand(q), f)
                                    /\ \A r \in Holders : Hand(r) = Hand(q) => pc[r] = "popRead"
    /\ (pc[q] = "popTake" /\ pushed = word[q]) => next[q] = nextPushed[Hand(q)]

Readers(f, tag) ==
    \A q \in Procs : /\ pc[q] \in {"pushNext", "pushTake"} => PushReads(q, tag)
                     /\ pc[q] \in {"popNext", "popTake"} => PopReads(q, f, tag)

(* The elements are in the pushed nodes and in the calls under way, and the *)
(* node in a hand is linked to the head that its thread has read last.      *)
Elements(p) ==
    /\ \A i \in DOMAIN p : nodeData[p[i]] \in Data
    /\ \A q \in Procs :
          /\ pc[q] \in PushPcs \cup Back => item[q] \in Data
          /\ pc[q] \in {"pushHead", "pushLink", "pushCas"} => nodeData[Hand(q)] = item[q]
          /\ pc[q] = "popRead" => nodeData[Hand(q)] \in Data
          /\ pc[q] = "pushCas" => nextPushed[Hand(q)] = next[q]
          /\ pc[q] = "popCas" => nextFree[Hand(q)] = next[q]

Sound(f, p, tag) ==
    /\ tag \in [Nodes -> Nat]
    /\ Listed(f, free, nextFree, tag) /\ Listed(p, pushed, nextPushed, tag)
    /\ Placed(f, p, tag) /\ Readers(f, tag) /\ Elements(p)

IInv == TypeOK /\ \E f, p, tag : Sound(f, p, tag)

-----------------------------------------------------------------------------
(* Facts about lists.                                                       *)
LEMMA ConcatOf ==
    ASSUME NEW S, NEW t \in Seq(S), NEW s \in Seq(S)
    PROVE  /\ t \o s \in Seq(S) /\ Len(t \o s) = Len(t) + Len(s)
           /\ Len(s) \in Nat /\ Len(t) \in Nat
           /\ \A k \in 1 .. Len(t) + Len(s) :
                 (t \o s)[k] = IF k <= Len(t) THEN t[k] ELSE s[k - Len(t)]
OBVIOUS

LEMMA ConsOf ==
    ASSUME NEW S, NEW n \in S, NEW s \in Seq(S)
    PROVE  /\ <<n>> \o s \in Seq(S) /\ Len(<<n>> \o s) = Len(s) + 1 /\ Len(s) \in Nat
           /\ DOMAIN (<<n>> \o s) = 1 .. Len(s) + 1 /\ DOMAIN s = 1 .. Len(s)
           /\ (<<n>> \o s)[1] = n
           /\ \A i \in 1 .. Len(s) : (<<n>> \o s)[i + 1] = s[i]
<1>1. <<n>> \in Seq(S) /\ Len(<<n>>) = 1 /\ <<n>>[1] = n
  OBVIOUS
<1>2. PICK t : t = <<n>>
  OBVIOUS
<1>3. t \in Seq(S) /\ Len(t) = 1 /\ t[1] = n
  BY <1>1, <1>2
<1>4. /\ t \o s \in Seq(S) /\ Len(t \o s) = 1 + Len(s) /\ Len(s) \in Nat
      /\ \A k \in 1 .. 1 + Len(s) : (t \o s)[k] = IF k <= 1 THEN t[k] ELSE s[k - 1]
  <2>1. /\ t \o s \in Seq(S) /\ Len(t \o s) = Len(t) + Len(s)
        /\ Len(s) \in Nat /\ Len(t) \in Nat
        /\ \A k \in 1 .. Len(t) + Len(s) :
              (t \o s)[k] = IF k <= Len(t) THEN t[k] ELSE s[k - Len(t)]
    BY <1>3, ConcatOf
  <2> QED BY <1>3, <2>1
<1>5. \A i \in 1 .. Len(s) : i + 1 \in 1 .. 1 + Len(s) /\ ~ (i + 1 <= 1) /\ (i + 1) - 1 = i
  BY <1>4
<1>6. DOMAIN (t \o s) = 1 .. Len(s) + 1 /\ DOMAIN s = 1 .. Len(s)
  BY <1>4
<1>7. (t \o s)[1] = n
  BY <1>3, <1>4
<1> QED BY <1>2, <1>4, <1>5, <1>6, <1>7

LEMMA RestOf ==
    ASSUME NEW S, NEW s \in Seq(S), s # <<>>
    PROVE  /\ Tail(s) \in Seq(S) /\ Len(Tail(s)) = Len(s) - 1 /\ Len(s) \in Nat \ {0}
           /\ DOMAIN Tail(s) = 1 .. Len(s) - 1 /\ DOMAIN s = 1 .. Len(s) /\ 1 \in DOMAIN s
           /\ \A i \in 1 .. Len(s) - 1 : Tail(s)[i] = s[i + 1]
<1>1. Len(s) \in Nat \ {0} /\ DOMAIN s = 1 .. Len(s)
  OBVIOUS
<1>2. /\ Tail(s) \in Seq(S) /\ Len(Tail(s)) = Len(s) - 1
      /\ \A i \in 1 .. Len(s) - 1 : Tail(s)[i] = s[i + 1]
  OBVIOUS
<1>3. DOMAIN Tail(s) = 1 .. Len(s) - 1
  BY <1>1, <1>2
<1> QED BY <1>1, <1>2, <1>3

(* A word that names a node heads a list with that node.                    *)
LEMMA HeadOf ==
    ASSUME NEW s, NEW head, NEW following, NEW tag, Listed(s, head, following, tag),
           Node(head) # 0
    PROVE  /\ s # <<>> /\ 1 \in DOMAIN s /\ s[1] = Node(head) /\ s[1] \in Nodes
           /\ head = <<s[1], tag[s[1]]>>
<1>1. s \in Seq(Nodes) /\ Node(WordAt(s, head, following, Len(s) + 1)) = 0
  BY DEF Listed
<1>2. s # <<>>
  <2> SUFFICES ASSUME s = <<>> PROVE FALSE
    OBVIOUS
  <2>1. Len(s) + 1 = 1
    OBVIOUS
  <2> QED BY <1>1, <2>1 DEF WordAt
<1>3. 1 \in DOMAIN s /\ s[1] \in Nodes
  BY <1>1, <1>2
<1>4. head = <<s[1], tag[s[1]]>>
  BY <1>3 DEF Listed, WordAt
<1> QED BY <1>2, <1>3, <1>4 DEF Node

(* A list is not disturbed by what happens to other nodes.                  *)
LEMMA ListStays ==
    ASSUME NEW s, NEW head, NEW fo, NEW tag, Listed(s, head, fo, tag),
           NEW fo2, NEW tag2, \A n \in Nodes : In(n, s) => fo2[n] = fo[n] /\ tag2[n] = tag[n]
    PROVE  Listed(s, head, fo2, tag2)
<1>1. /\ s \in Seq(Nodes) /\ Len(s) \in Nat /\ DOMAIN s = 1 .. Len(s)
      /\ \A i \in DOMAIN s : s[i] \in Nodes
  BY DEF Listed
<1>2. \A i \in DOMAIN s : fo2[s[i]] = fo[s[i]] /\ tag2[s[i]] = tag[s[i]]
  BY <1>1 DEF In
<1>3. \A i \in 1 .. Len(s) + 1 : WordAt(s, head, fo2, i) = WordAt(s, head, fo, i)
  <2> SUFFICES ASSUME NEW i \in 1 .. Len(s) + 1, i # 1 PROVE fo2[s[i - 1]] = fo[s[i - 1]]
    BY DEF WordAt
  <2>1. i - 1 \in DOMAIN s
    BY <1>1
  <2> QED BY <1>2, <2>1
<1>4. \A i \in DOMAIN s : i \in 1 .. Len(s) + 1
  BY <1>1
<1>5. Len(s) + 1 \in 1 .. Len(s) + 1
  BY <1>1
<1> QED BY <1>2, <1>3, <1>4, <1>5 DEF Listed

(* The first node leaves its list; the tag of the next one grows.           *)
Grown(tag, n) == [m \in Nodes |-> IF m = n THEN tag[m] + 1 ELSE tag[m]]

FirstTaken(s, head, fo, tag) ==
    LET h == Node(head)
        x == fo[h]
    IN  /\ Listed(Tail(s), Bump(x), fo, Grown(tag, Node(x)))
        /\ Tail(s) \in Seq(Nodes)
        /\ \A n \in Nodes : In(n, Tail(s)) <=> In(n, s) /\ n # h
        /\ Node(x) # 0 => In(Node(x), Tail(s)) /\ Node(x) \in Nodes /\ x[2] = tag[Node(x)]

LEMMA ListTaken ==
    ASSUME NEW s, NEW head, NEW fo \in [Nodes -> Words], NEW tag \in [Nodes -> Nat],
           Listed(s, head, fo, tag), Node(head) # 0
    PROVE  FirstTaken(s, head, fo, tag)
<1> DEFINE t == Tail(s)
           h == Node(head)
           x == fo[h]
           tag2 == Grown(tag, Node(x))
<1>0. s \in Seq(Nodes)
  BY DEF Listed
<1>1. s # <<>> /\ s \in Seq(Nodes) /\ s[1] = h /\ h \in Nodes
  BY <1>0, HeadOf
<1>2. /\ t \in Seq(Nodes) /\ Len(t) = Len(s) - 1 /\ Len(s) \in Nat \ {0}
      /\ DOMAIN t = 1 .. Len(s) - 1 /\ DOMAIN s = 1 .. Len(s) /\ 1 \in DOMAIN s
      /\ \A i \in 1 .. Len(s) - 1 : t[i] = s[i + 1]
  BY <1>1, RestOf
<1>3. \A i \in DOMAIN t : i \in Nat \ {0} /\ i + 1 \in DOMAIN s /\ i + 1 # 1 /\ t[i] = s[i + 1]
  BY <1>2
<1>3a. \A i \in DOMAIN s : i # 1 => i \in Nat \ {0} /\ i - 1 \in DOMAIN t /\ t[i - 1] = s[i]
  <2> SUFFICES ASSUME NEW i \in DOMAIN s, i # 1
               PROVE  i \in Nat \ {0} /\ i - 1 \in DOMAIN t /\ t[i - 1] = s[i]
    OBVIOUS
  <2>1. i \in Nat \ {0} /\ i - 1 \in 1 .. Len(s) - 1 /\ (i - 1) + 1 = i
    BY <1>2
  <2> QED BY <1>2, <2>1
<1>4. \A i, j \in DOMAIN s : s[i] = s[j] => i = j
  BY DEF Listed
<1>5. \A n \in Nodes : In(n, t) <=> In(n, s) /\ n # h
  <2>1. ASSUME NEW n \in Nodes, In(n, t) PROVE In(n, s) /\ n # h
    <3>1. PICK i \in DOMAIN t : t[i] = n
      BY <2>1 DEF In
    <3> QED BY <1>1, <1>2, <1>3, <1>4, <3>1 DEF In
  <2>2. ASSUME NEW n \in Nodes, In(n, s), n # h PROVE In(n, t)
    <3>1. PICK i \in DOMAIN s : s[i] = n
      BY <2>2 DEF In
    <3> QED BY <1>1, <1>3a, <2>2, <3>1 DEF In
  <2> QED BY <2>1, <2>2
<1>6. x \in Words /\ Bump(x) = <<Node(x), x[2] + 1>> /\ Node(Bump(x)) = Node(x)
      /\ x[2] \in Nat /\ Node(x) \in 0 .. Capacity /\ x = <<Node(x), x[2]>>
  BY <1>1 DEF Words, Bump, Node
<1>7. \A i \in 1 .. Len(s) + 1 : WordAt(s, head, fo, i) = IF i = 1 THEN head ELSE fo[s[i - 1]]
  BY DEF WordAt
<1>8. Node(x) # 0 => 1 \in DOMAIN t /\ t[1] = Node(x) /\ x = <<t[1], tag[t[1]]>> /\ Node(x) \in Nodes
  <2> SUFFICES ASSUME Node(x) # 0
               PROVE  1 \in DOMAIN t /\ t[1] = Node(x) /\ x = <<t[1], tag[t[1]]>> /\ Node(x) \in Nodes
    OBVIOUS
  <2>1. WordAt(s, head, fo, 2) = x
    BY <1>1 DEF WordAt
  <2>2. Len(s) # 1
    BY <2>1 DEF Listed
  <2>3. 2 \in DOMAIN s /\ 1 \in DOMAIN t
    BY <1>2, <2>2
  <2>4. t[1] = s[2]
    BY <1>3, <2>3
  <2>5. x = <<s[2], tag[s[2]]>>
    BY <2>1, <2>3 DEF Listed
  <2>6. Node(x) \in Nodes
    BY <1>6 DEF Nodes
  <2> QED BY <2>3, <2>4, <2>5, <2>6 DEF Node
<1>9. Node(x) = 0 => Len(s) = 1
  <2> SUFFICES ASSUME Node(x) = 0, Len(s) # 1 PROVE FALSE
    OBVIOUS
  <2>1. 2 \in DOMAIN s /\ s[2] \in Nodes
    BY <1>1, <1>2
  <2>2. WordAt(s, head, fo, 2) = x
    BY <1>1 DEF WordAt
  <2>3. Node(x) = s[2]
    BY <2>1, <2>2 DEF Listed, Node
  <2> QED BY <2>1, <2>3 DEF Nodes
<1>10. ASSUME NEW i \in DOMAIN t PROVE WordAt(t, Bump(x), fo, i) = <<t[i], tag2[t[i]]>>
  <2>1. t[i] \in Nodes
    BY <1>2
  <2>2. CASE i = 1
    <3>1. Node(x) # 0
      BY <1>2, <1>9
    <3>2. tag2[t[1]] = tag[t[1]] + 1
      BY <1>8, <2>1, <2>2, <3>1 DEF Grown
    <3>3. x[2] = tag[t[1]] /\ Node(x) = t[1]
      BY <1>8, <3>1
    <3> QED BY <1>6, <2>2, <3>2, <3>3 DEF WordAt
  <2>3. CASE i # 1
    <3>1. i - 1 \in DOMAIN t /\ i + 1 \in DOMAIN s /\ (i + 1) - 1 = i /\ (i - 1) + 1 = i
      BY <1>2, <2>3
    <3>2. t[i - 1] = s[i] /\ t[i] = s[i + 1]
      BY <1>3, <3>1
    <3>3. fo[t[i - 1]] = <<t[i], tag[t[i]]>>
      <4>1. WordAt(s, head, fo, i + 1) = <<s[i + 1], tag[s[i + 1]]>>
        BY <3>1 DEF Listed
      <4>2. i \in Nat /\ i + 1 # 1
        BY <1>2
      <4>3. WordAt(s, head, fo, i + 1) = fo[s[i]]
        BY <3>1, <4>2 DEF WordAt
      <4> QED BY <3>2, <4>1, <4>3
    <3>4. t[i] # Node(x)
      <4> SUFFICES ASSUME t[i] = Node(x) PROVE FALSE
        OBVIOUS
      <4>1. Node(x) # 0
        BY <2>1 DEF Nodes
      <4>2. t[1] = t[i] /\ 1 \in DOMAIN t
        BY <1>8, <4>1
      <4>3. s[2] = s[i + 1] /\ 2 \in DOMAIN s
        BY <1>3, <4>2
      <4> QED BY <1>3, <1>4, <2>3, <4>3
    <3>5. tag2[t[i]] = tag[t[i]]
      BY <2>1, <3>4 DEF Grown
    <3> QED BY <2>3, <3>3, <3>5 DEF WordAt
  <2> QED BY <2>2, <2>3
<1>11. Node(WordAt(t, Bump(x), fo, Len(t) + 1)) = 0
  <2>1. CASE Len(s) = 1
    <3>1. Node(x) = 0
      <4>1. DOMAIN t = 1 .. Len(s) - 1 /\ 1 \notin 1 .. Len(s) - 1
        BY <1>2, <2>1
      <4> HIDE DEF t
      <4>2. 1 \notin DOMAIN t
        BY <4>1
      <4> QED BY <1>8, <4>2
    <3>2. Len(t) + 1 = 1
      BY <1>2, <2>1
    <3> QED BY <1>6, <3>1, <3>2 DEF WordAt
  <2>2. CASE Len(s) # 1
    <3>1. Len(t) \in DOMAIN t /\ Len(t) + 1 # 1 /\ (Len(t) + 1) - 1 = Len(t) /\ Len(t) + 1 = Len(s)
      BY <1>2, <2>2
    <3>2. t[Len(t)] = s[Len(s)]
      BY <1>3, <3>1
    <3>3. Node(fo[s[Len(s)]]) = 0
      <4>1. (Len(s) + 1) - 1 = Len(s) /\ Len(s) + 1 # 1
        BY <1>2
      <4> QED BY <4>1 DEF Listed, WordAt
    <3> QED BY <3>1, <3>2, <3>3 DEF WordAt
  <2> QED BY <2>1, <2>2
<1>12. \A i, j \in DOMAIN t : t[i] = t[j] => i = j
  BY <1>3, <1>4
<1>13. Listed(t, Bump(x), fo, tag2)
  BY <1>2, <1>10, <1>11, <1>12 DEF Listed
<1>14. Node(x) # 0 => In(Node(x), t) /\ Node(x) \in Nodes /\ x[2] = tag[Node(x)]
  <2> SUFFICES ASSUME Node(x) # 0
               PROVE  In(Node(x), t) /\ Node(x) \in Nodes /\ x[2] = tag[Node(x)]
    OBVIOUS
  <2>1. In(Node(x), t) /\ Node(x) \in Nodes
    BY <1>8 DEF In
  <2>2. x = <<Node(x), tag[Node(x)]>>
    BY <1>8
  <2>3. \A a, b : <<a, b>>[2] = b
    OBVIOUS
  <2> HIDE DEF x
  <2> QED BY <2>1, <2>2, <2>3
<1> QED BY <1>2, <1>5, <1>13, <1>14 DEF FirstTaken

(* A node that was linked to the head becomes the head.                     *)
FirstPut(s, n, fo, tag) ==
    /\ Listed(<<n>> \o s, <<n, tag[n]>>, fo, tag)
    /\ <<n>> \o s \in Seq(Nodes)
    /\ \A m \in Nodes : In(m, <<n>> \o s) <=> m = n \/ In(m, s)

LEMMA ListPut ==
    ASSUME NEW s, NEW head, NEW fo, NEW tag, Listed(s, head, fo, tag),
           NEW n \in Nodes, ~ In(n, s), fo[n] = head
    PROVE  FirstPut(s, n, fo, tag)
<1>1. PICK t : t = <<n>> \o s
  OBVIOUS
<1>2. /\ s \in Seq(Nodes) /\ \A i \in DOMAIN s : s[i] # n /\ s[i] \in Nodes
      /\ \A i, j \in DOMAIN s : s[i] = s[j] => i = j
  BY DEF Listed, In
<1>3. /\ t \in Seq(Nodes) /\ Len(t) = Len(s) + 1 /\ Len(s) \in Nat
      /\ DOMAIN t = 1 .. Len(s) + 1 /\ DOMAIN s = 1 .. Len(s)
      /\ t[1] = n
      /\ \A i \in 1 .. Len(s) : t[i + 1] = s[i]
  BY <1>1, <1>2, ConsOf
<1>4. \A i \in DOMAIN t : i # 1 => i - 1 \in DOMAIN s /\ t[i] = s[i - 1] /\ i \in Nat
  <2> SUFFICES ASSUME NEW i \in DOMAIN t, i # 1
               PROVE  i - 1 \in DOMAIN s /\ t[i] = s[i - 1] /\ i \in Nat
    OBVIOUS
  <2>1. i - 1 \in 1 .. Len(s) /\ (i - 1) + 1 = i /\ i \in Nat
    BY <1>3
  <2> QED BY <1>3, <2>1
<1>5. ASSUME NEW i \in 1 .. Len(s) + 1
      PROVE  WordAt(t, <<n, tag[n]>>, fo, i + 1) = WordAt(s, head, fo, i)
  <2>1. i + 1 # 1 /\ (i + 1) - 1 = i /\ i \in DOMAIN t
    BY <1>3
  <2>2. CASE i = 1
    BY <1>3, <2>1, <2>2 DEF WordAt
  <2>3. CASE i # 1
    BY <1>4, <2>1, <2>3 DEF WordAt
  <2> QED BY <2>2, <2>3
<1>6. ASSUME NEW i \in DOMAIN t PROVE WordAt(t, <<n, tag[n]>>, fo, i) = <<t[i], tag[t[i]]>>
  <2>1. CASE i = 1
    BY <1>3, <2>1 DEF WordAt
  <2>2. CASE i # 1
    <3>1. i - 1 \in DOMAIN s /\ t[i] = s[i - 1] /\ i - 1 \in 1 .. Len(s) + 1 /\ (i - 1) + 1 = i
      BY <1>3, <1>4, <2>2
    <3>2. WordAt(t, <<n, tag[n]>>, fo, i) = WordAt(s, head, fo, i - 1)
      BY <1>5, <3>1
    <3> QED BY <3>1, <3>2 DEF Listed
  <2> QED BY <2>1, <2>2
<1>7. Node(WordAt(t, <<n, tag[n]>>, fo, Len(t) + 1)) = 0
  <2>1. Len(s) + 1 \in 1 .. Len(s) + 1
    BY <1>3
  <2> QED BY <1>3, <1>5, <2>1 DEF Listed
<1>8. \A i, j \in DOMAIN t : t[i] = t[j] => i = j
  <2> SUFFICES ASSUME NEW i \in DOMAIN t, NEW j \in DOMAIN t, t[i] = t[j] PROVE i = j
    OBVIOUS
  <2>1. CASE i = 1 \/ j = 1
    BY <1>2, <1>3, <1>4, <2>1
  <2>2. CASE i # 1 /\ j # 1
    <3>1. i - 1 = j - 1 /\ i \in Nat /\ j \in Nat
      BY <1>2, <1>4, <2>2
    <3> QED BY <3>1
  <2> QED BY <2>1, <2>2
<1>9. ASSUME NEW m \in Nodes PROVE In(m, t) <=> m = n \/ In(m, s)
  <2>1. In(m, t) => m = n \/ In(m, s)
    BY <1>3, <1>4 DEF In
  <2>2. m = n => In(m, t)
    <3>1. 1 \in DOMAIN t
      BY <1>3
    <3> QED BY <1>3, <3>1 DEF In
  <2>3. In(m, s) => In(m, t)
    <3>1. \A i \in DOMAIN s : i + 1 \in DOMAIN t
      BY <1>3
    <3> QED BY <1>3, <3>1 DEF In
  <2> QED BY <2>1, <2>2, <2>3
<1>10. Listed(t, <<n, tag[n]>>, fo, tag)
  BY <1>3, <1>6, <1>7, <1>8 DEF Listed
<1> QED BY <1>1, <1>3, <1>9, <1>10 DEF FirstPut
-----------------------------------------------------------------------------
(* A step of q changes the position and the locals of q alone.              *)
Alone(q) == \A r \in Procs \ {q} : /\ pc'[r] = pc[r] /\ word'[r] = word[r]
                                   /\ next'[r] = next[r] /\ item'[r] = item[r]

(* What q has to know for its position: its own part of the invariant.      *)
Knows(q, f, tag) ==
    /\ pc[q] \in {"pushNext", "pushTake"} => PushReads(q, tag)
    /\ pc[q] \in {"popNext", "popTake"} => PopReads(q, f, tag)

Carries(q) ==
    /\ pc[q] \in PushPcs \cup Back => item[q] \in Data
    /\ pc[q] \in {"pushHead", "pushLink", "pushCas"} => nodeData[Hand(q)] = item[q]
    /\ pc[q] = "popRead" => nodeData[Hand(q)] \in Data
    /\ pc[q] = "pushCas" => nextPushed[Hand(q)] = next[q]
    /\ pc[q] = "popCas" => nextFree[Hand(q)] = next[q]

(* Steps that change neither list nor node, nor who holds what.             *)
LEMMA QuietStep ==
    ASSUME NEW f, NEW p, NEW tag, Sound(f, p, tag), NEW q \in Procs, Alone(q),
           UNCHANGED <<heads, nodes>>,
           q \in Holders <=> q \in Holders',
           q \in Holders => /\ word'[q] = word[q]
                            /\ pc'[q] \in Back <=> pc[q] \in Back
                            /\ pc'[q] = "popRead" <=> pc[q] = "popRead",
           Knows(q, f, tag)', Carries(q)'
    PROVE  Sound(f, p, tag)'
<1>1. UNCHANGED <<free, pushed, nextFree, nextPushed, nodeData>>
  BY DEF heads, nodes
<1>2. ASSUME NEW r \in Procs, r # q
      PROVE  /\ r \in Holders' <=> r \in Holders
             /\ pc'[r] = pc[r] /\ word'[r] = word[r] /\ next'[r] = next[r] /\ item'[r] = item[r]
  BY <1>2 DEF Alone, Holders
<1>3. Holders' = Holders
  BY <1>2 DEF Holders
<1>4. \A r \in Holders : /\ word'[r] = word[r]
                         /\ pc'[r] \in Back <=> pc[r] \in Back
                         /\ pc'[r] = "popRead" <=> pc[r] = "popRead"
  BY <1>2 DEF Holders
<1>5. Placed(f, p, tag)'
  BY <1>3, <1>4 DEF Sound, Placed, Hand
<1>6. ASSUME NEW r \in Procs PROVE Knows(r, f, tag)'
  <2>1. CASE r = q
    BY <2>1
  <2>2. CASE r # q
    <3>1. Knows(r, f, tag)
      BY DEF Sound, Readers, Knows
    <3>2. pc[r] \in {"pushNext", "pushTake"} => PushReads(r, tag)'
      BY <1>1, <1>2, <1>3, <1>4, <2>2, <3>1 DEF Knows, PushReads, Hand
    <3>3. pc[r] \in {"popNext", "popTake"} => PopReads(r, f, tag)'
      BY <1>1, <1>2, <1>3, <1>4, <2>2, <3>1 DEF Knows, PopReads, Hand
    <3> QED BY <1>2, <2>2, <3>2, <3>3 DEF Knows
  <2> QED BY <2>1, <2>2
<1>7. Readers(f, tag)'
  BY <1>6 DEF Readers, Knows
<1>8. ASSUME NEW r \in Procs PROVE Carries(r)'
  BY <1>1, <1>2 DEF Sound, Elements, Carries, Hand
<1>9. Elements(p)'
  BY <1>1, <1>8 DEF Sound, Elements, Carries
<1> QED BY <1>1, <1>5, <1>7, <1>9 DEF Sound

(* A head that names a node names the first one of its list, which is in no *)
(* hand.                                                                    *)
LEMMA FreeHead ==
    ASSUME NEW f, NEW p, NEW tag, Sound(f, p, tag), Node(free) # 0
    PROVE  /\ Node(free) \in Nodes /\ free = <<Node(free), tag[Node(free)]>>
           /\ In(Node(free), f) /\ ~ In(Node(free), p)
           /\ \A r \in Holders : Hand(r) # Node(free)
<1>1. /\ 1 \in DOMAIN f /\ f[1] = Node(free) /\ Node(free) \in Nodes
      /\ free = <<Node(free), tag[Node(free)]>>
  BY HeadOf DEF Sound
<1>2. In(Node(free), f)
  BY <1>1 DEF In
<1> QED BY <1>1, <1>2 DEF Sound, Placed

LEMMA PushedHead ==
    ASSUME NEW f, NEW p, NEW tag, Sound(f, p, tag), Node(pushed) # 0
    PROVE  /\ Node(pushed) \in Nodes /\ pushed = <<Node(pushed), tag[Node(pushed)]>>
           /\ In(Node(pushed), p) /\ ~ In(Node(pushed), f)
           /\ \A r \in Holders : Hand(r) # Node(pushed)
<1>1. /\ 1 \in DOMAIN p /\ p[1] = Node(pushed) /\ Node(pushed) \in Nodes
      /\ pushed = <<Node(pushed), tag[Node(pushed)]>>
  BY HeadOf DEF Sound
<1>2. In(Node(pushed), p)
  BY <1>1 DEF In
<1> QED BY <1>1, <1>2 DEF Sound, Placed

(* A thread that reads a head, of a list that has a node, may take that     *)
(* node as long as the head stays.                                          *)
LEMMA ReadFreeHead ==
    ASSUME TypeOK, NEW f, NEW p, NEW tag, Sound(f, p, tag), NEW q \in Procs,
           \/ \E d \in Data : Push(q, d)
           \/ PushRetry(q)
    PROVE  Sound(f, p, tag)'
<1>1. /\ Node(free) # 0 /\ UNCHANGED <<heads, nodes>> /\ Alone(q)
      /\ pc[q] \in {"idle", "pushTake"} /\ pc'[q] = "pushNext" /\ word'[q] = free
      /\ item'[q] \in Data
  BY DEF TypeOK, Push, PushRetry, Goto, Forget, Alone, Sound, Elements, PushPcs
<1>2. q \notin Holders /\ q \notin Holders'
  BY <1>1 DEF Holders
<1>3. /\ Node(free) \in Nodes /\ free = <<Node(free), tag[Node(free)]>>
      /\ \A r \in Holders : Hand(r) # Node(free)
  BY <1>1, FreeHead
<1>4. \A r \in Holders' : Hand(r)' # Node(free)
  BY <1>1, <1>2, <1>3 DEF Holders, Alone, Hand
<1>5. tag[Node(free)] \in Nat
  BY <1>3 DEF Sound
<1>6. PushReads(q, tag)'
  BY <1>1, <1>3, <1>4, <1>5 DEF PushReads, Hand, Node
<1>7. Knows(q, f, tag)'
  BY <1>1, <1>6 DEF Knows
<1>8. Carries(q)'
  BY <1>1 DEF Carries
<1> QED BY <1>1, <1>2, <1>7, <1>8, QuietStep

LEMMA ReadPushedHead ==
    ASSUME TypeOK, NEW f, NEW p, NEW tag, Sound(f, p, tag), NEW q \in Procs,
           Pop(q) \/ PopRetry(q)
    PROVE  Sound(f, p, tag)'
<1>1. /\ Node(pushed) # 0 /\ UNCHANGED <<heads, nodes>> /\ Alone(q)
      /\ pc[q] \in {"idle", "popTake"} /\ pc'[q] = "popNext" /\ word'[q] = pushed
  BY DEF TypeOK, Pop, PopRetry, Goto, Forget, Alone
<1>2. q \notin Holders /\ q \notin Holders'
  BY <1>1 DEF Holders
<1>3. /\ Node(pushed) \in Nodes /\ pushed = <<Node(pushed), tag[Node(pushed)]>>
      /\ ~ In(Node(pushed), f)
      /\ \A r \in Holders : Hand(r) # Node(pushed)
  BY <1>1, PushedHead
<1>4. \A r \in Holders' : Hand(r)' # Node(pushed)
  BY <1>1, <1>2, <1>3 DEF Holders, Alone, Hand
<1>5. tag[Node(pushed)] \in Nat
  BY <1>3 DEF Sound
<1>6. PopReads(q, f, tag)'
  BY <1>1, <1>3, <1>4, <1>5 DEF PopReads, Hand, Node
<1>7. Knows(q, f, tag)'
  BY <1>1, <1>6 DEF Knows
<1>8. Carries(q)'
  BY <1>1 DEF Carries, PushPcs, Back
<1> QED BY <1>1, <1>2, <1>7, <1>8, QuietStep

(* The word behind the head is what the node is linked to.                  *)
LEMMA ReadNext ==
    ASSUME TypeOK, NEW f, NEW p, NEW tag, Sound(f, p, tag), NEW q \in Procs,
           PushNext(q) \/ PopNext(q)
    PROVE  Sound(f, p, tag)'
<1>1. /\ UNCHANGED <<heads, nodes>> /\ Alone(q) /\ word'[q] = word[q] /\ item'[q] = item[q]
      /\ \/ pc[q] = "pushNext" /\ pc'[q] = "pushTake" /\ next'[q] = nextFree[Hand(q)]
         \/ pc[q] = "popNext" /\ pc'[q] = "popTake" /\ next'[q] = nextPushed[Hand(q)]
  BY DEF TypeOK, PushNext, PopNext, Goto, Alone, Hand
<1>2. q \notin Holders /\ q \notin Holders'
  BY <1>1 DEF Holders
<1>3. \A r \in Procs : (r \in Holders' <=> r \in Holders)
                       /\ (r \in Holders => word'[r] = word[r] /\ pc'[r] = pc[r])
  BY <1>1, <1>2 DEF Holders, Alone
<1>4. Holders' = Holders
  BY <1>3 DEF Holders
<1>5. UNCHANGED <<free, pushed, nextFree, nextPushed>>
  BY <1>1 DEF heads, nodes
<1>6. Knows(q, f, tag)'
  <2>1. CASE pc[q] = "pushNext"
    <3>1. PushReads(q, tag)
      BY <2>1 DEF Sound, Readers
    <3>2. word'[q] = word[q] /\ next'[q] = nextFree'[Hand(q)]
      BY <1>1, <1>5, <2>1
    <3>3. Hand(q)' = Hand(q) /\ \A r \in Holders : Hand(r)' = Hand(r) /\ pc'[r] = pc[r]
      BY <1>3, <3>2 DEF Hand, Holders
    <3>4. PushReads(q, tag)'
      BY <1>4, <3>1, <3>2, <3>3 DEF PushReads
    <3> QED BY <1>1, <2>1, <3>4 DEF Knows
  <2>2. CASE pc[q] = "popNext"
    <3>1. PopReads(q, f, tag)
      BY <2>2 DEF Sound, Readers
    <3>2. word'[q] = word[q] /\ next'[q] = nextPushed'[Hand(q)]
      BY <1>1, <1>5, <2>2
    <3>3. Hand(q)' = Hand(q) /\ \A r \in Holders : Hand(r)' = Hand(r) /\ pc'[r] = pc[r]
      BY <1>3, <3>2 DEF Hand, Holders
    <3>4. PopReads(q, f, tag)'
      BY <1>4, <3>1, <3>2, <3>3 DEF PopReads
    <3> QED BY <1>1, <2>2, <3>4 DEF Knows
  <2> QED BY <1>1, <2>1, <2>2
<1>7. Carries(q)'
  BY <1>1 DEF Carries, Sound, Elements, PushPcs, Back
<1> QED BY <1>1, <1>2, <1>6, <1>7, QuietStep

(* A call that finds no node left returns.                                  *)
LEMMA GiveUp ==
    ASSUME TypeOK, NEW f, NEW p, NEW tag, Sound(f, p, tag), NEW q \in Procs,
           PushGivesUp(q) \/ PopGivesUp(q)
    PROVE  Sound(f, p, tag)'
<1>1. /\ UNCHANGED <<heads, nodes>> /\ Alone(q)
      /\ pc[q] \in {"pushTake", "popTake"} /\ pc'[q] = "idle"
  BY DEF TypeOK, PushGivesUp, PopGivesUp, Return, Goto, Alone
<1>2. q \notin Holders /\ q \notin Holders'
  BY <1>1 DEF Holders
<1>3. Knows(q, f, tag)' /\ Carries(q)'
  BY <1>1 DEF Knows, Carries, PushPcs, Back
<1> QED BY <1>1, <1>2, <1>3, QuietStep

(* A thread with a node in its hand reads the head it will link it to, or   *)
(* starts over because the head has changed.                                *)
LEMMA Look ==
    ASSUME TypeOK, NEW f, NEW p, NEW tag, Sound(f, p, tag), NEW q \in Procs,
           PushHead(q) \/ PopHead(q) \/ PushCasFails(q) \/ PopCasFails(q)
    PROVE  Sound(f, p, tag)'
<1>1. /\ UNCHANGED <<heads, nodes>> /\ Alone(q) /\ word'[q] = word[q] /\ item'[q] = item[q]
      /\ \/ pc[q] = "pushHead" /\ pc'[q] = "pushLink"
         \/ pc[q] = "pushCas" /\ pc'[q] = "pushHead"
         \/ pc[q] = "popHead" /\ pc'[q] = "popLink"
         \/ pc[q] = "popCas" /\ pc'[q] = "popHead"
  BY DEF TypeOK, PushHead, PopHead, PushCasFails, PopCasFails, Goto, Forget, Alone
<1>2. q \in Holders /\ q \in Holders' /\ (pc[q] \in Back <=> pc'[q] \in Back)
      /\ pc[q] # "popRead" /\ pc'[q] # "popRead"
  BY <1>1 DEF Holders, Back
<1>3. Knows(q, f, tag)'
  BY <1>1 DEF Knows
<1>4. UNCHANGED <<nodeData, nextPushed, nextFree>>
  BY <1>1 DEF nodes
<1>5. Carries(q)'
  BY <1>1, <1>4 DEF Carries, Sound, Elements, PushPcs, Back, Hand
<1> QED BY <1>1, <1>2, <1>3, <1>5, QuietStep

-----------------------------------------------------------------------------
(* Steps of a thread on the node in its hand: nobody else has that node,    *)
(* and a thread that still has it as a head has an older tag, or knows less. *)
LEMMA HandStep ==
    ASSUME TypeOK, NEW f, NEW p, NEW tag, Sound(f, p, tag), NEW q \in Procs, Alone(q),
           UNCHANGED heads,
           q \in Holders, q \in Holders', Hand(q)' = Hand(q),
           NEW tag2 \in [Nodes -> Nat], word'[q] = <<Hand(q), tag2[Hand(q)]>>,
           \A n \in Nodes \ {Hand(q)} :
               /\ tag2[n] = tag[n] /\ nodeData'[n] = nodeData[n]
               /\ nextFree'[n] = nextFree[n] /\ nextPushed'[n] = nextPushed[n],
           \/ /\ tag2[Hand(q)] = tag[Hand(q)] /\ pc[q] # "popRead"
              /\ pc'[q] \in Back => pc[q] \in Back
           \/ tag2[Hand(q)] = tag[Hand(q)] + 1,
           Carries(q)'
    PROVE  Sound(f, p, tag2)'
<1> DEFINE h == Hand(q)
<1>1. ASSUME NEW r \in Procs, r # q
      PROVE  /\ r \in Holders' <=> r \in Holders
             /\ pc'[r] = pc[r] /\ word'[r] = word[r] /\ next'[r] = next[r] /\ item'[r] = item[r]
  BY <1>1 DEF Alone, Holders
<1>2. Holders' = Holders
  BY <1>1 DEF Holders
<1>3. /\ h \in Nodes /\ ~ In(h, f) /\ ~ In(h, p)
      /\ \A r \in Holders : r # q => Hand(r) # h
  BY DEF Sound, Placed
<1>4. free' = free /\ pushed' = pushed /\ tag \in [Nodes -> Nat]
  BY DEF heads, Sound
<1>5. Listed(f, free', nextFree', tag2)
  <2>1. \A n \in Nodes : In(n, f) => nextFree'[n] = nextFree[n] /\ tag2[n] = tag[n]
    BY <1>3
  <2> QED BY <1>4, <2>1, ListStays DEF Sound
<1>6. Listed(p, pushed', nextPushed', tag2)
  <2>1. \A n \in Nodes : In(n, p) => nextPushed'[n] = nextPushed[n] /\ tag2[n] = tag[n]
    BY <1>3
  <2> QED BY <1>4, <2>1, ListStays DEF Sound
<1>7. \A r \in Holders : Hand(r)' = Hand(r)
  BY <1>1 DEF Hand, Holders
<1>8. \A r \in Holders : word'[r] = <<Hand(r), tag2[Hand(r)]>>
  <2> SUFFICES ASSUME NEW r \in Holders, r # q PROVE word'[r] = <<Hand(r), tag2[Hand(r)]>>
    OBVIOUS
  <2>1. word[r] = <<Hand(r), tag[Hand(r)]>> /\ Hand(r) \in Nodes \ {h}
    BY <1>3 DEF Sound, Placed
  <2>2. word'[r] = word[r]
    BY <1>1 DEF Holders
  <2> QED BY <2>1, <2>2
<1>9. Placed(f, p, tag2)'
  BY <1>2, <1>7, <1>8 DEF Sound, Placed
<1>10. \A n \in Nodes : /\ tag[n] \in Nat /\ tag2[n] \in Nat /\ tag[n] <= tag2[n]
                        /\ tag2[n] # tag[n] => n = h /\ tag2[n] = tag[n] + 1
  <2> SUFFICES ASSUME NEW n \in Nodes
               PROVE  /\ tag[n] \in Nat /\ tag2[n] \in Nat /\ tag[n] <= tag2[n]
                      /\ tag2[n] # tag[n] => n = h /\ tag2[n] = tag[n] + 1
    OBVIOUS
  <2>1. tag[n] \in Nat /\ tag2[n] \in Nat
    BY <1>4
  <2> QED BY <2>1
<1>11. ASSUME NEW r \in Procs, pc'[r] \in {"pushNext", "pushTake", "popNext", "popTake"}
       PROVE  /\ r # q /\ pc'[r] = pc[r] /\ word'[r] = word[r] /\ next'[r] = next[r]
              /\ Hand(r)' = Hand(r) /\ word[r][2] \in Nat
  BY <1>1, <1>11 DEF Holders, Hand, TypeOK, Words
<1>12. ASSUME NEW r \in Procs, pc'[r] \in {"pushNext", "pushTake"} PROVE PushReads(r, tag2)'
  <2>1. PushReads(r, tag) /\ Hand(r) \in Nodes
    BY <1>11, <1>12 DEF Sound, Readers, PushReads
  <2>2. word'[r][2] <= tag2[Hand(r)]
    BY <1>10, <1>11, <1>12, <2>1 DEF PushReads
  <2>3. word'[r][2] = tag2[Hand(r)] =>
            \A t \in Holders : Hand(t) = Hand(r) => pc'[t] \notin Back
    <3> SUFFICES ASSUME word'[r][2] = tag2[Hand(r)],
                        NEW t \in Holders, Hand(t) = Hand(r)
                 PROVE  pc'[t] \notin Back
      OBVIOUS
    <3>1. word[r][2] = tag[Hand(r)] /\ tag2[Hand(r)] = tag[Hand(r)]
      BY <1>10, <1>11, <1>12, <2>1 DEF PushReads
    <3>2. pc[t] \notin Back
      BY <2>1, <3>1 DEF PushReads
    <3>3. CASE t = q
      <4>1. tag2[h] # tag[h] + 1
        BY <1>3, <1>10, <3>1, <3>3
      <4> QED BY <3>2, <3>3, <4>1
    <3>4. CASE t # q
      BY <1>1, <3>2, <3>4 DEF Holders
    <3> QED BY <3>3, <3>4
  <2>4. pc'[r] = "pushTake" /\ free' = word'[r] => next'[r] = nextFree'[Hand(r)]
    <3> SUFFICES ASSUME pc'[r] = "pushTake", free' = word'[r]
                 PROVE  next'[r] = nextFree'[Hand(r)]
      OBVIOUS
    <3>1. pc[r] = "pushTake" /\ free = word[r] /\ Hand(r) = Node(free)
      BY <1>4, <1>11, <1>12 DEF Hand
    <3>2. Hand(r) # h
      BY <2>1, <3>1, FreeHead DEF Nodes
    <3>3. next[r] = nextFree[Hand(r)]
      BY <2>1, <3>1 DEF PushReads
    <3> QED BY <1>11, <1>12, <2>1, <3>2, <3>3
  <2> QED BY <1>2, <1>7, <1>11, <1>12, <2>1, <2>2, <2>3, <2>4 DEF PushReads
<1>13. ASSUME NEW r \in Procs, pc'[r] \in {"popNext", "popTake"} PROVE PopReads(r, f, tag2)'
  <2>1. PopReads(r, f, tag) /\ Hand(r) \in Nodes
    BY <1>11, <1>13 DEF Sound, Readers, PopReads
  <2>2. word'[r][2] <= tag2[Hand(r)]
    BY <1>10, <1>11, <1>13, <2>1 DEF PopReads
  <2>3. word'[r][2] = tag2[Hand(r)] =>
            /\ ~ In(Hand(r), f)
            /\ \A t \in Holders : Hand(t) = Hand(r) => pc'[t] = "popRead"
    <3> SUFFICES ASSUME word'[r][2] = tag2[Hand(r)]
                 PROVE  /\ ~ In(Hand(r), f)
                        /\ \A t \in Holders : Hand(t) = Hand(r) => pc'[t] = "popRead"
      OBVIOUS
    <3>1. word[r][2] = tag[Hand(r)] /\ tag2[Hand(r)] = tag[Hand(r)]
      BY <1>10, <1>11, <1>13, <2>1 DEF PopReads
    <3>2. \A t \in Holders : Hand(t) = Hand(r) => pc[t] = "popRead"
      BY <2>1, <3>1 DEF PopReads
    <3>3. Hand(r) # h
      <4> SUFFICES ASSUME Hand(r) = h PROVE FALSE
        OBVIOUS
      <4>1. tag2[h] # tag[h] + 1
        BY <1>3, <1>10, <3>1
      <4> QED BY <3>2, <4>1
    <3>4. \A t \in Holders : t # q => pc'[t] = pc[t]
      BY <1>1 DEF Holders
    <3> QED BY <2>1, <3>1, <3>2, <3>3, <3>4 DEF PopReads
  <2>4. pc'[r] = "popTake" /\ pushed' = word'[r] => next'[r] = nextPushed'[Hand(r)]
    <3> SUFFICES ASSUME pc'[r] = "popTake", pushed' = word'[r]
                 PROVE  next'[r] = nextPushed'[Hand(r)]
      OBVIOUS
    <3>1. pc[r] = "popTake" /\ pushed = word[r] /\ Hand(r) = Node(pushed)
      BY <1>4, <1>11, <1>13 DEF Hand
    <3>2. Hand(r) # h
      BY <2>1, <3>1, PushedHead DEF Nodes
    <3>3. next[r] = nextPushed[Hand(r)]
      BY <2>1, <3>1 DEF PopReads
    <3> QED BY <1>11, <1>13, <2>1, <3>2, <3>3
  <2> QED BY <1>2, <1>7, <1>11, <1>13, <2>1, <2>2, <2>3, <2>4 DEF PopReads
<1>14. Readers(f, tag2)'
  BY <1>12, <1>13 DEF Readers
<1>15. ASSUME NEW r \in Procs, r # q PROVE Carries(r)'
  <2>1. Carries(r)
    BY DEF Sound, Elements, Carries
  <2>2. r \in Holders => Hand(r) \in Nodes \ {h}
    BY <1>3, <1>15 DEF Sound, Placed
  <2>3. r \in Holders => /\ nodeData'[Hand(r)] = nodeData[Hand(r)]
                         /\ nextFree'[Hand(r)] = nextFree[Hand(r)]
                         /\ nextPushed'[Hand(r)] = nextPushed[Hand(r)]
                         /\ Hand(r)' = Hand(r)
    BY <1>7, <2>2
  <2>4. pc[r] \in {"pushHead", "pushLink", "pushCas", "popRead", "popCas"} => r \in Holders
    BY DEF Holders
  <2> QED BY <1>1, <1>15, <2>1, <2>3, <2>4 DEF Carries
<1>16. \A i \in DOMAIN p : nodeData'[p[i]] \in Data
  <2>1. \A i \in DOMAIN p : p[i] \in Nodes \ {h}
    BY <1>3 DEF Sound, Listed, In
  <2> QED BY <2>1 DEF Sound, Elements
<1>17. Elements(p)'
  BY <1>15, <1>16 DEF Elements, Carries
<1> QED BY <1>5, <1>6, <1>9, <1>14, <1>17 DEF Sound


(* What a holder knows of the node in its hand.                             *)
LEMMA HandKnown ==
    ASSUME TypeOK, NEW f, NEW p, NEW tag, Sound(f, p, tag), NEW q \in Holders
    PROVE  /\ q \in Procs /\ Hand(q) \in Nodes /\ word[q] = <<Hand(q), tag[Hand(q)]>>
           /\ tag \in [Nodes -> Nat] /\ tag[Hand(q)] \in Nat
           /\ Carries(q)
<1>1. q \in Procs /\ Hand(q) \in Nodes /\ word[q] = <<Hand(q), tag[Hand(q)]>>
  BY DEF Sound, Placed, Holders
<1>2. tag \in [Nodes -> Nat] /\ Carries(q)
  BY <1>1 DEF Sound, Elements, Carries
<1> QED BY <1>1, <1>2

(* The element is written to the node, the node is linked to the head.      *)
LEMMA FillNode ==
    ASSUME TypeOK, NEW f, NEW p, NEW tag, Sound(f, p, tag), NEW q \in Procs,
           PushWrite(q) \/ PushLink(q) \/ PopLink(q)
    PROVE  Sound(f, p, tag)'
<1> DEFINE h == Hand(q)
<1>1. /\ UNCHANGED heads /\ Alone(q) /\ word'[q] = word[q] /\ item'[q] = item[q]
      /\ next'[q] = next[q]
      /\ \/ /\ pc[q] = "pushWrite" /\ pc'[q] = "pushHead"
            /\ nodeData' = [nodeData EXCEPT ![h] = item[q]] /\ UNCHANGED <<nextFree, nextPushed>>
         \/ /\ pc[q] = "pushLink" /\ pc'[q] = "pushCas"
            /\ nextPushed' = [nextPushed EXCEPT ![h] = next[q]] /\ UNCHANGED <<nextFree, nodeData>>
         \/ /\ pc[q] = "popLink" /\ pc'[q] = "popCas"
            /\ nextFree' = [nextFree EXCEPT ![h] = next[q]] /\ UNCHANGED <<nextPushed, nodeData>>
  BY DEF TypeOK, PushWrite, PushLink, PopLink, Goto, Alone, Hand
<1>2. q \in Holders /\ q \in Holders' /\ (pc'[q] \in Back => pc[q] \in Back) /\ pc[q] # "popRead"
  BY <1>1 DEF Holders, Back
<1>3. /\ h \in Nodes /\ word[q] = <<h, tag[h]>> /\ tag \in [Nodes -> Nat] /\ Carries(q)
  BY <1>2, HandKnown
<1>4. Hand(q)' = Hand(q) /\ word'[q] = <<h, tag[h]>>
  BY <1>1, <1>3 DEF Hand
<1>5. \A n \in Nodes \ {h} :
          /\ nodeData'[n] = nodeData[n] /\ nextFree'[n] = nextFree[n]
          /\ nextPushed'[n] = nextPushed[n]
  BY <1>1 DEF TypeOK
<1>6. Carries(q)'
  <2>1. CASE pc[q] = "pushWrite"
    <3>1. nodeData'[h] = item'[q] /\ item'[q] \in Data
      BY <1>1, <1>3, <2>1 DEF TypeOK, Carries, PushPcs
    <3>2. pc'[q] = "pushHead"
      BY <1>1, <2>1
    <3> QED BY <1>4, <3>1, <3>2 DEF Carries
  <2>2. CASE pc[q] = "pushLink"
    <3>1. nextPushed'[h] = next'[q] /\ item'[q] \in Data /\ nodeData'[h] = item'[q]
      BY <1>1, <1>3, <2>2 DEF TypeOK, Carries, PushPcs
    <3>2. pc'[q] = "pushCas"
      BY <1>1, <2>2
    <3> QED BY <1>4, <3>1, <3>2 DEF Carries
  <2>3. CASE pc[q] = "popLink"
    <3>1. nextFree'[h] = next'[q] /\ item'[q] \in Data
      BY <1>1, <1>3, <2>3 DEF TypeOK, Carries, Back
    <3>2. pc'[q] = "popCas"
      BY <1>1, <2>3
    <3> QED BY <1>4, <3>1, <3>2 DEF Carries
  <2> QED BY <1>1, <2>1, <2>2, <2>3
<1> QED BY <1>1, <1>2, <1>3, <1>4, <1>5, <1>6, HandStep

(* The element leaves the node, whose tag grows.                            *)
LEMMA EmptyNode ==
    ASSUME TypeOK, NEW f, NEW p, NEW tag, Sound(f, p, tag), NEW q \in Procs, PopRead(q)
    PROVE  \E tag2 \in [Nodes -> Nat] : Sound(f, p, tag2)'
<1> DEFINE h == Hand(q)
<1>1. /\ UNCHANGED heads /\ Alone(q) /\ word'[q] = Bump(word[q]) /\ item'[q] = nodeData[h]
      /\ pc[q] = "popRead" /\ pc'[q] = "popHead"
      /\ nodeData' = [nodeData EXCEPT ![h] = NoData] /\ UNCHANGED <<nextFree, nextPushed>>
  BY DEF TypeOK, PopRead, Goto, Alone, Hand
<1>2. q \in Holders /\ q \in Holders'
  BY <1>1 DEF Holders
<1>3. /\ h \in Nodes /\ word[q] = <<h, tag[h]>> /\ tag \in [Nodes -> Nat] /\ tag[h] \in Nat
      /\ Carries(q)
  BY <1>2, HandKnown
<1>4. PICK tag2 : tag2 = Grown(tag, h)
  OBVIOUS
<1>5. /\ tag2 \in [Nodes -> Nat] /\ tag2[h] = tag[h] + 1
      /\ \A n \in Nodes \ {h} : tag2[n] = tag[n]
  BY <1>3, <1>4 DEF Grown
<1>6. word'[q] = <<h, tag2[h]>> /\ Hand(q)' = h
  BY <1>1, <1>3, <1>5 DEF Bump, Hand, Node
<1>7. \A n \in Nodes \ {h} :
          /\ nodeData'[n] = nodeData[n] /\ nextFree'[n] = nextFree[n]
          /\ nextPushed'[n] = nextPushed[n]
  BY <1>1 DEF TypeOK
<1>8. Carries(q)'
  BY <1>1, <1>3 DEF Carries, PushPcs, Back
<1>9. Sound(f, p, tag2)'
  BY <1>1, <1>2, <1>5, <1>6, <1>7, <1>8, HandStep
<1> QED BY <1>5, <1>9

-----------------------------------------------------------------------------
(* What the step that takes a node leaves of what r has read.               *)
PushStill(r, tag, tag2, m) ==
    /\ PushReads(r, tag) /\ Hand(r)' \in Nodes
    /\ word'[r][2] <= tag2[Hand(r)']
    /\ word'[r][2] = tag2[Hand(r)'] =>
          \A t \in Holders' : Hand(t)' = Hand(r)' => pc'[t] \notin Back
    /\ Hand(r) = m => word'[r][2] < tag[m] + 1

PopStill(r, f, f2, tag, tag2, m) ==
    /\ PopReads(r, f, tag) /\ Hand(r)' \in Nodes
    /\ word'[r][2] <= tag2[Hand(r)']
    /\ word'[r][2] = tag2[Hand(r)'] =>
          /\ ~ In(Hand(r)', f2)
          /\ \A t \in Holders' : Hand(t)' = Hand(r)' => pc'[t] = "popRead"
    /\ Hand(r) = m => word'[r][2] < tag[m] + 1

TakenFrom(f, f2, p2, tag, tag2, m) ==
    /\ tag2 \in [Nodes -> Nat]
    /\ \A n \in Nodes : n # m => tag2[n] = tag[n]
    /\ Placed(f2, p2, tag2)'
    /\ \A r \in Procs :
          /\ pc'[r] \in {"pushNext", "pushTake"} => PushStill(r, tag, tag2, m)
          /\ pc'[r] \in {"popNext", "popTake"} => PopStill(r, f, f2, tag, tag2, m)

(* A node h that leaves a list is in the hand of the thread whose CAS took  *)
(* it, and the tag of the node m that is the head now has grown.            *)
LEMMA Picked ==
    ASSUME TypeOK, NEW f, NEW p, NEW tag, Sound(f, p, tag), NEW q \in Procs, Alone(q),
           q \notin Holders, q \in Holders', pc'[q] \notin Back,
           NEW h \in Nodes, word[q] = <<h, tag[h]>>, word'[q] = word[q],
           NEW f2, NEW p2, NEW m, NEW tag2, tag2 = Grown(tag, m),
           \/ In(h, f) /\ ~ In(h, p)
           \/ In(h, p) /\ ~ In(h, f) /\ pc'[q] = "popRead",
           \A n \in Nodes : /\ In(n, f2) <=> In(n, f) /\ n # h
                            /\ In(n, p2) <=> In(n, p) /\ n # h,
           m \in Nodes => In(m, f2) \/ In(m, p2)
    PROVE  TakenFrom(f, f2, p2, tag, tag2, m)
<1>1. /\ tag2 \in [Nodes -> Nat]
      /\ \A n \in Nodes : tag2[n] = IF n = m THEN tag[n] + 1 ELSE tag[n]
      /\ \A n \in Nodes : tag[n] \in Nat
  <2>1. tag \in [Nodes -> Nat]
    BY DEF Sound
  <2> QED BY <2>1 DEF Grown
<1>2. /\ Holders' = Holders \cup {q}
      /\ \A r \in Holders : r # q /\ word'[r] = word[r] /\ Hand(r)' = Hand(r) /\ pc'[r] = pc[r]
      /\ Hand(q)' = h /\ word'[q] = <<h, tag2[h]>>
  <2>1. \A r \in Procs : r # q => (r \in Holders' <=> r \in Holders)
    BY DEF Holders, Alone
  <2>2. Holders' = Holders \cup {q}
    BY <2>1 DEF Holders
  <2>3. \A r \in Holders : r # q /\ word'[r] = word[r] /\ Hand(r)' = Hand(r) /\ pc'[r] = pc[r]
    BY DEF Holders, Alone, Hand
  <2>4. tag2[h] = tag[h]
    BY <1>1
  <2>5. Node(<<h, tag[h]>>) = h
    BY DEF Node
  <2> QED BY <2>2, <2>3, <2>4, <2>5 DEF Hand
<1>3. \A r \in Holders : /\ Hand(r) \in Nodes /\ ~ In(Hand(r), f) /\ ~ In(Hand(r), p)
                         /\ Hand(r) # h /\ word'[r] = <<Hand(r), tag2[Hand(r)]>>
  <2> SUFFICES ASSUME NEW r \in Holders
               PROVE  /\ Hand(r) \in Nodes /\ ~ In(Hand(r), f) /\ ~ In(Hand(r), p)
                      /\ Hand(r) # h /\ word'[r] = <<Hand(r), tag2[Hand(r)]>>
    OBVIOUS
  <2>1. /\ Hand(r) \in Nodes /\ ~ In(Hand(r), f) /\ ~ In(Hand(r), p)
        /\ word[r] = <<Hand(r), tag[Hand(r)]>>
    BY DEF Sound, Placed
  <2> QED BY <1>1, <1>2, <2>1
<1>4. Placed(f2, p2, tag2)'
  <2>1. \A n \in Nodes : ~ (In(n, f2) /\ In(n, p2))
    BY DEF Sound, Placed
  <2>2. \A r \in Holders' : /\ Hand(r)' \in Nodes /\ ~ In(Hand(r)', f2) /\ ~ In(Hand(r)', p2)
                            /\ word'[r] = <<Hand(r)', tag2[Hand(r)']>>
    BY <1>2, <1>3
  <2>3. \A r, t \in Holders' : Hand(r)' = Hand(t)' => r = t
    BY <1>2, <1>3 DEF Sound, Placed
  <2>4. \A n \in Nodes : In(n, f2) \/ In(n, p2) \/ \E r \in Holders' : Hand(r)' = n
    <3> SUFFICES ASSUME NEW n \in Nodes
                 PROVE  In(n, f2) \/ In(n, p2) \/ \E r \in Holders' : Hand(r)' = n
      OBVIOUS
    <3>1. In(n, f) \/ In(n, p) \/ \E r \in Holders : Hand(r) = n
      BY DEF Sound, Placed
    <3> QED BY <1>2, <3>1
  <2> QED BY <2>1, <2>2, <2>3, <2>4 DEF Placed
<1>5. ASSUME NEW r \in Procs, pc'[r] \in {"pushNext", "pushTake", "popNext", "popTake"}
      PROVE  /\ pc'[r] = pc[r] /\ word'[r] = word[r] /\ Hand(r)' = Hand(r)
             /\ word[r][2] \in Nat
  BY <1>5 DEF Holders, Alone, Hand, TypeOK, Words
<1>6. ASSUME NEW r \in Procs, pc'[r] \in {"pushNext", "pushTake"}
      PROVE  PushStill(r, tag, tag2, m)
  <2>1. PushReads(r, tag) /\ Hand(r) \in Nodes
    BY <1>5, <1>6 DEF Sound, Readers, PushReads
  <2>2. /\ word'[r][2] <= tag2[Hand(r)]
        /\ word'[r][2] = tag2[Hand(r)] => word[r][2] = tag[Hand(r)]
        /\ Hand(r) = m => word'[r][2] < tag[m] + 1
    BY <1>1, <1>5, <1>6, <2>1 DEF PushReads
  <2>3. word'[r][2] = tag2[Hand(r)] =>
            \A t \in Holders' : Hand(t)' = Hand(r) => pc'[t] \notin Back
    BY <1>2, <2>1, <2>2 DEF PushReads
  <2> QED BY <1>5, <1>6, <2>1, <2>2, <2>3 DEF PushStill
<1>7. ASSUME NEW r \in Procs, pc'[r] \in {"popNext", "popTake"}
      PROVE  PopStill(r, f, f2, tag, tag2, m)
  <2>1. PopReads(r, f, tag) /\ Hand(r) \in Nodes
    BY <1>5, <1>7 DEF Sound, Readers, PopReads
  <2>2. /\ word'[r][2] <= tag2[Hand(r)]
        /\ word'[r][2] = tag2[Hand(r)] => word[r][2] = tag[Hand(r)]
        /\ Hand(r) = m => word'[r][2] < tag[m] + 1
    BY <1>1, <1>5, <1>7, <2>1 DEF PopReads
  <2>3. word'[r][2] = tag2[Hand(r)] =>
            /\ ~ In(Hand(r), f2)
            /\ \A t \in Holders' : Hand(t)' = Hand(r) => pc'[t] = "popRead"
    BY <1>2, <2>1, <2>2 DEF PopReads
  <2> QED BY <1>5, <1>7, <2>1, <2>2, <2>3 DEF PopStill
<1> QED BY <1>1, <1>4, <1>6, <1>7 DEF TakenFrom


(* What the thread had read of the head is still true, and a thread that    *)
(* waits for the head to be what it was waits for a tag that is past.       *)
LEMMA TakeFree ==
    ASSUME TypeOK, NEW f, NEW p, NEW tag, Sound(f, p, tag), NEW q \in Procs, PushTake(q)
    PROVE  /\ Tail(f) \in Seq(Nodes)
           /\ \E tag2 \in [Nodes -> Nat] : Sound(Tail(f), p, tag2)'
<1> DEFINE h == Hand(q)
           x == next[q]
           m == Node(x)
<1>1. /\ pc[q] = "pushTake" /\ pc'[q] = "pushWrite" /\ free = word[q] /\ h = Node(free)
      /\ free' = Bump(x) /\ UNCHANGED <<pushed, nodes>> /\ Alone(q)
      /\ word'[q] = word[q] /\ item'[q] = item[q]
  BY DEF TypeOK, PushTake, Goto, Forget, Alone, Hand
<1>2. q \notin Holders /\ q \in Holders' /\ pc'[q] \notin Back
  BY <1>1 DEF Holders, Back
<1>3. PushReads(q, tag)
  BY <1>1 DEF Sound, Readers
<1>4. h \in Nodes /\ x = nextFree[h] /\ Node(free) # 0
  BY <1>1, <1>3 DEF PushReads, Nodes
<1>5. word[q] = <<h, tag[h]>> /\ In(h, f) /\ ~ In(h, p)
  BY <1>1, <1>4, FreeHead
<1>6. PICK g : g = Tail(f)
  OBVIOUS
<1>7. PICK tag2 : tag2 = Grown(tag, m)
  OBVIOUS
<1>8. /\ Listed(g, Bump(x), nextFree, tag2) /\ g \in Seq(Nodes)
      /\ \A n \in Nodes : In(n, g) <=> In(n, f) /\ n # h
      /\ m # 0 => In(m, g) /\ m \in Nodes /\ x[2] = tag[m]
  <2>1. nextFree \in [Nodes -> Words] /\ tag \in [Nodes -> Nat] /\ Listed(f, free, nextFree, tag)
    BY DEF TypeOK, Sound
  <2>2. FirstTaken(f, free, nextFree, tag)
    BY <1>4, <2>1, ListTaken
  <2>3. nextFree[Node(free)] = x /\ Node(free) = h
    BY <1>1, <1>4
  <2> QED BY <1>6, <1>7, <2>2, <2>3 DEF FirstTaken
<1>9. \A n \in Nodes : In(n, p) <=> In(n, p) /\ n # h
  BY <1>5
<1>10. m \in Nodes => In(m, g) \/ In(m, p)
  BY <1>8 DEF Nodes
<1>11. /\ tag2 \in [Nodes -> Nat]
       /\ \A n \in Nodes : n # m => tag2[n] = tag[n]
       /\ Placed(g, p, tag2)'
       /\ \A r \in Procs :
             /\ pc'[r] \in {"pushNext", "pushTake"} => PushStill(r, tag, tag2, m)
             /\ pc'[r] \in {"popNext", "popTake"} => PopStill(r, f, g, tag, tag2, m)
  <2>1. PICK a, b : a = h /\ b = m
    OBVIOUS
  <2>2. a \in Nodes /\ word[q] = <<a, tag[a]>> /\ word'[q] = word[q] /\ tag2 = Grown(tag, b)
    BY <1>1, <1>4, <1>5, <1>7, <2>1
  <2>3. \A n \in Nodes : (In(n, g) <=> In(n, f) /\ n # a) /\ (In(n, p) <=> In(n, p) /\ n # a)
    BY <1>8, <1>9, <2>1
  <2>4. In(a, f) /\ ~ In(a, p) /\ Alone(q) /\ (b \in Nodes => In(b, g) \/ In(b, p))
    BY <1>1, <1>5, <1>10, <2>1
  <2>5. TakenFrom(f, g, p, tag, tag2, b)
    <3> HIDE DEF h, m
    <3> QED BY <1>2, <2>2, <2>3, <2>4, Picked
  <2> QED BY <2>1, <2>5 DEF TakenFrom
<1>12. Listed(p, pushed', nextPushed', tag2)
  <2>1. \A n \in Nodes : In(n, p) => n # m
    BY <1>8 DEF Sound, Placed, Nodes
  <2>2. \A n \in Nodes : In(n, p) => nextPushed'[n] = nextPushed[n] /\ tag2[n] = tag[n]
    BY <1>1, <1>11, <2>1 DEF nodes
  <2> QED BY <1>1, <2>2, ListStays DEF Sound
<1>13. ASSUME NEW r \in Procs, pc'[r] \in {"pushNext", "pushTake"} PROVE PushReads(r, tag2)'
  <2>1. PushStill(r, tag, tag2, m)
    BY <1>11, <1>13
  <2>2. free' # word'[r]
    <3> SUFFICES ASSUME free' = word'[r] PROVE FALSE
      OBVIOUS
    <3>1. Hand(r)' = m /\ word'[r][2] = x[2] + 1
      BY <1>1 DEF Bump, Hand, Node
    <3>2. Hand(r)' = Hand(r) /\ m \in Nodes
      BY <1>1, <1>13, <2>1, <3>1 DEF Alone, Hand, PushStill
    <3>2a. m # 0
      BY <3>2 DEF Nodes
    <3>3. word'[r][2] = tag[m] + 1 /\ word'[r][2] < tag[m] + 1 /\ tag[m] \in Nat
      BY <1>8, <2>1, <3>1, <3>2, <3>2a DEF Sound, PushStill
    <3> QED BY <3>3
  <2> QED BY <2>1, <2>2 DEF PushReads, PushStill
<1>14. ASSUME NEW r \in Procs, pc'[r] \in {"popNext", "popTake"} PROVE PopReads(r, g, tag2)'
  <2>1. PopStill(r, f, g, tag, tag2, m)
    BY <1>11, <1>14
  <2>2. /\ r # q /\ pc'[r] = pc[r] /\ word'[r] = word[r] /\ next'[r] = next[r]
        /\ Hand(r)' = Hand(r) /\ pushed' = pushed /\ nextPushed' = nextPushed
    BY <1>1, <1>14 DEF Alone, Hand, nodes
  <2>3. pc'[r] = "popTake" /\ pushed' = word'[r] => next'[r] = nextPushed'[Hand(r)']
    BY <2>1, <2>2 DEF PopReads, PopStill
  <2> QED BY <2>1, <2>3 DEF PopReads, PopStill
<1>15. Readers(g, tag2)'
  BY <1>13, <1>14 DEF Readers
<1>16. ASSUME NEW r \in Procs PROVE Carries(r)'
  <2>1. Carries(r)
    BY DEF Sound, Elements, Carries
  <2>2. CASE r = q
    BY <1>1, <2>1, <2>2 DEF Carries, PushPcs
  <2>3. CASE r # q
    <3>1. /\ pc'[r] = pc[r] /\ word'[r] = word[r] /\ next'[r] = next[r] /\ item'[r] = item[r]
          /\ UNCHANGED <<nodeData, nextFree, nextPushed>> /\ Hand(r)' = Hand(r)
      BY <1>1, <2>3 DEF Alone, Hand, nodes
    <3> QED BY <2>1, <3>1 DEF Carries
  <2> QED BY <2>2, <2>3
<1>17. Elements(p)'
  BY <1>1, <1>16 DEF Sound, Elements, Carries, nodes
<1>18. nextFree' = nextFree /\ Listed(g, free', nextFree', tag2)
  BY <1>1, <1>8 DEF nodes
<1>19. Sound(g, p, tag2)'
  BY <1>11, <1>12, <1>15, <1>17, <1>18 DEF Sound
<1> QED BY <1>6, <1>8, <1>11, <1>19


LEMMA TakePushed ==
    ASSUME TypeOK, NEW f, NEW p, NEW tag, Sound(f, p, tag), NEW q \in Procs, PopTake(q)
    PROVE  /\ Tail(p) \in Seq(Nodes) /\ Node(pushed) # 0
           /\ \E tag2 \in [Nodes -> Nat] : Sound(f, Tail(p), tag2)'
<1> DEFINE h == Hand(q)
           x == next[q]
           m == Node(x)
<1>1. /\ pc[q] = "popTake" /\ pc'[q] = "popRead" /\ pushed = word[q] /\ h = Node(pushed)
      /\ pushed' = Bump(x) /\ UNCHANGED <<free, nodes>> /\ Alone(q)
      /\ word'[q] = word[q]
  BY DEF TypeOK, PopTake, Goto, Forget, Alone, Hand
<1>2. q \notin Holders /\ q \in Holders' /\ pc'[q] \notin Back
  BY <1>1 DEF Holders, Back
<1>3. PopReads(q, f, tag)
  BY <1>1 DEF Sound, Readers
<1>4. h \in Nodes /\ x = nextPushed[h] /\ Node(pushed) # 0
  BY <1>1, <1>3 DEF PopReads, Nodes
<1>5. word[q] = <<h, tag[h]>> /\ In(h, p) /\ ~ In(h, f)
  BY <1>1, <1>4, PushedHead
<1>6. PICK g : g = Tail(p)
  OBVIOUS
<1>7. PICK tag2 : tag2 = Grown(tag, m)
  OBVIOUS
<1>8. /\ Listed(g, Bump(x), nextPushed, tag2) /\ g \in Seq(Nodes)
      /\ \A n \in Nodes : In(n, g) <=> In(n, p) /\ n # h
      /\ m # 0 => In(m, g) /\ m \in Nodes /\ x[2] = tag[m]
  <2>1. nextPushed \in [Nodes -> Words] /\ tag \in [Nodes -> Nat] /\ Listed(p, pushed, nextPushed, tag)
    BY DEF TypeOK, Sound
  <2>2. FirstTaken(p, pushed, nextPushed, tag)
    BY <1>4, <2>1, ListTaken
  <2>3. nextPushed[Node(pushed)] = x /\ Node(pushed) = h
    BY <1>1, <1>4
  <2> QED BY <1>6, <1>7, <2>2, <2>3 DEF FirstTaken
<1>9. \A n \in Nodes : In(n, f) <=> In(n, f) /\ n # h
  BY <1>5
<1>10. m \in Nodes => In(m, f) \/ In(m, g)
  BY <1>8 DEF Nodes
<1>11. /\ tag2 \in [Nodes -> Nat]
       /\ \A n \in Nodes : n # m => tag2[n] = tag[n]
       /\ Placed(f, g, tag2)'
       /\ \A r \in Procs :
             /\ pc'[r] \in {"pushNext", "pushTake"} => PushStill(r, tag, tag2, m)
             /\ pc'[r] \in {"popNext", "popTake"} => PopStill(r, f, f, tag, tag2, m)
  <2>1. PICK a, b : a = h /\ b = m
    OBVIOUS
  <2>2. a \in Nodes /\ word[q] = <<a, tag[a]>> /\ word'[q] = word[q] /\ tag2 = Grown(tag, b)
    BY <1>1, <1>4, <1>5, <1>7, <2>1
  <2>3. \A n \in Nodes : (In(n, f) <=> In(n, f) /\ n # a) /\ (In(n, g) <=> In(n, p) /\ n # a)
    BY <1>8, <1>9, <2>1
  <2>4. /\ In(a, p) /\ ~ In(a, f) /\ pc'[q] = "popRead" /\ Alone(q)
        /\ b \in Nodes => In(b, f) \/ In(b, g)
    BY <1>1, <1>5, <1>10, <2>1
  <2>5. TakenFrom(f, f, g, tag, tag2, b)
    <3> HIDE DEF h, m
    <3> QED BY <1>2, <2>2, <2>3, <2>4, Picked
  <2> QED BY <2>1, <2>5 DEF TakenFrom
<1>12. Listed(f, free', nextFree', tag2)
  <2>1. \A n \in Nodes : In(n, f) => n # m
    BY <1>8 DEF Sound, Placed, Nodes
  <2>2. \A n \in Nodes : In(n, f) => nextFree'[n] = nextFree[n] /\ tag2[n] = tag[n]
    BY <1>1, <1>11, <2>1 DEF nodes
  <2> QED BY <1>1, <2>2, ListStays DEF Sound
<1>13. ASSUME NEW r \in Procs, pc'[r] \in {"popNext", "popTake"} PROVE PopReads(r, f, tag2)'
  <2>1. PopStill(r, f, f, tag, tag2, m)
    BY <1>11, <1>13
  <2>2. pushed' # word'[r]
    <3> SUFFICES ASSUME pushed' = word'[r] PROVE FALSE
      OBVIOUS
    <3>1. Hand(r)' = m /\ word'[r][2] = x[2] + 1
      BY <1>1 DEF Bump, Hand, Node
    <3>2. Hand(r)' = Hand(r) /\ m \in Nodes
      BY <1>1, <1>13, <2>1, <3>1 DEF Alone, Hand, PopStill
    <3>3. m # 0
      BY <3>2 DEF Nodes
    <3>4. word'[r][2] = tag[m] + 1 /\ word'[r][2] < tag[m] + 1 /\ tag[m] \in Nat
      BY <1>8, <2>1, <3>1, <3>2, <3>3 DEF Sound, PopStill
    <3> QED BY <3>4
  <2> QED BY <2>1, <2>2 DEF PopReads, PopStill
<1>14. ASSUME NEW r \in Procs, pc'[r] \in {"pushNext", "pushTake"} PROVE PushReads(r, tag2)'
  <2>1. PushStill(r, tag, tag2, m)
    BY <1>11, <1>14
  <2>2. /\ r # q /\ pc'[r] = pc[r] /\ word'[r] = word[r] /\ next'[r] = next[r]
        /\ Hand(r)' = Hand(r) /\ free' = free /\ nextFree' = nextFree
    BY <1>1, <1>14 DEF Alone, Hand, nodes
  <2>3. pc'[r] = "pushTake" /\ free' = word'[r] => next'[r] = nextFree'[Hand(r)']
    BY <2>1, <2>2 DEF PushReads, PushStill
  <2> QED BY <2>1, <2>3 DEF PushReads, PushStill
<1>15. Readers(f, tag2)'
  BY <1>13, <1>14 DEF Readers
<1>16. /\ \A i \in DOMAIN g : nodeData[g[i]] \in Data
       /\ nodeData[h] \in Data
  <2>1. \A n \in Nodes : In(n, p) => nodeData[n] \in Data
    BY DEF Sound, Elements, In
  <2>2. \A i \in DOMAIN g : g[i] \in Nodes /\ In(g[i], g)
    BY <1>8 DEF In
  <2> QED BY <1>4, <1>5, <1>8, <2>1, <2>2
<1>17. ASSUME NEW r \in Procs PROVE Carries(r)'
  <2>1. Carries(r)
    BY DEF Sound, Elements, Carries
  <2>2. CASE r = q
    <3>1. nodeData' = nodeData /\ Hand(r)' = h
      BY <1>1, <2>2 DEF Hand, nodes
    <3> QED BY <1>1, <1>16, <2>2, <3>1 DEF Carries, PushPcs, Back
  <2>3. CASE r # q
    <3>1. /\ pc'[r] = pc[r] /\ word'[r] = word[r] /\ next'[r] = next[r] /\ item'[r] = item[r]
          /\ UNCHANGED <<nodeData, nextFree, nextPushed>> /\ Hand(r)' = Hand(r)
      BY <1>1, <2>3 DEF Alone, Hand, nodes
    <3> QED BY <2>1, <3>1 DEF Carries
  <2> QED BY <2>2, <2>3
<1>18. Elements(g)'
  BY <1>1, <1>16, <1>17 DEF Elements, Carries, nodes
<1>19. nextPushed' = nextPushed /\ Listed(g, pushed', nextPushed', tag2)
  BY <1>1, <1>8 DEF nodes
<1>20. Sound(f, g, tag2)'
  BY <1>11, <1>12, <1>15, <1>18, <1>19 DEF Sound
<1> QED BY <1>4, <1>6, <1>8, <1>11, <1>20

-----------------------------------------------------------------------------
(* A node that was linked to the head, and is in the hand of q, becomes the *)
(* head.  Who would still take it for the head it was has an older tag.     *)
LEMMA GiveBack ==
    ASSUME TypeOK, NEW f, NEW p, NEW tag, Sound(f, p, tag), NEW q \in Procs, PopCas(q)
    PROVE  \E g \in Seq(Nodes) : Sound(g, p, tag)'
<1> DEFINE h == Hand(q)
<1>1. /\ pc[q] = "popCas" /\ pc'[q] = "idle" /\ free = next[q] /\ free' = word[q]
      /\ UNCHANGED <<pushed, nodes>> /\ Alone(q)
  BY DEF TypeOK, PopCas, Return, Goto, Alone
<1>2. q \in Holders /\ pc[q] \in Back
  BY <1>1 DEF Holders, Back
<1>3. /\ h \in Nodes /\ word[q] = <<h, tag[h]>> /\ tag \in [Nodes -> Nat] /\ Carries(q)
      /\ ~ In(h, f) /\ ~ In(h, p) /\ \A r \in Holders : r # q => Hand(r) # h
  BY <1>2, HandKnown DEF Sound, Placed
<1>4. nextFree[h] = free
  BY <1>1, <1>3 DEF Carries
<1>5. PICK g : g = <<h>> \o f
  OBVIOUS
<1>5a. /\ Listed(g, word[q], nextFree, tag) /\ g \in Seq(Nodes)
       /\ \A n \in Nodes : In(n, g) <=> n = h \/ In(n, f)
  <2>1. Listed(f, free, nextFree, tag)
    BY DEF Sound
  <2>2. FirstPut(f, h, nextFree, tag)
    BY <1>3, <1>4, <2>1, ListPut
  <2> QED BY <1>3, <1>5, <2>2 DEF FirstPut
<1>6. /\ Holders' = Holders \ {q}
      /\ \A r \in Holders' : word'[r] = word[r] /\ Hand(r)' = Hand(r) /\ pc'[r] = pc[r]
  <2>1. q \notin Holders'
    BY <1>1 DEF Holders
  <2>2. \A r \in Procs : r # q => (r \in Holders' <=> r \in Holders)
    BY <1>1 DEF Holders, Alone
  <2>3. Holders' = Holders \ {q}
    BY <2>1, <2>2 DEF Holders
  <2>4. \A r \in Holders' : word'[r] = word[r] /\ Hand(r)' = Hand(r) /\ pc'[r] = pc[r]
    BY <1>1, <2>3 DEF Holders, Alone, Hand
  <2> QED BY <2>3, <2>4
<1>7. Placed(g, p, tag)'
  BY <1>3, <1>5a, <1>6 DEF Sound, Placed
<1>8. ASSUME NEW r \in Procs, r # q
      PROVE  /\ pc'[r] = pc[r] /\ word'[r] = word[r] /\ next'[r] = next[r] /\ item'[r] = item[r]
             /\ Hand(r)' = Hand(r)
             /\ UNCHANGED <<pushed, nodeData, nextFree, nextPushed>>
  BY <1>1, <1>8 DEF Alone, Hand, nodes
<1>9. ASSUME NEW r \in Procs, pc'[r] \in {"pushNext", "pushTake"} PROVE PushReads(r, tag)'
  <2>1. r # q /\ PushReads(r, tag)
    BY <1>1, <1>8, <1>9 DEF Sound, Readers
  <2>2. free' # word'[r]
    <3> SUFFICES ASSUME word[r] = word[q] PROVE FALSE
      BY <1>1, <1>8, <2>1
    <3>1. Hand(r) = h /\ word[r][2] = tag[h]
      BY <1>3 DEF Hand
    <3> QED BY <1>2, <2>1, <3>1 DEF PushReads
  <2> QED BY <1>6, <1>8, <2>1, <2>2 DEF PushReads
<1>10. ASSUME NEW r \in Procs, pc'[r] \in {"popNext", "popTake"} PROVE PopReads(r, g, tag)'
  <2>1. r # q /\ PopReads(r, f, tag)
    BY <1>1, <1>8, <1>10 DEF Sound, Readers
  <2>2. word[r][2] = tag[Hand(r)] => Hand(r) # h
    BY <1>1, <1>2, <2>1 DEF PopReads
  <2> QED BY <1>5a, <1>6, <1>8, <2>1, <2>2 DEF PopReads
<1>11. Readers(g, tag)'
  BY <1>9, <1>10 DEF Readers
<1>12. ASSUME NEW r \in Procs PROVE Carries(r)'
  <2>1. Carries(r)
    BY DEF Sound, Elements, Carries
  <2>2. CASE r = q
    BY <1>1, <2>2 DEF Carries, PushPcs, Back
  <2>3. CASE r # q
    BY <1>8, <2>1, <2>3 DEF Carries
  <2> QED BY <2>2, <2>3
<1>13. Elements(p)'
  BY <1>1, <1>12 DEF Sound, Elements, Carries, nodes
<1>14. /\ Listed(g, free', nextFree', tag) /\ Listed(p, pushed', nextPushed', tag)
  BY <1>1, <1>5a DEF Sound, nodes
<1>15. Sound(g, p, tag)'
  BY <1>3, <1>7, <1>11, <1>13, <1>14 DEF Sound
<1> QED BY <1>5a, <1>15

LEMMA MakeHead ==
    ASSUME TypeOK, NEW f, NEW p, NEW tag, Sound(f, p, tag), NEW q \in Procs, PushCas(q)
    PROVE  /\ <<Hand(q)>> \o p \in Seq(Nodes) /\ Hand(q) \in Nodes
           /\ nodeData[Hand(q)] = item[q] /\ item[q] \in Data
           /\ \E g : g = <<Hand(q)>> \o p /\ Sound(f, g, tag)'
<1> DEFINE h == Hand(q)
<1>1. /\ pc[q] = "pushCas" /\ pc'[q] = "idle" /\ pushed = next[q] /\ pushed' = word[q]
      /\ UNCHANGED <<free, nodes>> /\ Alone(q)
  BY DEF TypeOK, PushCas, Return, Goto, Alone
<1>2. q \in Holders /\ pc[q] # "popRead"
  BY <1>1 DEF Holders
<1>3. /\ h \in Nodes /\ word[q] = <<h, tag[h]>> /\ tag \in [Nodes -> Nat] /\ Carries(q)
      /\ ~ In(h, f) /\ ~ In(h, p) /\ \A r \in Holders : r # q => Hand(r) # h
  BY <1>2, HandKnown DEF Sound, Placed
<1>4. nextPushed[h] = pushed /\ nodeData[h] = item[q] /\ item[q] \in Data
  BY <1>1, <1>3 DEF Carries, PushPcs
<1>5. PICK s : s = <<h>> \o p
  OBVIOUS
<1>5a. /\ Listed(s, word[q], nextPushed, tag) /\ s \in Seq(Nodes)
       /\ \A n \in Nodes : In(n, s) <=> n = h \/ In(n, p)
  <2>1. Listed(p, pushed, nextPushed, tag)
    BY DEF Sound
  <2>2. FirstPut(p, h, nextPushed, tag)
    BY <1>3, <1>4, <2>1, ListPut
  <2> QED BY <1>3, <1>5, <2>2 DEF FirstPut
<1>6. /\ Holders' = Holders \ {q}
      /\ \A r \in Holders' : word'[r] = word[r] /\ Hand(r)' = Hand(r) /\ pc'[r] = pc[r]
  <2>1. q \notin Holders'
    BY <1>1 DEF Holders
  <2>2. \A r \in Procs : r # q => (r \in Holders' <=> r \in Holders)
    BY <1>1 DEF Holders, Alone
  <2>3. Holders' = Holders \ {q}
    BY <2>1, <2>2 DEF Holders
  <2>4. \A r \in Holders' : word'[r] = word[r] /\ Hand(r)' = Hand(r) /\ pc'[r] = pc[r]
    BY <1>1, <2>3 DEF Holders, Alone, Hand
  <2> QED BY <2>3, <2>4
<1>7. Placed(f, s, tag)'
  <2> QED BY <1>3, <1>5a, <1>6 DEF Sound, Placed
<1>8. ASSUME NEW r \in Procs, r # q
      PROVE  /\ pc'[r] = pc[r] /\ word'[r] = word[r] /\ next'[r] = next[r] /\ item'[r] = item[r]
             /\ Hand(r)' = Hand(r)
             /\ UNCHANGED <<free, nodeData, nextFree, nextPushed>>
  BY <1>1, <1>8 DEF Alone, Hand, nodes
<1>9. ASSUME NEW r \in Procs, pc'[r] \in {"pushNext", "pushTake"} PROVE PushReads(r, tag)'
  <2>1. r # q /\ PushReads(r, tag)
    BY <1>1, <1>8, <1>9 DEF Sound, Readers
  <2> QED BY <1>6, <1>8, <2>1 DEF PushReads
<1>10. ASSUME NEW r \in Procs, pc'[r] \in {"popNext", "popTake"} PROVE PopReads(r, f, tag)'
  <2>1. r # q /\ PopReads(r, f, tag)
    BY <1>1, <1>8, <1>10 DEF Sound, Readers
  <2>2. pushed' # word'[r]
    <3> SUFFICES ASSUME word[r] = word[q] PROVE FALSE
      BY <1>1, <1>8, <2>1
    <3>1. Hand(r) = h /\ word[r][2] = tag[h]
      BY <1>3 DEF Hand
    <3> QED BY <1>2, <2>1, <3>1 DEF PopReads
  <2> QED BY <1>6, <1>8, <2>1, <2>2 DEF PopReads
<1>11. Readers(f, tag)'
  BY <1>9, <1>10 DEF Readers
<1>12. ASSUME NEW r \in Procs PROVE Carries(r)'
  <2>1. Carries(r)
    BY DEF Sound, Elements, Carries
  <2>2. CASE r = q
    BY <1>1, <2>2 DEF Carries, PushPcs, Back
  <2>3. CASE r # q
    BY <1>8, <2>1, <2>3 DEF Carries
  <2> QED BY <2>2, <2>3
<1>13. \A i \in DOMAIN s : nodeData'[s[i]] \in Data
  <2>1. \A n \in Nodes : In(n, p) => nodeData[n] \in Data
    BY DEF Sound, Elements, In
  <2>2. \A i \in DOMAIN s : s[i] \in Nodes /\ In(s[i], s)
    BY <1>5a DEF In
  <2> QED BY <1>1, <1>4, <1>5a, <2>1, <2>2 DEF nodes
<1>14. Elements(s)'
  BY <1>12, <1>13 DEF Elements, Carries
<1>15. /\ Listed(s, pushed', nextPushed', tag) /\ Listed(f, free', nextFree', tag)
  BY <1>1, <1>5a DEF Sound, nodes
<1>16. Sound(f, s, tag)'
  BY <1>3, <1>7, <1>11, <1>14, <1>15 DEF Sound
<1> QED BY <1>3, <1>4, <1>5, <1>5a, <1>16

-----------------------------------------------------------------------------
LEMMA InitInv == Init => IInv
<1> SUFFICES ASSUME Init PROVE IInv
  OBVIOUS
<1> USE CapacityAssumption
<1>1. TypeOK
  <2>1. free \in Words /\ pushed \in Words /\ Null \in Words
    BY DEF Init, Words, Null
  <2>2. nextFree \in [Nodes -> Words]
    <3>1. \A n \in Nodes : (IF n = Capacity THEN Null ELSE <<n + 1, 0>>) \in Words
      BY <2>1 DEF Nodes, Words
    <3> QED BY <3>1 DEF Init
  <2> QED BY <2>1, <2>2 DEF Init, TypeOK
<1> DEFINE g == [i \in 1 .. Capacity |-> i]
           z == [n \in Nodes |-> 0]
<1>2. PICK f, tag : f = g /\ tag = z
  OBVIOUS
<1>3. /\ f \in Seq(Nodes) /\ Len(f) = Capacity /\ DOMAIN f = 1 .. Capacity
      /\ \A i \in 1 .. Capacity : f[i] = i
  <2>1. g \in Seq(Nodes) /\ Len(g) = Capacity
    BY DEF Nodes
  <2> QED BY <1>2, <2>1
<1>4. tag \in [Nodes -> Nat] /\ \A n \in Nodes : tag[n] = 0
  BY <1>2
<1>5. Listed(f, free, nextFree, tag)
  <2>1. ASSUME NEW i \in 1 .. Capacity PROVE WordAt(f, free, nextFree, i) = <<f[i], tag[f[i]]>>
    <3>1. CASE i = 1
      BY <1>3, <1>4, <3>1 DEF WordAt, Init, Nodes
    <3>2. CASE i # 1
      <4>1. i - 1 \in 1 .. Capacity /\ i - 1 # Capacity /\ (i - 1) + 1 = i
        BY <3>2
      <4>2. f[i - 1] = i - 1 /\ f[i] = i /\ tag[i] = 0
        BY <1>3, <1>4, <4>1 DEF Nodes
      <4>3. nextFree[i - 1] = <<i, 0>>
        BY <4>1 DEF Init, Nodes
      <4> QED BY <3>2, <4>2, <4>3 DEF WordAt
    <3> QED BY <3>1, <3>2
  <2>2. Node(WordAt(f, free, nextFree, Len(f) + 1)) = 0
    <3>1. Capacity + 1 # 1 /\ (Capacity + 1) - 1 = Capacity /\ Capacity \in 1 .. Capacity
      OBVIOUS
    <3>2. nextFree[Capacity] = Null
      BY <3>1 DEF Init, Nodes
    <3> QED BY <1>3, <3>1, <3>2 DEF WordAt, Node, Null
  <2> QED BY <1>3, <2>1, <2>2 DEF Listed
<1>6. <<>> \in Seq(Nodes) /\ DOMAIN <<>> = {} /\ Len(<<>>) + 1 = 1
  OBVIOUS
<1>7. Listed(<<>>, pushed, nextPushed, tag)
  BY <1>6 DEF Listed, WordAt, Init, Null, Node
<1>8. Holders = {}
  BY DEF Init, Holders
<1>9. Placed(f, <<>>, tag)
  <2>1. \A n \in Nodes : In(n, f) /\ ~ In(n, <<>>)
    BY <1>3, <1>6 DEF In, Nodes
  <2> QED BY <1>8, <2>1 DEF Placed
<1>10. Readers(f, tag) /\ Elements(<<>>)
  BY <1>6 DEF Init, Readers, Elements, PushPcs, Back
<1>11. Sound(f, <<>>, tag)
  BY <1>4, <1>5, <1>7, <1>9, <1>10 DEF Sound
<1> QED BY <1>1, <1>3, <1>4, <1>6, <1>11 DEF IInv

LEMMA PushType ==
    ASSUME TypeOK, NEW f, NEW p, NEW tag, Sound(f, p, tag), NEW q \in Procs, PushStep(q)
    PROVE  TypeOK'
<1>1. /\ free \in Words /\ pushed \in Words /\ word[q] \in Words /\ next[q] \in Words
      /\ item[q] \in Data \cup {NoData}
  BY DEF TypeOK
<1>2. Null \in Words /\ \A w \in Words : Bump(w) \in Words
  BY CapacityAssumption DEF Null, Words, Bump
<1> USE DEF TypeOK, heads, nodes, PushPcs, PopPcs
<1>3. ASSUME NEW d \in Data, Push(q, d) PROVE TypeOK'
  BY <1>1, <1>3 DEF Push, Goto
<1>4. CASE PushNext(q)
  <2>1. Hand(q) \in Nodes
    BY <1>4 DEF Sound, Readers, PushReads, PushNext
  <2>2. nextFree[Node(word[q])] \in Words
    BY <2>1 DEF Hand
  <2> QED BY <1>4, <2>2 DEF PushNext, Goto
<1>5. CASE PushTake(q)
  BY <1>1, <1>2, <1>5 DEF PushTake, Goto, Forget
<1>6. CASE PushRetry(q)
  BY <1>1, <1>2, <1>6 DEF PushRetry, Goto, Forget
<1>7. CASE PushGivesUp(q)
  BY <1>2, <1>7 DEF PushGivesUp, Return, Goto
<1>8. CASE PushWrite(q)
  BY <1>1, <1>8 DEF PushWrite, Goto
<1>9. CASE PushHead(q)
  BY <1>1, <1>9 DEF PushHead, Goto
<1>10. CASE PushLink(q)
  BY <1>1, <1>10 DEF PushLink, Goto
<1>11. CASE PushCas(q)
  BY <1>1, <1>2, <1>11 DEF PushCas, Return, Goto
<1>12. CASE PushCasFails(q)
  BY <1>2, <1>12 DEF PushCasFails, Forget, Goto
<1> QED BY <1>3, <1>4, <1>5, <1>6, <1>7, <1>8, <1>9, <1>10, <1>11, <1>12 DEF PushStep

LEMMA PopType ==
    ASSUME TypeOK, NEW f, NEW p, NEW tag, Sound(f, p, tag), NEW q \in Procs, PopStep(q)
    PROVE  TypeOK'
<1>1. /\ free \in Words /\ pushed \in Words /\ word[q] \in Words /\ next[q] \in Words
      /\ item[q] \in Data \cup {NoData}
  BY DEF TypeOK
<1>2. Null \in Words /\ \A w \in Words : Bump(w) \in Words
  BY CapacityAssumption DEF Null, Words, Bump
<1> USE DEF TypeOK, heads, nodes, PushPcs, PopPcs
<1>3. CASE Pop(q)
  BY <1>1, <1>3 DEF Pop, Goto
<1>4. CASE PopNext(q)
  <2>1. Hand(q) \in Nodes
    BY <1>4 DEF Sound, Readers, PopReads, PopNext
  <2>2. nextPushed[Node(word[q])] \in Words
    BY <2>1 DEF Hand
  <2> QED BY <1>4, <2>2 DEF PopNext, Goto
<1>5. CASE PopTake(q)
  BY <1>1, <1>2, <1>5 DEF PopTake, Goto, Forget
<1>6. CASE PopRetry(q)
  BY <1>1, <1>2, <1>6 DEF PopRetry, Goto, Forget
<1>7. CASE PopGivesUp(q)
  BY <1>2, <1>7 DEF PopGivesUp, Return, Goto
<1>8. CASE PopRead(q)
  <2>1. Hand(q) \in Nodes
    BY <1>8, HandKnown DEF PopRead, Holders
  <2>2. nodeData[Node(word[q])] \in Data \cup {NoData} /\ Bump(word[q]) \in Words
    BY <1>1, <1>2, <2>1 DEF Hand
  <2> QED BY <1>8, <2>2 DEF PopRead, Goto
<1>9. CASE PopHead(q)
  BY <1>1, <1>9 DEF PopHead, Goto
<1>10. CASE PopLink(q)
  BY <1>1, <1>10 DEF PopLink, Goto
<1>11. CASE PopCas(q)
  BY <1>1, <1>2, <1>11 DEF PopCas, Return, Goto
<1>12. CASE PopCasFails(q)
  BY <1>2, <1>12 DEF PopCasFails, Forget, Goto
<1> QED BY <1>3, <1>4, <1>5, <1>6, <1>7, <1>8, <1>9, <1>10, <1>11, <1>12 DEF PopStep

(* A step puts a node on the list of pushed nodes, takes its first one, or  *)
(* leaves the list alone.                                                   *)
Becomes(s, p, q) == \/ s = p /\ ~ PushCas(q) /\ ~ PopTake(q)
                    \/ s = <<Hand(q)>> \o p /\ PushCas(q)
                    \/ s = Tail(p) /\ PopTake(q)

LEMMA PushSound ==
    ASSUME TypeOK, NEW f, NEW p, NEW tag, Sound(f, p, tag), NEW q \in Procs, PushStep(q)
    PROVE  \E g, s, tag2 : Sound(g, s, tag2)' /\ Becomes(s, p, q)
<1>1. ~ PopTake(q)
  BY DEF PushStep, Push, PushNext, PushTake, PushRetry, PushGivesUp, PushWrite, PushHead,
         PushLink, PushCas, PushCasFails, PopTake
<1>2. CASE PushCas(q)
  <2>1. PICK s : s = <<Hand(q)>> \o p /\ Sound(f, s, tag)'
    BY <1>2, MakeHead
  <2> QED BY <1>2, <2>1 DEF Becomes
<1>3. CASE ~ PushCas(q)
  <2>1. Becomes(p, p, q)
    BY <1>1, <1>3 DEF Becomes
  <2>2. CASE PushTake(q)
    <3>1. PICK tag2 \in [Nodes -> Nat] : Sound(Tail(f), p, tag2)'
      BY <2>2, TakeFree
    <3> QED BY <2>1, <3>1
  <2>3. Sound(f, p, tag)' => \E g, s, tag2 : Sound(g, s, tag2)' /\ Becomes(s, p, q)
    BY <2>1
  <2>4. CASE (\E d \in Data : Push(q, d)) \/ PushRetry(q)
    BY <2>3, <2>4, ReadFreeHead
  <2>5. CASE PushNext(q)
    BY <2>3, <2>5, ReadNext
  <2>6. CASE PushGivesUp(q)
    BY <2>3, <2>6, GiveUp
  <2>7. CASE PushWrite(q) \/ PushLink(q)
    BY <2>3, <2>7, FillNode
  <2>8. CASE PushHead(q) \/ PushCasFails(q)
    BY <2>3, <2>8, Look
  <2> QED BY <1>3, <2>2, <2>4, <2>5, <2>6, <2>7, <2>8 DEF PushStep
<1> QED BY <1>2, <1>3

LEMMA PopSound ==
    ASSUME TypeOK, NEW f, NEW p, NEW tag, Sound(f, p, tag), NEW q \in Procs, PopStep(q)
    PROVE  \E g, s, tag2 : Sound(g, s, tag2)' /\ Becomes(s, p, q)
<1>1. ~ PushCas(q)
  BY DEF PopStep, Pop, PopNext, PopTake, PopRetry, PopGivesUp, PopRead, PopHead,
         PopLink, PopCas, PopCasFails, PushCas
<1>2. CASE PopTake(q)
  <2>1. PICK tag2 \in [Nodes -> Nat] : Sound(f, Tail(p), tag2)'
    BY <1>2, TakePushed
  <2> QED BY <1>2, <2>1 DEF Becomes
<1>3. CASE ~ PopTake(q)
  <2>1. Becomes(p, p, q)
    BY <1>1, <1>3 DEF Becomes
  <2>2. CASE PopCas(q)
    <3>1. PICK g \in Seq(Nodes) : Sound(g, p, tag)'
      BY <2>2, GiveBack
    <3> QED BY <2>1, <3>1
  <2>3. CASE PopRead(q)
    <3>1. PICK tag2 \in [Nodes -> Nat] : Sound(f, p, tag2)'
      BY <2>3, EmptyNode
    <3> QED BY <2>1, <3>1
  <2>4. Sound(f, p, tag)' => \E g, s, tag2 : Sound(g, s, tag2)' /\ Becomes(s, p, q)
    BY <2>1
  <2>5. CASE Pop(q) \/ PopRetry(q)
    BY <2>4, <2>5, ReadPushedHead
  <2>6. CASE PopNext(q)
    BY <2>4, <2>6, ReadNext
  <2>7. CASE PopGivesUp(q)
    BY <2>4, <2>7, GiveUp
  <2>8. CASE PopLink(q)
    BY <2>4, <2>8, FillNode
  <2>9. CASE PopHead(q) \/ PopCasFails(q)
    BY <2>4, <2>9, Look
  <2> QED BY <1>3, <2>2, <2>3, <2>5, <2>6, <2>7, <2>8, <2>9 DEF PopStep
<1> QED BY <1>2, <1>3

LEMMA StepInv == IInv /\ [Next]_vars => IInv'
<1> SUFFICES ASSUME IInv, [Next]_vars PROVE IInv'
  OBVIOUS
<1>1. TypeOK
  BY DEF IInv
<1>2. PICK f, p, tag : Sound(f, p, tag)
  BY DEF IInv
<1>3. ASSUME NEW q \in Procs, PushStep(q) PROVE IInv'
  <2>1. TypeOK'
    BY <1>1, <1>2, <1>3, PushType
  <2>2. \E g, s, tag2 : Sound(g, s, tag2)'
    BY <1>1, <1>2, <1>3, PushSound
  <2> QED BY <2>1, <2>2 DEF IInv
<1>4. ASSUME NEW q \in Procs, PopStep(q) PROVE IInv'
  <2>1. TypeOK'
    BY <1>1, <1>2, <1>4, PopType
  <2>2. \E g, s, tag2 : Sound(g, s, tag2)'
    BY <1>1, <1>2, <1>4, PopSound
  <2> QED BY <2>1, <2>2 DEF IInv
<1>5. CASE UNCHANGED vars
  <2>1. TypeOK'
    BY <1>1, <1>5 DEF vars, TypeOK
  <2>2. /\ free' = free /\ pushed' = pushed /\ nextFree' = nextFree /\ nextPushed' = nextPushed
        /\ nodeData' = nodeData /\ pc' = pc /\ word' = word /\ next' = next /\ item' = item
    BY <1>5 DEF vars
  <2>3. Sound(f, p, tag)'
    BY <1>2, <2>2 DEF Sound, Placed, Readers, PushReads, PopReads, Elements, Holders, Hand
  <2> QED BY <2>1, <2>3 DEF IInv
<1> QED BY <1>3, <1>4, <1>5 DEF Next

(* The nodes of the two lists, the nodes in the hands of threads, and the   *)
(* tags that the threads have read fit together.                            *)
THEOREM Invariant == Spec => []IInv
<1>1. Init => IInv
  BY InitInv
<1>2. IInv /\ [Next]_vars => IInv'
  BY StepInv
<1> QED BY <1>1, <1>2, PTL DEF Spec

-----------------------------------------------------------------------------
(* A non-empty set of natural numbers has a least element.                  *)
LEMMA Least ==
    ASSUME NEW T \in SUBSET Nat, T # {}
    PROVE  \E x \in T : \A y \in T : x <= y
<1> DEFINE R == OpToRel(<, Nat)
<1>1. IsWellFoundedOn(R, Nat)
  BY NatLessThanWellFounded
<1>2. ASSUME NEW x \in Nat, NEW y \in Nat, x < y PROVE <<x, y>> \in R
  BY <1>2 DEF OpToRel
<1> HIDE DEF R
<1>3. PICK x \in T : \A y \in T : ~ (<<y, x>> \in R)
  BY <1>1, WFMin
<1>4. \A y \in T : x \in Nat /\ y \in Nat /\ ~ (y < x)
  BY <1>2, <1>3
<1> QED BY <1>4

(* A list in which no node comes twice has no more nodes than there are.    *)
LEMMA FewNodes ==
    ASSUME NEW s \in Seq(Nodes), \A i, j \in DOMAIN s : s[i] = s[j] => i = j
    PROVE  Len(s) \in 0 .. Capacity
<1>1. Len(s) \in Nat /\ DOMAIN s = 1 .. Len(s) /\ s \in [1 .. Len(s) -> Nodes]
  OBVIOUS
<1>2. /\ IsFiniteSet(1 .. Len(s)) /\ Cardinality(1 .. Len(s)) = Len(s)
      /\ IsFiniteSet(Nodes) /\ Cardinality(Nodes) = Capacity
  <2>1. \A n \in Nat : IsFiniteSet(1 .. n) /\ Cardinality(1 .. n) = n
    <3> SUFFICES ASSUME NEW n \in Nat PROVE IsFiniteSet(1 .. n) /\ Cardinality(1 .. n) = n
      OBVIOUS
    <3>1. /\ IsFiniteSet(1 .. n)
          /\ Cardinality(1 .. n) = IF 1 > n THEN 0 ELSE n - 1 + 1
      BY FS_Interval
    <3> QED BY <3>1
  <2> QED BY <1>1, <2>1, CapacityAssumption DEF Nodes
<1>3. ~ (Cardinality(Nodes) < Cardinality(1 .. Len(s)))
  <2> SUFFICES ASSUME Cardinality(Nodes) < Cardinality(1 .. Len(s)) PROVE FALSE
    OBVIOUS
  <2>1. \E i, j \in 1 .. Len(s) : i # j /\ s[i] = s[j]
    BY <1>1, <1>2, FS_PigeonHole
  <2> QED BY <1>1, <2>1
<1> QED BY <1>1, <1>2, <1>3, CapacityAssumption

LEMMA InLists ==
    ASSUME NEW s
    PROVE  s \in Lists <=> /\ s \in Seq(Nodes) /\ Len(s) \in 0 .. Capacity
                           /\ DOMAIN s = 1 .. Len(s) /\ \A i \in 1 .. Len(s) : s[i] \in Nodes
<1>1. ASSUME s \in Lists
      PROVE  /\ s \in Seq(Nodes) /\ Len(s) \in 0 .. Capacity
             /\ DOMAIN s = 1 .. Len(s) /\ \A i \in 1 .. Len(s) : s[i] \in Nodes
  <2>1. PICK k \in 0 .. Capacity : s \in [1 .. k -> Nodes]
    BY <1>1 DEF Lists
  <2>2. k \in Nat
    BY CapacityAssumption
  <2>3. s \in Seq(Nodes) /\ Len(s) = k
    BY <2>1, <2>2
  <2> QED BY <2>1, <2>3
<1>2. ASSUME s \in Seq(Nodes), Len(s) \in 0 .. Capacity PROVE s \in Lists
  <2>1. s \in [1 .. Len(s) -> Nodes]
    BY <1>2
  <2> QED BY <1>2, <2>1 DEF Lists
<1> QED BY <1>1, <1>2

LEMMA ListedIsList ==
    ASSUME NEW s, NEW head, NEW fo, NEW tag, Listed(s, head, fo, tag)
    PROVE  s \in Lists /\ IsList(s, head, fo)
<1>1. s \in Lists
  BY FewNodes, InLists DEF Listed
<1>2. \A i \in 1 .. Len(s) : Node(WordAt(s, head, fo, i)) = s[i]
  BY <1>1, InLists DEF Listed, Node
<1> QED BY <1>1, <1>2 DEF Listed, IsList

(* A head leads to one list at most: at the first place where two lists     *)
(* differ, the nodes before would be linked to two words.                   *)
LEMMA OneList ==
    ASSUME NEW s \in Lists, NEW t \in Lists, NEW head, NEW fo,
           IsList(s, head, fo), IsList(t, head, fo)
    PROVE  s = t
<1> DEFINE S(k) == Node(WordAt(s, head, fo, k))
           T(k) == Node(WordAt(t, head, fo, k))
           Apart == {k \in Nat \ {0} : k <= Len(s) + 1 /\ k <= Len(t) + 1 /\ S(k) # T(k)}
<1>1. /\ Len(s) \in Nat /\ DOMAIN s = 1 .. Len(s) /\ \A i \in 1 .. Len(s) : s[i] \in Nodes
      /\ Len(t) \in Nat /\ DOMAIN t = 1 .. Len(t) /\ \A i \in 1 .. Len(t) : t[i] \in Nodes
      /\ s \in Seq(Nodes) /\ t \in Seq(Nodes)
  BY InLists
<1>2. /\ \A i \in 1 .. Len(s) : S(i) = s[i]
      /\ \A i \in 1 .. Len(t) : T(i) = t[i]
      /\ S(Len(s) + 1) = 0 /\ T(Len(t) + 1) = 0
  BY DEF IsList
<1>3. S(1) = T(1)
  BY DEF WordAt
<1>4. \A k \in Nat : k # 0 /\ k # 1 => S(k) = Node(fo[s[k - 1]]) /\ T(k) = Node(fo[t[k - 1]])
  BY DEF WordAt
<1> HIDE DEF S, T
<1>5. Apart = {}
  <2> SUFFICES ASSUME Apart # {} PROVE FALSE
    OBVIOUS
  <2>1. PICK k \in Apart : \A j \in Apart : k <= j
    BY Least
  <2>2. k \in Nat /\ k # 0 /\ k # 1 /\ S(k) # T(k) /\ k <= Len(s) + 1 /\ k <= Len(t) + 1
    BY <1>3
  <2>3. k - 1 \in Nat \ {0} /\ k - 1 \in 1 .. Len(s) /\ k - 1 \in 1 .. Len(t) /\ ~ (k <= k - 1)
    BY <1>1, <2>2
  <2>4. S(k - 1) = T(k - 1)
    BY <1>1, <2>1, <2>2, <2>3
  <2>5. s[k - 1] = t[k - 1]
    BY <1>2, <2>3, <2>4
  <2> QED BY <1>4, <2>2, <2>5
<1>6. \A k \in Nat \ {0} : k <= Len(s) + 1 /\ k <= Len(t) + 1 => S(k) = T(k)
  BY <1>5
<1>7. ~ (Len(s) < Len(t))
  <2> SUFFICES ASSUME Len(s) < Len(t) PROVE FALSE
    OBVIOUS
  <2>1. Len(s) + 1 \in 1 .. Len(t) /\ Len(s) + 1 \in Nat \ {0} /\ Len(s) + 1 <= Len(t) + 1
    BY <1>1
  <2>2. S(Len(s) + 1) = 0 /\ T(Len(s) + 1) \in Nodes
    BY <1>1, <1>2, <2>1
  <2>3. 0 \notin Nodes
    BY DEF Nodes
  <2> QED BY <1>1, <1>6, <2>1, <2>2, <2>3
<1>8. ~ (Len(t) < Len(s))
  <2> SUFFICES ASSUME Len(t) < Len(s) PROVE FALSE
    OBVIOUS
  <2>1. Len(t) + 1 \in 1 .. Len(s) /\ Len(t) + 1 \in Nat \ {0} /\ Len(t) + 1 <= Len(s) + 1
    BY <1>1
  <2>2. T(Len(t) + 1) = 0 /\ S(Len(t) + 1) \in Nodes
    BY <1>1, <1>2, <2>1
  <2>3. 0 \notin Nodes
    BY DEF Nodes
  <2> QED BY <1>1, <1>6, <2>1, <2>2, <2>3
<1>9. Len(s) = Len(t)
  <2>1. \A a, b \in Nat : ~ (a < b) /\ ~ (b < a) => a = b
    OBVIOUS
  <2>2. Len(s) \in Nat /\ Len(t) \in Nat
    BY <1>1
  <2> QED BY <1>7, <1>8, <2>1, <2>2
<1>10. \A i \in 1 .. Len(s) : s[i] = t[i]
  <2> SUFFICES ASSUME NEW i \in 1 .. Len(s) PROVE s[i] = t[i]
    OBVIOUS
  <2>1. i \in Nat \ {0} /\ i <= Len(s) + 1 /\ i <= Len(t) + 1 /\ i \in 1 .. Len(t)
    BY <1>1, <1>9
  <2> QED BY <1>2, <1>6, <2>1
<1> QED BY <1>1, <1>9, <1>10

LEMMA TheList ==
    ASSUME NEW s, NEW head, NEW fo, NEW tag, Listed(s, head, fo, tag)
    PROVE  (CHOOSE t \in Lists : IsList(t, head, fo)) = s
BY ListedIsList, OneList

-----------------------------------------------------------------------------
LEMMA SoundOnePlace ==
    ASSUME NEW f, NEW p, NEW tag, Sound(f, p, tag)
    PROVE  OnePlace
<1>1. /\ f \in Lists /\ IsList(f, free, nextFree) /\ p \in Lists /\ IsList(p, pushed, nextPushed)
  BY ListedIsList DEF Sound
<1>2. PICK places : places = f \o p
  OBVIOUS
<1>3. /\ f \in Seq(Nodes) /\ DOMAIN f = 1 .. Len(f) /\ p \in Seq(Nodes) /\ DOMAIN p = 1 .. Len(p)
      /\ Len(f) \in Nat /\ Len(p) \in Nat /\ Len(places) = Len(f) + Len(p)
      /\ \A k \in 1 .. Len(f) + Len(p) :
            places[k] = IF k <= Len(f) THEN f[k] ELSE p[k - Len(f)]
  <2>1. f \in Seq(Nodes) /\ p \in Seq(Nodes)
    BY DEF Sound, Listed
  <2> QED BY <1>2, <2>1, ConcatOf
<1>4. ASSUME NEW k \in 1 .. Len(places)
      PROVE  \/ k \in DOMAIN f /\ places[k] = f[k]
             \/ ~ (k <= Len(f)) /\ k - Len(f) \in DOMAIN p /\ places[k] = p[k - Len(f)]
  BY <1>3
<1>5. \A n \in Nodes : (\E k \in 1 .. Len(places) : places[k] = n) <=> In(n, f) \/ In(n, p)
  <2> SUFFICES ASSUME NEW n \in Nodes
               PROVE  (\E k \in 1 .. Len(places) : places[k] = n) <=> In(n, f) \/ In(n, p)
    OBVIOUS
  <2>1. (\E k \in 1 .. Len(places) : places[k] = n) => In(n, f) \/ In(n, p)
    BY <1>4 DEF In
  <2>2. ASSUME NEW i \in DOMAIN f, f[i] = n PROVE \E k \in 1 .. Len(places) : places[k] = n
    <3>1. i \in 1 .. Len(places) /\ places[i] = n
      BY <1>3, <2>2
    <3> QED BY <3>1
  <2>3. ASSUME NEW i \in DOMAIN p, p[i] = n PROVE \E k \in 1 .. Len(places) : places[k] = n
    <3>1. /\ Len(f) + i \in 1 .. Len(f) + Len(p) /\ ~ (Len(f) + i <= Len(f))
          /\ (Len(f) + i) - Len(f) = i
      BY <1>3
    <3>2. places[Len(f) + i] = n /\ Len(f) + i \in 1 .. Len(places)
      BY <1>3, <2>3, <3>1
    <3> QED BY <3>2
  <2> QED BY <2>1, <2>2, <2>3 DEF In
<1>6. ASSUME NEW i \in 1 .. Len(places), NEW j \in 1 .. Len(places), places[i] = places[j]
      PROVE  i = j
  <2>1. /\ \A a, b \in DOMAIN f : f[a] = f[b] => a = b
        /\ \A a, b \in DOMAIN p : p[a] = p[b] => a = b
    BY DEF Sound, Listed
  <2>2. \A a \in DOMAIN f, b \in DOMAIN p : f[a] # p[b]
    <3> SUFFICES ASSUME NEW a \in DOMAIN f, NEW b \in DOMAIN p, f[a] = p[b] PROVE FALSE
      OBVIOUS
    <3>1. f[a] \in Nodes /\ In(f[a], f) /\ In(f[a], p)
      BY <1>3 DEF In
    <3> QED BY <3>1 DEF Sound, Placed
  <2>3. i \in Nat /\ j \in Nat /\ Len(f) \in Nat
    BY <1>3
  <2>4. CASE i \in DOMAIN f /\ places[i] = f[i]
    <3>1. j \in DOMAIN f /\ places[j] = f[j]
      BY <1>4, <1>6, <2>2, <2>4
    <3> QED BY <1>6, <2>1, <2>4, <3>1
  <2>5. CASE ~ (i <= Len(f)) /\ i - Len(f) \in DOMAIN p /\ places[i] = p[i - Len(f)]
    <3>1. j - Len(f) \in DOMAIN p /\ places[j] = p[j - Len(f)]
      BY <1>4, <1>6, <2>2, <2>5
    <3>2. i - Len(f) = j - Len(f)
      BY <1>6, <2>1, <2>5, <3>1
    <3> QED BY <2>3, <3>2
  <2> QED BY <1>4, <2>4, <2>5
<1>7. \A n \in Nodes : (\E k \in 1 .. Len(places) : places[k] = n)
                           <=> ~ \E q \in Holders : Node(word[q]) = n
  BY <1>5 DEF Sound, Placed, Hand
<1>8. \A q, r \in Holders : Node(word[q]) = Node(word[r]) => q = r
  BY DEF Sound, Placed, Hand
<1>9. /\ \A i, j \in 1 .. Len(f \o p) : (f \o p)[i] = (f \o p)[j] => i = j
      /\ \A n \in Nodes : (\E k \in 1 .. Len(f \o p) : (f \o p)[k] = n)
                               <=> ~ \E q \in Holders : Node(word[q]) = n
  BY <1>2, <1>6, <1>7
<1> QED BY <1>1, <1>8, <1>9, Zenon DEF OnePlace

(* Every node is once on the free list, once on the list of pushed nodes or *)
(* in the hand of one thread, and a CAS on a head that succeeds installs    *)
(* what the list holds below it: no ABA, for any number of threads, nodes   *)
(* and calls.                                                               *)
THEOREM LinksAreSound == Spec => []LinksSound
<1>1. IInv => LinksSound
  <2> SUFFICES ASSUME IInv PROVE LinksSound
    OBVIOUS
  <2>1. PICK f, p, tag : Sound(f, p, tag)
    BY DEF IInv
  <2>2. OnePlace
    BY <2>1, SoundOnePlace
  <2>3. NoStaleNext
    BY <2>1 DEF NoStaleNext, Sound, Readers, PushReads, PopReads, Hand
  <2> QED BY <2>2, <2>3 DEF IInv, LinksSound
<1> QED BY <1>1, Invariant, PTL

-----------------------------------------------------------------------------
(* The two lists implement a stack: what a step changes of the elements.    *)
LEMMA Frame ==
    ASSUME TypeOK, NEW q \in Procs, PushStep(q) \/ PopStep(q)
    PROVE  /\ Alone(q)
           /\ \A n \in Nodes : nodeData'[n] = nodeData[n] \/ (q \in Holders /\ n = Hand(q))
<1>1. CASE PushWrite(q)
  <2>1. Alone(q) /\ q \in Holders
    BY <1>1 DEF PushWrite, Goto, Alone, TypeOK, Holders
  <2>2. nodeData' = [nodeData EXCEPT ![Hand(q)] = item[q]] /\ nodeData \in [Nodes -> Data \cup {NoData}]
    BY <1>1 DEF PushWrite, TypeOK, Hand
  <2> QED BY <2>1, <2>2
<1>2. CASE PopRead(q)
  <2>1. Alone(q) /\ q \in Holders
    BY <1>2 DEF PopRead, Goto, Alone, TypeOK, Holders
  <2>2. nodeData' = [nodeData EXCEPT ![Hand(q)] = NoData] /\ nodeData \in [Nodes -> Data \cup {NoData}]
    BY <1>2 DEF PopRead, TypeOK, Hand
  <2> QED BY <2>1, <2>2
<1>3. CASE PushStep(q) /\ ~ PushWrite(q)
  BY <1>3 DEF PushStep, Push, PushNext, PushTake, PushRetry, PushGivesUp, PushHead, PushLink,
              PushCas, PushCasFails, Goto, Forget, Return, Alone, TypeOK, nodes
<1>4. CASE PopStep(q) /\ ~ PopRead(q)
  BY <1>4 DEF PopStep, Pop, PopNext, PopTake, PopRetry, PopGivesUp, PopHead, PopLink,
              PopCas, PopCasFails, Goto, Forget, Return, Alone, TypeOK, nodes
<1> QED BY <1>1, <1>2, <1>3, <1>4

LEMMA OthersKeep ==
    ASSUME TypeOK, NEW f, NEW p, NEW tag, Sound(f, p, tag), NEW q \in Procs,
           PushStep(q) \/ PopStep(q)
    PROVE  /\ \A r \in Procs : r # q => Taken(r)' = Taken(r)
           /\ \A n \in Nodes : In(n, p) => nodeData'[n] = nodeData[n]
<1>1. /\ Alone(q)
      /\ \A n \in Nodes : nodeData'[n] = nodeData[n] \/ (q \in Holders /\ n = Hand(q))
  BY Frame
<1>2. ASSUME NEW r \in Procs, r # q PROVE Taken(r)' = Taken(r)
  <2>1. pc'[r] = pc[r] /\ item'[r] = item[r] /\ Hand(r)' = Hand(r)
    BY <1>1, <1>2 DEF Alone, Hand
  <2>2. pc[r] = "popRead" => nodeData'[Hand(r)] = nodeData[Hand(r)]
    <3> SUFFICES ASSUME pc[r] = "popRead" PROVE nodeData'[Hand(r)] = nodeData[Hand(r)]
      OBVIOUS
    <3>1. r \in Holders /\ Hand(r) \in Nodes /\ (q \in Holders => Hand(q) # Hand(r))
      BY <1>2 DEF Holders, Sound, Placed
    <3> QED BY <1>1, <3>1
  <2> QED BY <2>1, <2>2 DEF Taken, Hand
<1>3. \A n \in Nodes : In(n, p) => nodeData'[n] = nodeData[n]
  BY <1>1 DEF Sound, Placed
<1> QED BY <1>2, <1>3

(* What the thread of a pop has taken is the same after every step but its  *)
(* two CASes.                                                               *)
LEMMA OwnKeeps ==
    ASSUME TypeOK, NEW q \in Procs, PushStep(q) \/ PopStep(q), ~ PopTake(q), ~ PopCas(q)
    PROVE  Taken(q)' = Taken(q)
<1>1. CASE PushStep(q)
  <2>1. pc[q] \notin {"popRead", "popHead", "popLink", "popCas"}
        /\ pc'[q] \notin {"popRead", "popHead", "popLink", "popCas"}
    BY <1>1 DEF PushStep, Push, PushNext, PushTake, PushRetry, PushGivesUp, PushWrite, PushHead,
                PushLink, PushCas, PushCasFails, Goto, Return, TypeOK
  <2> QED BY <2>1 DEF Taken
<1>2. CASE PopRead(q)
  BY <1>2 DEF PopRead, Goto, TypeOK, Taken
<1>3. CASE PopHead(q) \/ PopLink(q) \/ PopCasFails(q)
  BY <1>3 DEF PopHead, PopLink, PopCasFails, Goto, TypeOK, Taken
<1>4. CASE Pop(q) \/ PopNext(q) \/ PopRetry(q) \/ PopGivesUp(q)
  BY <1>4 DEF Pop, PopNext, PopRetry, PopGivesUp, Goto, Return, TypeOK, Taken
<1> QED BY <1>1, <1>2, <1>3, <1>4 DEF PopStep

(* The elements on the list of pushed nodes.                                *)
StackOf(s) == [i \in 1 .. Len(s) |-> nodeData[s[i]]]
Out == [q \in Procs |-> Taken(q)]

LEMMA StackIs ==
    ASSUME NEW f, NEW p, NEW tag, Sound(f, p, tag)
    PROVE  /\ PushedList = p /\ p \in Seq(Nodes) /\ Len(p) \in 0 .. Capacity
           /\ DOMAIN p = 1 .. Len(p) /\ StackOf(p) \in Seq(Data) /\ Len(StackOf(p)) = Len(p)
           /\ \A i \in 1 .. Len(p) : p[i] \in Nodes /\ In(p[i], p)
<1>1. PushedList = p
  BY TheList DEF Sound, PushedList
<1>2. p \in Seq(Nodes) /\ Len(p) \in 0 .. Capacity /\ DOMAIN p = 1 .. Len(p)
  BY FewNodes DEF Sound, Listed
<1>3. Len(p) \in Nat /\ \A i \in 1 .. Len(p) : nodeData[p[i]] \in Data
  BY <1>2 DEF Sound, Elements
<1>4. StackOf(p) \in Seq(Data) /\ Len(StackOf(p)) = Len(p)
  BY <1>3 DEF StackOf
<1> QED BY <1>1, <1>2, <1>4 DEF In


LEMMA StepMaps == IInv /\ [Next]_vars => [Lifo!Next]_Lifo!vars
<1> SUFFICES ASSUME IInv, [Next]_vars PROVE [Lifo!Next]_Lifo!vars
  OBVIOUS
<1>1. TypeOK
  BY DEF IInv
<1>2. PICK f, p, tag : Sound(f, p, tag)
  BY DEF IInv
<1>3. /\ PushedList = p /\ p \in Seq(Nodes) /\ Len(p) \in 0 .. Capacity
      /\ DOMAIN p = 1 .. Len(p) /\ StackOf(p) \in Seq(Data) /\ Len(StackOf(p)) = Len(p)
      /\ \A i \in 1 .. Len(p) : p[i] \in Nodes /\ In(p[i], p)
  BY <1>2, StackIs
<1>4. ASSUME UNCHANGED vars PROVE UNCHANGED Lifo!vars
  BY <1>4 DEF vars, Lifo!vars, PushedList, Taken
<1>5. ASSUME NEW q \in Procs, PushStep(q) \/ PopStep(q) PROVE [Lifo!Next]_Lifo!vars
  <2>1. PICK g, s, tag2 : Sound(g, s, tag2)' /\ Becomes(s, p, q)
    BY <1>1, <1>2, <1>5, PushSound, PopSound
  <2>2. PushedList' = s /\ Len(s) \in 0 .. Capacity
    <3>1. Listed(s, pushed', nextPushed', tag2)
      BY <2>1 DEF Sound
    <3>2. (CHOOSE t \in Lists : IsList(t, pushed', nextPushed')) = s
      BY <3>1, TheList
    <3> QED BY <3>1, <3>2, FewNodes DEF PushedList, Listed
  <2>3. /\ \A r \in Procs : r # q => Taken(r)' = Taken(r)
        /\ \A i \in 1 .. Len(p) : nodeData'[p[i]] = nodeData[p[i]]
    BY <1>1, <1>2, <1>3, <1>5, OthersKeep
  <2>4. CASE s = p /\ ~ PushCas(q) /\ ~ PopTake(q)
    <3>1. StackOf(PushedList)' = StackOf(PushedList)
      BY <1>3, <2>2, <2>3, <2>4 DEF StackOf
    <3>2. CASE ~ PopCas(q)
      <4>1. \A r \in Procs : Taken(r)' = Taken(r)
        BY <1>1, <1>5, <2>3, <2>4, <3>2, OwnKeeps
      <4>2. Out' = Out
        BY <4>1 DEF Out
      <4> QED BY <3>1, <4>2 DEF Lifo!vars, StackOf, Out
    <3>3. CASE PopCas(q)
      <4>1. pc[q] = "popCas" /\ pc'[q] = "idle"
        BY <1>1, <3>3 DEF PopCas, Return, Goto, TypeOK
      <4>2. Taken(q) = item[q] /\ item[q] \in Data /\ Taken(q)' = NoData
        BY <1>2, <4>1 DEF Taken, Sound, Elements, Back
      <4>3. Out[q] # NoData /\ Out' = [Out EXCEPT ![q] = NoData]
        BY <2>3, <4>2, DataAssumption DEF Out
      <4>4. Lifo!Deliver(q)
        BY <3>1, <4>3 DEF Lifo!Deliver, StackOf, Out
      <4> QED BY <4>4 DEF Lifo!Next
    <3> QED BY <3>2, <3>3
  <2>5. CASE s = <<Hand(q)>> \o p /\ PushCas(q)
    <3>0. Hand(q) \in Nodes /\ nodeData[Hand(q)] = item[q] /\ item[q] \in Data
      BY <1>1, <1>2, <2>5, MakeHead
    <3>1. PICK d \in Data : Hand(q) \in Nodes /\ nodeData[Hand(q)] = d /\ item[q] = d
      BY <3>0
    <3>2. /\ Len(s) = Len(p) + 1 /\ Len(p) \in Nat /\ s[1] = Hand(q)
          /\ \A i \in 1 .. Len(p) : s[i + 1] = p[i]
      BY <1>3, <2>5, <3>1, ConsOf
    <3>3. nodeData' = nodeData
      BY <2>5 DEF PushCas, nodes
    <3>4. Len(StackOf(p)) < Capacity
      BY <1>3, <2>2, <3>2, CapacityAssumption
    <3>5. StackOf(PushedList)' = <<d>> \o StackOf(p)
      <4>1. StackOf(PushedList)' = [i \in 1 .. Len(p) + 1 |-> nodeData[s[i]]]
        BY <2>2, <3>2, <3>3 DEF StackOf
      <4>2. PICK t : t = <<d>> \o StackOf(p)
        OBVIOUS
      <4>3. /\ t \in Seq(Data) /\ DOMAIN t = 1 .. Len(p) + 1 /\ t[1] = d
            /\ \A i \in 1 .. Len(p) : t[i + 1] = StackOf(p)[i]
        BY <1>3, <3>1, <4>2, ConsOf
      <4>4. \A i \in 1 .. Len(p) + 1 : t[i] = nodeData[s[i]]
        <5> SUFFICES ASSUME NEW i \in 1 .. Len(p) + 1 PROVE t[i] = nodeData[s[i]]
          OBVIOUS
        <5>1. CASE i = 1
          BY <3>1, <3>2, <4>3, <5>1
        <5>2. CASE i # 1
          <6>1. i - 1 \in 1 .. Len(p) /\ (i - 1) + 1 = i
            BY <3>2, <5>2
          <6>2. StackOf(p)[i - 1] = nodeData[p[i - 1]]
            BY <6>1 DEF StackOf
          <6> QED BY <3>2, <4>3, <6>1, <6>2
        <5> QED BY <5>1, <5>2
      <4>5. t = [i \in 1 .. Len(p) + 1 |-> nodeData[s[i]]]
        BY <4>3, <4>4
      <4> QED BY <4>1, <4>2, <4>5
    <3>6. Out' = Out
      <4>1. ~ PopTake(q) /\ ~ PopCas(q)
        BY <2>5 DEF PushCas, PopTake, PopCas
      <4>2. Taken(q)' = Taken(q)
        BY <1>1, <1>5, <4>1, OwnKeeps
      <4> QED BY <2>3, <4>2 DEF Out
    <3>7. Lifo!Put(d)
      BY <1>3, <3>4, <3>5, <3>6 DEF Lifo!Put, StackOf, Out
    <3> QED BY <3>1, <3>7 DEF Lifo!Next
  <2>6. CASE s = Tail(p) /\ PopTake(q)
    <3>1. /\ pc[q] = "popTake" /\ pc'[q] = "popRead" /\ nodeData' = nodeData
          /\ Hand(q) = Node(pushed) /\ Hand(q)' = Node(pushed)
      BY <1>1, <2>6 DEF PopTake, Goto, TypeOK, Hand, nodes
    <3>2. p # <<>> /\ p[1] = Node(pushed)
      <4>1. Node(pushed) # 0
        BY <1>1, <1>2, <2>6, TakePushed
      <4> QED BY <1>2, <4>1, HeadOf DEF Sound
    <3>3. /\ Len(s) = Len(p) - 1 /\ Len(p) \in Nat \ {0} /\ 1 \in 1 .. Len(p)
          /\ \A i \in 1 .. Len(p) - 1 : s[i] = p[i + 1]
      BY <1>3, <2>6, <3>2, RestOf
    <3>4. StackOf(p) # <<>> /\ Head(StackOf(p)) = nodeData[Node(pushed)]
      <4>1. StackOf(p)[1] = nodeData[p[1]]
        BY <3>3 DEF StackOf
      <4>2. StackOf(p) # <<>>
        BY <1>3, <3>3
      <4> QED BY <1>3, <3>2, <4>1, <4>2
    <3>5. StackOf(PushedList)' = Tail(StackOf(p))
      <4>1. StackOf(PushedList)' = [i \in 1 .. Len(p) - 1 |-> nodeData[s[i]]]
        BY <2>2, <3>1, <3>3 DEF StackOf
      <4>2. PICK t : t = Tail(StackOf(p))
        OBVIOUS
      <4>3. /\ t \in Seq(Data) /\ DOMAIN t = 1 .. Len(p) - 1
            /\ \A i \in 1 .. Len(p) - 1 : t[i] = StackOf(p)[i + 1]
        BY <1>3, <3>4, <4>2, RestOf
      <4>4. \A i \in 1 .. Len(p) - 1 : t[i] = nodeData[s[i]]
        <5> SUFFICES ASSUME NEW i \in 1 .. Len(p) - 1 PROVE t[i] = nodeData[s[i]]
          OBVIOUS
        <5>1. i + 1 \in 1 .. Len(p)
          BY <3>3
        <5>2. StackOf(p)[i + 1] = nodeData[p[i + 1]]
          BY <5>1 DEF StackOf
        <5> QED BY <3>3, <4>3, <5>2
      <4>5. t = [i \in 1 .. Len(p) - 1 |-> nodeData[s[i]]]
        BY <4>3, <4>4
      <4> QED BY <4>1, <4>2, <4>5
    <3>6. Out[q] = NoData /\ Out' = [Out EXCEPT ![q] = nodeData[Node(pushed)]]
      <4>1. Taken(q) = NoData /\ Taken(q)' = nodeData[Node(pushed)]
        BY <3>1 DEF Taken, Hand
      <4> QED BY <2>3, <4>1 DEF Out
    <3>7. Lifo!Take(q)
      BY <1>3, <3>4, <3>5, <3>6 DEF Lifo!Take, StackOf, Out
    <3> QED BY <3>7 DEF Lifo!Next
  <2> QED BY <2>1, <2>4, <2>5, <2>6 DEF Becomes
<1> QED BY <1>4, <1>5 DEF Next

(* The two lists are a bounded stack, for any number of threads, nodes and  *)
(* calls: a push takes effect at its last CAS, a pop at its first, and what *)
(* a pop takes is what was pushed last.                                     *)
THEOREM ListsImplementLifo == Spec => ImplementsLifo
<1>1. Init => Lifo!Init
  <2> SUFFICES ASSUME Init PROVE Lifo!Init
    OBVIOUS
  <2>1. IInv
    BY InitInv
  <2>2. PICK f, p, tag : Sound(f, p, tag)
    BY <2>1 DEF IInv
  <2>3. Node(pushed) = 0
    BY DEF Init, Null, Node
  <2>4. p = <<>>
    <3> SUFFICES ASSUME p # <<>> PROVE FALSE
      OBVIOUS
    <3>1. p \in Seq(Nodes) /\ 1 \in DOMAIN p
      BY <2>2 DEF Sound, Listed
    <3>2. WordAt(p, pushed, nextPushed, 1) = <<p[1], tag[p[1]]>> /\ p[1] \in Nodes
      BY <2>2, <3>1 DEF Sound, Listed
    <3>3. Node(pushed) \in Nodes
      BY <3>2 DEF WordAt, Node
    <3> QED BY <2>3, <3>3 DEF Nodes
  <2>5. PushedList = <<>>
    BY <2>2, <2>4, StackIs
  <2>6. StackOf(PushedList) = <<>>
    BY <2>5 DEF StackOf
  <2>7. Out = [q \in Procs |-> NoData]
    BY DEF Out, Taken, Init
  <2> QED BY <2>6, <2>7 DEF Lifo!Init, StackOf, Out
<1>2. IInv /\ [Next]_vars => [Lifo!Next]_Lifo!vars
  BY StepMaps
<1> QED BY <1>1, <1>2, Invariant, PTL DEF Spec, ImplementsLifo, Lifo!Spec
-----------------------------------------------------------------------------

(* The nodes of the persistent list, their free marks, the stack of free    *)
(* nodes and the counter agree.                                             *)
ListIInv == ListTypeOK /\ FreeListExact /\ SizeIsLive

LEMMA ListInitInv == ListInit => ListIInv
<1> SUFFICES ASSUME ListInit PROVE ListIInv
  OBVIOUS
<1>1. ListTypeOK
  <2>1. data \in [0 .. 0 - 1 -> Objects \cup {NoObject}]
    BY DEF ListInit
  <2>2. 0 \in 0 .. MaxNodes
    BY MaxNodesAssumption
  <2> QED BY <2>1, <2>2 DEF ListInit, ListTypeOK, Indices
<1>2. FreeListExact
  BY DEF ListInit, FreeListExact
<1>3. Live = {}
  BY DEF ListInit, Live, Indices
<1>4. SizeIsLive
  BY <1>3, FS_EmptySet DEF ListInit, SizeIsLive
<1> QED BY <1>1, <1>2, <1>4 DEF ListIInv

LEMMA ListLiveFinite == ASSUME ListTypeOK PROVE IsFiniteSet(Live)
<1>1. PICK n \in 0 .. MaxNodes : Indices = 0 .. n - 1
  BY DEF ListTypeOK, Indices
<1>2. n - 1 \in Int
  BY <1>1, MaxNodesAssumption
<1>3. IsFiniteSet(0 .. n - 1)
  BY <1>2, FS_Interval
<1> QED BY <1>1, <1>3, FS_Subset DEF Live

(* A node that is reused leaves the free stack and becomes live. *)
LEMMA ListReuseStep ==
    ASSUME ListIInv, NEW o \in Objects, AllocReuse(o)
    PROVE  /\ ListIInv'
           /\ \E i \in isFree : /\ Live' = Live \cup {i}
                                /\ data' = [data EXCEPT ![i] = o]
<1> DEFINE n == Len(freeList)
           i == freeList[n]
<1>1. n \in Nat \ {0} /\ i \in isFree /\ i \in Indices /\ i \notin Live
  BY DEF ListIInv, ListTypeOK, FreeListExact, AllocReuse, Live
<1>2. /\ data' = [data EXCEPT ![i] = o]
      /\ isFree' = isFree \ {i}
      /\ freeList' = SubSeq(freeList, 1, n - 1)
      /\ size' = size + 1
  BY DEF AllocReuse
<1>3. /\ freeList' \in Seq(Nat) /\ Len(freeList') = n - 1
      /\ \A k \in 1 .. n - 1 : freeList'[k] = freeList[k] /\ freeList[k] # i
  <2>1. freeList \in Seq(Nat) /\ n = Len(freeList) /\ n - 1 \in 0 .. n
    BY <1>1 DEF ListIInv, ListTypeOK
  <2>2. /\ SubSeq(freeList, 1, n - 1) \in Seq(Nat)
        /\ Len(SubSeq(freeList, 1, n - 1)) = n - 1
        /\ \A k \in 1 .. n - 1 : SubSeq(freeList, 1, n - 1)[k] = freeList[k]
    <3>1. \A k \in 1 .. n - 1 : freeList[k] \in Nat
      BY <1>1, <2>1
    <3>2. n - 1 \in Int /\ 1 \in Int
      BY <1>1
    <3>3. /\ SubSeq(freeList, 1, n - 1) \in Seq(Nat)
          /\ Len(SubSeq(freeList, 1, n - 1)) =
                IF 1 <= n - 1 THEN (n - 1) - 1 + 1 ELSE 0
          /\ \A k \in 1 .. (n - 1) - 1 + 1 :
                SubSeq(freeList, 1, n - 1)[k] = freeList[1 + k - 1]
      BY <3>1, <3>2, SubSeqProperties
    <3> HIDE DEF n
    <3> QED BY <1>1, <3>3
  <2>3. \A k \in 1 .. n - 1 : freeList[k] # i
    BY <1>1 DEF ListIInv, FreeListExact
  <2> QED BY <1>2, <2>2, <2>3
<1>4. ListTypeOK' /\ Indices' = Indices
  <2>1. PICK m \in 0 .. MaxNodes : data \in [0 .. m - 1 -> Objects \cup {NoObject}]
    BY DEF ListIInv, ListTypeOK
  <2>2. data' \in [0 .. m - 1 -> Objects \cup {NoObject}] /\ Indices' = Indices
    BY <1>2, <2>1 DEF Indices
  <2> QED BY <1>2, <1>3, <2>2 DEF ListIInv, ListTypeOK
<1>5. FreeListExact'
  <2>1. \A k \in 1 .. n - 1 : freeList'[k] \in isFree'
    BY <1>1, <1>2, <1>3 DEF ListIInv, FreeListExact
  <2>2. ASSUME NEW k \in 1 .. n - 1, NEW l \in 1 .. n - 1, freeList'[k] = freeList'[l]
        PROVE  k = l
    <3>1. freeList[k] = freeList[l]
      BY <1>3, <2>2
    <3>2. k \in 1 .. Len(freeList) /\ l \in 1 .. Len(freeList)
      BY <1>1
    <3> QED BY <3>1, <3>2 DEF ListIInv, FreeListExact
  <2>3. ASSUME NEW j \in isFree' PROVE \E k \in 1 .. n - 1 : freeList'[k] = j
    <3>1. PICK k \in 1 .. n : freeList[k] = j
      BY <1>2, <2>3 DEF ListIInv, FreeListExact
    <3>2. k # n
      BY <1>2, <2>3, <3>1
    <3> QED BY <1>1, <1>3, <3>1, <3>2
  <2> QED BY <1>3, <2>1, <2>2, <2>3 DEF FreeListExact
<1>6. Live' = Live \cup {i}
  BY <1>1, <1>2, <1>4 DEF Live
<1>7. SizeIsLive'
  <2>1. Cardinality(Live') = Cardinality(Live) + 1
    BY <1>1, <1>6, ListLiveFinite, FS_AddElement DEF ListIInv
  <2> QED BY <1>2, <2>1 DEF ListIInv, SizeIsLive
<1> QED BY <1>1, <1>2, <1>4, <1>5, <1>6, <1>7 DEF ListIInv

(* A node that is appended becomes live; there was no free one. *)
LEMMA ListAppendStep ==
    ASSUME ListIInv, NEW o \in Objects, AllocAppend(o)
    PROVE  /\ ListIInv'
           /\ \E n \in (0 .. MaxNodes - 1) \ Indices :
                 /\ Live' = Live \cup {n} /\ Indices' = Indices \cup {n}
                 /\ data' = [j \in Indices' |-> IF j = n THEN o ELSE data[j]]
<1>1. PICK n \in 0 .. MaxNodes - 1 :
         /\ Indices = 0 .. n - 1
         /\ data' = [j \in 0 .. n |-> IF j = n THEN o ELSE data[j]]
  BY DEF AllocAppend
<1>2. /\ n \in Nat /\ n + 1 \in 0 .. MaxNodes /\ (n + 1) - 1 = n
      /\ 0 .. n = Indices \cup {n} /\ n \notin Indices
  BY <1>1, MaxNodesAssumption
<1>3. data' \in [0 .. (n + 1) - 1 -> Objects \cup {NoObject}] /\ Indices' = 0 .. n
  <2>1. \A j \in 0 .. n - 1 : data[j] \in Objects \cup {NoObject}
    BY <1>1 DEF ListIInv, ListTypeOK, Indices
  <2> QED BY <1>1, <1>2, <2>1 DEF Indices
<1>4. /\ UNCHANGED <<isFree, freeList>> /\ size' = size + 1
      /\ isFree = {} /\ freeList = <<>>
  BY DEF AllocAppend, ListIInv, FreeListExact
<1>5. ListTypeOK'
  BY <1>2, <1>3, <1>4 DEF ListIInv, ListTypeOK
<1>6. FreeListExact'
  BY <1>4 DEF ListIInv, FreeListExact
<1>7. Live' = Live \cup {n} /\ n \notin Live
  BY <1>2, <1>3, <1>4 DEF Live
<1>8. SizeIsLive'
  <2>1. Cardinality(Live') = Cardinality(Live) + 1
    BY <1>7, ListLiveFinite, FS_AddElement DEF ListIInv
  <2> QED BY <1>4, <2>1 DEF ListIInv, SizeIsLive
<1> QED BY <1>1, <1>2, <1>3, <1>5, <1>6, <1>7, <1>8 DEF ListIInv

(* A live node that is released joins the free stack. *)
LEMMA ListReleaseStep ==
    ASSUME ListIInv, NEW i \in Live, Release(i)
    PROVE  /\ ListIInv'
           /\ Live' = Live \ {i}
           /\ data' = [data EXCEPT ![i] = NoObject]
<1> DEFINE n == Len(freeList)
<1>1. n \in Nat /\ i \in Indices /\ i \notin isFree
  BY DEF ListIInv, ListTypeOK, Live
<1>2. /\ data' = [data EXCEPT ![i] = NoObject]
      /\ isFree' = isFree \cup {i}
      /\ freeList' = Append(freeList, i)
      /\ size' = size - 1
  BY DEF Release
<1>3. PICK m \in 0 .. MaxNodes : data \in [0 .. m - 1 -> Objects \cup {NoObject}]
  BY DEF ListIInv, ListTypeOK
<1>4. i \in Nat /\ Indices' = Indices
  BY <1>1, <1>2, <1>3, MaxNodesAssumption DEF Indices
<1>5. /\ freeList' \in Seq(Nat) /\ Len(freeList') = n + 1 /\ freeList'[n + 1] = i
      /\ \A k \in 1 .. n : freeList'[k] = freeList[k]
  BY <1>2, <1>4 DEF ListIInv, ListTypeOK
<1>6. ListTypeOK'
  <2>1. data' \in [0 .. m - 1 -> Objects \cup {NoObject}]
    BY <1>2, <1>3
  <2> QED BY <1>1, <1>2, <1>4, <1>5, <2>1 DEF ListIInv, ListTypeOK
<1>7. FreeListExact'
  <2>1. \A k \in 1 .. n : freeList[k] \in isFree /\ freeList[k] # i
    BY <1>1 DEF ListIInv, FreeListExact
  <2>2. \A k \in 1 .. n + 1 : k \in 1 .. n \/ k = n + 1
    BY <1>1
  <2>3. \A k \in 1 .. n + 1 : freeList'[k] \in isFree'
    BY <1>2, <1>5, <2>1, <2>2
  <2>4. ASSUME NEW k \in 1 .. n + 1, NEW l \in 1 .. n + 1, freeList'[k] = freeList'[l]
        PROVE  k = l
    <3>1. CASE k \in 1 .. n /\ l \in 1 .. n
      BY <1>5, <2>4, <3>1 DEF ListIInv, FreeListExact
    <3>2. CASE k = n + 1 \/ l = n + 1
      BY <1>5, <2>1, <2>2, <2>4, <3>2
    <3> QED BY <2>2, <3>1, <3>2
  <2>5. ASSUME NEW j \in isFree' PROVE \E k \in 1 .. n + 1 : freeList'[k] = j
    <3>1. CASE j = i
      BY <1>1, <1>5, <3>1
    <3>2. CASE j \in isFree
      <4>1. PICK k \in 1 .. n : freeList[k] = j
        BY <3>2 DEF ListIInv, FreeListExact
      <4> QED BY <1>1, <1>5, <4>1
    <3> QED BY <1>2, <3>1, <3>2
  <2> QED BY <1>5, <2>3, <2>4, <2>5 DEF FreeListExact
<1>8. Live' = Live \ {i}
  BY <1>2, <1>4 DEF Live
<1>9. SizeIsLive'
  <2>1. Cardinality(Live') = Cardinality(Live) - 1
    BY <1>8, ListLiveFinite, FS_RemoveElement DEF ListIInv
  <2> QED BY <1>2, <2>1 DEF ListIInv, SizeIsLive
<1> QED BY <1>2, <1>6, <1>7, <1>8, <1>9 DEF ListIInv

LEMMA ListClearStep == ASSUME ListIInv, Clear PROVE ListIInv'
<1>1. ListTypeOK'
  <2>1. data' \in [0 .. 0 - 1 -> Objects \cup {NoObject}]
    BY DEF Clear
  <2>2. 0 \in 0 .. MaxNodes
    BY MaxNodesAssumption
  <2> QED BY <2>1, <2>2 DEF Clear, ListTypeOK, Indices
<1>2. FreeListExact'
  BY DEF Clear, FreeListExact
<1>3. Live' = {}
  BY DEF Clear, Live, Indices
<1>4. SizeIsLive'
  BY <1>3, FS_EmptySet DEF Clear, SizeIsLive
<1> QED BY <1>1, <1>2, <1>4 DEF ListIInv
-----------------------------------------------------------------------------
LEMMA ListStepInv == ListIInv /\ [ListNext]_listVars => ListIInv'
<1> SUFFICES ASSUME ListIInv, [ListNext]_listVars PROVE ListIInv'
  OBVIOUS
<1>1. ASSUME NEW o \in Objects, AllocReuse(o) PROVE ListIInv'
  BY <1>1, ListReuseStep
<1>2. ASSUME NEW o \in Objects, AllocAppend(o) PROVE ListIInv'
  BY <1>2, ListAppendStep
<1>3. ASSUME NEW i \in Live, Release(i) PROVE ListIInv'
  BY <1>3, ListReleaseStep
<1>4. CASE UNCHANGED listVars
  BY <1>4 DEF listVars, ListIInv, ListTypeOK, FreeListExact, SizeIsLive, Live, Indices
<1>5. ASSUME NEW i \in Indices, FreePointer(i) PROVE ListIInv'
  BY <1>3, <1>4, <1>5 DEF FreePointer, Live
<1>6. ASSUME NEW i \in FreedByIndex, FreeIndex(i) PROVE ListIInv'
  BY <1>3, <1>4, <1>6 DEF FreeIndex, FreedByIndex, Live
<1>7. CASE Clear
  BY <1>7, ListClearStep
<1> QED BY <1>1, <1>2, <1>4, <1>5, <1>6, <1>7 DEF ListNext

(* The nodes, their free marks, the free stack and the counter agree. *)
THEOREM ListInvariant == ListSpec => []ListIInv
<1>1. ListInit => ListIInv
  BY ListInitInv
<1>2. ListIInv /\ [ListNext]_listVars => ListIInv'
  BY ListStepInv
<1> QED BY <1>1, <1>2, PTL DEF ListSpec

(* data_, free_ and the counters keep their types and their bounds through   *)
(* every history of calls.                                                   *)
THEOREM ListTyping == ListSpec => []ListTypeOK
<1>1. ListIInv => ListTypeOK
  BY DEF ListIInv
<1> QED BY <1>1, ListInvariant, PTL

(* No node is ever listed twice in free_, so alloc never hands one node to   *)
(* two owners, as long as callers free by index only what is live.           *)
THEOREM FreeListIsExact == ListSpec => []FreeListExact
<1>1. ListIInv => FreeListExact
  BY DEF ListIInv
<1> QED BY <1>1, ListInvariant, PTL

(* size() is the number of nodes forEach visits, for every history of calls. *)
THEOREM SizeCountsLive == ListSpec => []SizeIsLive
<1>1. ListIInv => SizeIsLive
  BY DEF ListIInv
<1> QED BY <1>1, ListInvariant, PTL

(* The four fields describe one list of nodes, for every history of calls.  *)
THEOREM ListIsSound == ListSpec => []ListSound
<1>1. ListIInv => ListSound
  BY DEF ListIInv, ListSound
<1> QED BY <1>1, ListInvariant, PTL

(* Every step of the list is a step of the pool of handles or changes none   *)
(* of its live objects.                                                      *)
LEMMA ListStepMaps == ListIInv /\ [ListNext]_listVars => [Pool!Next]_Pool!vars
<1> SUFFICES ASSUME ListIInv, [ListNext]_listVars PROVE [Pool!Next]_Pool!vars
  OBVIOUS
<1> DEFINE L == [i \in Live |-> data[i]]
<1>1. PICK m \in 0 .. MaxNodes : data \in [0 .. m - 1 -> Objects \cup {NoObject}]
  BY DEF ListIInv, ListTypeOK
<1>2. ASSUME NEW o \in Objects, NEW h \in 0 .. MaxNodes - 1, h \notin Live,
             Live' = Live \cup {h},
             \A j \in Live' : data'[j] = IF j = h THEN o ELSE data[j]
      PROVE  Pool!Next
  <2>1. DOMAIN L = Live
    OBVIOUS
  <2>2. L' = [j \in DOMAIN L \cup {h} |-> IF j = h THEN o ELSE L[j]]
    BY <1>2
  <2>3. Pool!Alloc(h, o)
    BY <1>2, <2>1, <2>2 DEF Pool!Alloc
  <2> QED BY <2>3 DEF Pool!Next
<1>3. ASSUME NEW o \in Objects, AllocReuse(o) PROVE Pool!Next
  <2>1. PICK i \in isFree : Live' = Live \cup {i} /\ data' = [data EXCEPT ![i] = o]
    BY <1>3, ListReuseStep
  <2>2. i \in 0 .. MaxNodes - 1 /\ i \in Indices /\ i \notin Live
    BY <1>1, MaxNodesAssumption DEF ListIInv, ListTypeOK, Indices, Live
  <2>3. \A j \in Live' : data'[j] = IF j = i THEN o ELSE data[j]
    BY <2>1, <2>2 DEF Live, Indices
  <2> QED BY <1>2, <2>1, <2>2, <2>3
<1>4. ASSUME NEW o \in Objects, AllocAppend(o) PROVE Pool!Next
  <2>1. PICK n \in (0 .. MaxNodes - 1) \ Indices :
           /\ Live' = Live \cup {n} /\ Indices' = Indices \cup {n}
           /\ data' = [j \in Indices' |-> IF j = n THEN o ELSE data[j]]
    BY <1>4, ListAppendStep
  <2>2. \A j \in Live' : data'[j] = IF j = n THEN o ELSE data[j]
    BY <2>1 DEF Live
  <2> QED BY <1>2, <2>1, <2>2 DEF Live
<1>5. ASSUME NEW i \in Live, Release(i) PROVE Pool!Next
  <2>1. Live' = Live \ {i} /\ data' = [data EXCEPT ![i] = NoObject]
    BY <1>5, ListReleaseStep
  <2>2. \A j \in Live \ {i} : data'[j] = data[j]
    BY <2>1 DEF Live, Indices
  <2>3. L' = [j \in DOMAIN L \ {i} |-> L[j]]
    BY <2>1, <2>2
  <2>4. Pool!Free(i)
    BY <2>3 DEF Pool!Free
  <2> QED BY <2>4 DEF Pool!Next
<1>6. ASSUME UNCHANGED listVars PROVE UNCHANGED Pool!vars
  BY <1>6 DEF listVars, Pool!vars, Live, Indices
<1>7. ASSUME NEW i \in Indices, FreePointer(i)
      PROVE  [Pool!Next]_Pool!vars
  BY <1>5, <1>6, <1>7 DEF FreePointer, Live
<1>8. ASSUME NEW i \in FreedByIndex, FreeIndex(i)
      PROVE  [Pool!Next]_Pool!vars
  BY <1>5, <1>6, <1>8 DEF FreeIndex, FreedByIndex, Live
<1>9. ASSUME Clear PROVE Pool!Next
  <2>1. Live' = {}
    BY <1>9 DEF Clear, Live, Indices
  <2>2. L' = <<>>
    BY <2>1
  <2>3. Pool!Clear
    BY <2>2 DEF Pool!Clear
  <2> QED BY <2>3 DEF Pool!Next
<1> QED BY <1>3, <1>4, <1>6, <1>7, <1>8, <1>9 DEF ListNext

(* The list implements the pool: alloc gives out a handle that is not live,  *)
(* free takes away exactly the handle it names, and no other object changes. *)
THEOREM ListImplementsPool == ListSpec => ImplementsPool
<1>1. ListInit => Pool!Init
  <2> SUFFICES ASSUME ListInit PROVE [i \in Live |-> data[i]] = <<>>
    BY DEF Pool!Init
  <2>1. Live = {}
    BY DEF ListInit, Live, Indices
  <2> QED BY <2>1
<1>2. ListIInv /\ [ListNext]_listVars => [Pool!Next]_Pool!vars
  BY ListStepMaps
<1> QED BY <1>1, <1>2, ListInvariant, PTL DEF ListSpec, ImplementsPool, Pool!Spec
=============================================================================
