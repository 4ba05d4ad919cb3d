-------------------------- MODULE ScreenListProofs ---------------------------
(***************************************************************************)
(* Proofs, for any set of addresses and clients, about ScreenList.  The    *)
(* inductive invariant is IInv: the types, the shape of the ring, and the  *)
(* fact that the screen on display exists while the keyboard thread walks  *)
(* the ring under the mutex.                                               *)
(***************************************************************************)
EXTENDS ScreenListProps, SequenceTheorems, TLAPS

WalkOnLiveScreen == kpc = "cycling" => Allocated(current)

IInv == TypeOK /\ RingWellFormed /\ WalkOnLiveScreen

(* Removing place i of a sequence shifts the places after it down by one   *)
(* and keeps the others: what unlinking does to the connection order.      *)
LEMMA RemoveAtPlaces ==
  ASSUME NEW S, NEW s \in Seq(S), NEW i \in 1 .. Len(s)
  PROVE  /\ RemoveAt(s, i) \in Seq(S)
         /\ Len(RemoveAt(s, i)) = Len(s) - 1
         /\ \A j \in 1 .. Len(s) - 1 :
              RemoveAt(s, i)[j] = IF j < i THEN s[j] ELSE s[j + 1]
<1> DEFINE a == SubSeq(s, 1, i - 1)
           b == SubSeq(s, i + 1, Len(s))
<1>1. a \in Seq(S) /\ Len(a) = i - 1 /\ \A j \in 1 .. i - 1 : a[j] = s[j]
  OBVIOUS
<1>2. b \in Seq(S) /\ Len(b) = Len(s) - i /\ \A j \in 1 .. Len(s) - i : b[j] = s[i + j]
  OBVIOUS
<1>3. RemoveAt(s, i) = a \o b
  BY DEF RemoveAt
<1> HIDE DEF a, b
<1>4. /\ a \o b \in Seq(S)
      /\ Len(a \o b) = Len(a) + Len(b)
      /\ \A j \in 1 .. Len(a) + Len(b) :
           (a \o b)[j] = IF j <= Len(a) THEN a[j] ELSE b[j - Len(a)]
  BY <1>1, <1>2, ConcatProperties
<1>5. Len(a \o b) = Len(s) - 1
  BY <1>1, <1>2, <1>4
<1>6. ASSUME NEW j \in 1 .. Len(s) - 1
      PROVE  (a \o b)[j] = IF j < i THEN s[j] ELSE s[j + 1]
  <2>1. CASE j < i
    BY <1>1, <1>2, <1>4, <2>1
  <2>2. CASE ~(j < i)
    <3>1. (a \o b)[j] = b[j - (i - 1)] /\ j - (i - 1) \in 1 .. Len(s) - i
      BY <1>1, <1>2, <1>4, <2>2
    <3>2. i + (j - (i - 1)) = j + 1
      OBVIOUS
    <3> QED
      BY <1>2, <2>2, <3>1, <3>2
  <2> QED
    BY <2>1, <2>2
<1> QED
  BY <1>3, <1>4, <1>5, <1>6

-----------------------------------------------------------------------------
(* In a well-formed ring, the neighbours of a connected screen are those   *)
(* of its place in the connection order.                                   *)
LEMMA Neighbours ==
  ASSUME TypeOK, RingWellFormed, NEW n \in live
  PROVE  \E i \in 1 .. Len(order) :
           /\ order[i] = n
           /\ prev[n] = At(order, i - 1)
           /\ next[n] = IF i = Len(order) THEN Tail0 ELSE order[i + 1]
           /\ (n = head) <=> (i = Len(order))
           /\ prev[n] \in live \cup {Tail0} /\ prev[n] # n
           /\ next[n] \in live \cup {Tail0} /\ next[n] # n
<1>1. PICK i \in 1 .. Len(order) : order[i] = n
  BY DEF RingWellFormed, ToSet, TypeOK
<1>2. Len(order) \in Nat /\ \A j \in 1 .. Len(order) : order[j] \in live /\ order[j] \in Node
  BY DEF RingWellFormed, ToSet, TypeOK
<1>3. prev[n] = At(order, i - 1) /\ At(order, i - 1) \in live \cup {Tail0} /\ At(order, i - 1) # n
  BY <1>1, <1>2, NodeAssumption DEF RingWellFormed, TypeOK, At, IsInjective
<1>4. (n = head) <=> (i = Len(order))
  <2>1. head = order[Len(order)] /\ Len(order) \in 1 .. Len(order)
    BY <1>1, <1>2 DEF RingWellFormed, At
  <2>2. \A j, k \in 1 .. Len(order) : order[j] = order[k] => j = k
    BY DEF RingWellFormed, IsInjective, TypeOK
  <2> QED
    BY <1>1, <2>1, <2>2
<1>5. CASE i = Len(order)
  BY <1>1, <1>2, <1>3, <1>4, <1>5, NodeAssumption DEF RingWellFormed, TypeOK, At
<1>6. CASE i # Len(order)
  <2>1. i + 1 \in 1 .. Len(order) /\ (i + 1) - 1 = i /\ At(order, i) = n
    BY <1>1, <1>2, <1>6 DEF At
  <2>2. next[n] = order[i + 1]
    BY <2>1 DEF RingWellFormed
  <2> QED
    BY <1>1, <1>2, <1>3, <1>4, <1>6, <2>1, <2>2 DEF RingWellFormed, TypeOK, IsInjective
<1> QED
  BY <1>5, <1>6

(* The head of a well-formed ring exists. *)
LEMMA HeadAllocated ==
  ASSUME TypeOK, RingWellFormed
  PROVE  Allocated(head)
BY DEF TypeOK, RingWellFormed, At, ToSet, Allocated

(* The step of the walk stays on allocated screens. *)
LEMMA StepBackAllocated ==
  ASSUME TypeOK, RingWellFormed, Allocated(current)
  PROVE  Allocated(StepBack) /\ StepBack \in Ring
BY Neighbours, HeadAllocated DEF StepBack, Allocated, Ring, TypeOK

-----------------------------------------------------------------------------
(* g15daemon_lcdnode_add keeps the ring well formed: the new screen takes  *)
(* the last place.                                                         *)
LEMMA AddKeepsRing ==
  ASSUME TypeOK, RingWellFormed, NEW n \in Node, LcdnodeAdd(n)
  PROVE  RingWellFormed'
<1> DEFINE k == Len(order)
<1>1. k \in Nat /\ \A j \in 1 .. k : order[j] \in live /\ order[j] \in Node
  BY DEF RingWellFormed, ToSet, TypeOK
<1>2. /\ order' = Append(order, n)
      /\ Len(order') = k + 1
      /\ order'[k + 1] = n
      /\ \A j \in 1 .. k : order'[j] = order[j]
  BY AppendProperties DEF LcdnodeAdd, TypeOK
<1>3. n \notin live /\ live' = live \cup {n} /\ head' = n
  BY DEF LcdnodeAdd
<1>4. /\ prev' = [prev EXCEPT ![n] = head]
      /\ next' = [next EXCEPT ![n] = Tail0, ![head] = n]
      /\ n \in Ring /\ head \in Ring /\ Tail0 \in Ring /\ head # n /\ Tail0 # n
      /\ head = At(order, k)
  <2>1. Tail0 # n /\ n \in Ring /\ Tail0 \in Ring /\ head \in Ring
    BY NodeAssumption DEF Ring, TypeOK
  <2>2. head # n
    BY HeadAllocated, <1>3, <2>1 DEF Allocated
  <2> QED
    BY <2>1, <2>2 DEF LcdnodeAdd, RingWellFormed
<1> HIDE DEF k
<1>5. \A i \in 0 .. k : At(order', i) = At(order, i) /\ (At(order, i) = Tail0 \/ At(order, i) \in live)
  BY <1>1, <1>2 DEF At
<1>6. At(order', k + 1) = n
  BY <1>1, <1>2 DEF At
<1>7. live' = ToSet(order')
  <2>1. DOMAIN order' = 1 .. k + 1 /\ DOMAIN order = 1 .. k
    BY <1>1, <1>2 DEF TypeOK, k
  <2>2. ASSUME NEW x \in live'
        PROVE  \E j \in 1 .. k + 1 : order'[j] = x
    <3>1. CASE x = n
      BY <1>1, <1>2, <3>1
    <3>2. CASE x \in live
      <4>1. PICK j \in 1 .. k : order[j] = x
        BY <2>1, <3>2 DEF RingWellFormed, ToSet
      <4> QED
        BY <1>1, <1>2, <4>1
    <3> QED
      BY <1>3, <3>1, <3>2
  <2>3. \A j \in 1 .. k + 1 : order'[j] \in live'
    BY <1>1, <1>2, <1>3
  <2> QED
    BY <2>1, <2>2, <2>3 DEF ToSet
<1>8. IsInjective(order)'
  <2>1. DOMAIN order' = 1 .. k + 1 /\ DOMAIN order = 1 .. k
    BY <1>1, <1>2 DEF TypeOK, k
  <2> QED
    BY <1>1, <1>2, <1>3, <2>1 DEF RingWellFormed, IsInjective
<1>9. numclients' = Len(order') /\ head' = At(order', Len(order'))
  BY <1>2, <1>3, <1>6 DEF RingWellFormed, LcdnodeAdd, k
<1>10. prev'[Tail0] = Tail0 /\ next'[n] = Tail0 /\ prev'[n] = head /\ next'[head] = n
  BY <1>4 DEF TypeOK, RingWellFormed
<1>11. ASSUME NEW i \in 1 .. k
       PROVE  prev'[order'[i]] = At(order', i - 1) /\ next'[At(order', i - 1)] = order'[i]
  <2>1. order[i] # n /\ order[i] \in Ring /\ At(order, i - 1) # n /\ At(order, i - 1) \in Ring
    <3>1. i - 1 \in 0 .. k /\ live \subseteq Node
      BY <1>1 DEF TypeOK
    <3> QED
      BY <1>1, <1>3, <1>4, <1>5, <3>1 DEF Ring
  <2>2. At(order, i - 1) # head
    BY <1>1, <1>4, NodeAssumption DEF RingWellFormed, IsInjective, At, TypeOK, k
  <2>3. prev[order[i]] = At(order, i - 1) /\ next[At(order, i - 1)] = order[i]
    BY DEF RingWellFormed, k
  <2> QED
    BY <1>1, <1>2, <1>4, <1>5, <2>1, <2>2, <2>3 DEF TypeOK
<1>12. prev'[order'[k + 1]] = At(order', (k + 1) - 1) /\ next'[At(order', (k + 1) - 1)] = order'[k + 1]
  <2>1. (k + 1) - 1 = k /\ At(order', k) = At(order, k)
    BY <1>1, <1>5
  <2> QED
    BY <1>2, <1>4, <1>10, <2>1
<1>13. \A i \in 1 .. Len(order') : prev'[order'[i]] = At(order', i - 1) /\ next'[At(order', i - 1)] = order'[i]
  BY <1>1, <1>2, <1>11, <1>12
<1> QED
  BY <1>2, <1>6, <1>7, <1>8, <1>9, <1>10, <1>13 DEF RingWellFormed

(* g15daemon_lcdnode_remove keeps the ring well formed, whether it unlinks *)
(* the head or a screen between two others.                                *)
LEMMA UnlinkKeepsRing ==
  ASSUME TypeOK, RingWellFormed, NEW n \in live, Unlink(n)
  PROVE  RingWellFormed'
<1> DEFINE k == Len(order)
<1>1. k \in Nat /\ \A j \in 1 .. k : order[j] \in live /\ order[j] \in Node
  BY DEF RingWellFormed, ToSet, TypeOK
<1>2. PICK i \in 1 .. k : order[i] = n /\ order' = RemoveAt(order, i)
  BY DEF Unlink, TypeOK
<1>3. /\ Len(order') = k - 1
      /\ DOMAIN order' = 1 .. k - 1 /\ DOMAIN order = 1 .. k
      /\ \A j \in 1 .. k - 1 : order'[j] = IF j < i THEN order[j] ELSE order[j + 1]
  <2>1. order \in Seq(Node) /\ DOMAIN order = 1 .. k
    BY LenProperties DEF TypeOK
  <2>2. /\ order' \in Seq(Node) /\ Len(order') = k - 1
        /\ \A j \in 1 .. k - 1 : order'[j] = IF j < i THEN order[j] ELSE order[j + 1]
    BY <1>2, <2>1, RemoveAtPlaces
  <2>3. DOMAIN order' = 1 .. k - 1
    BY <2>2, LenProperties
  <2> QED
    BY <2>1, <2>2, <2>3
<1>4. \A a, b \in 1 .. k : order[a] = order[b] => a = b
  BY <1>3 DEF RingWellFormed, IsInjective
<1>5. \A j \in 1 .. k : /\ order[j] # Tail0 /\ order[j] \in Ring
                        /\ At(order, j - 1) \in Ring /\ At(order, j) = order[j]
                        /\ prev[order[j]] = At(order, j - 1)
                        /\ next[At(order, j - 1)] = order[j]
  BY <1>1, NodeAssumption DEF Ring, At, RingWellFormed
<1>6. \A j \in 0 .. k - 1 : At(order', j) = IF j < i THEN At(order, j) ELSE At(order, j + 1)
  BY <1>1, <1>2, <1>3 DEF At
<1>7. /\ n \in Ring /\ Tail0 \in Ring /\ n # Tail0 /\ live' = live \ {n}
      /\ prev[n] = At(order, i - 1) /\ At(order, i - 1) \in Ring
      /\ (n = head) <=> (i = k)
      /\ numclients' = numclients - 1
  BY <1>1, <1>2, <1>4, <1>5, Neighbours DEF Unlink, Ring
<1> HIDE DEF k
<1>8. live' = ToSet(order')
  <2>1. ASSUME NEW x \in live \ {n}
        PROVE  \E j \in 1 .. k - 1 : order'[j] = x
    <3>1. PICK j \in 1 .. k : order[j] = x
      BY <1>3 DEF RingWellFormed, ToSet
    <3>2. CASE j < i
      BY <1>1, <1>3, <3>1, <3>2
    <3>3. CASE j > i
      <4>1. j - 1 \in 1 .. k - 1 /\ ~(j - 1 < i) /\ (j - 1) + 1 = j
        BY <1>1, <3>3
      <4> QED
        BY <1>3, <3>1, <4>1
    <3> QED
      BY <1>2, <3>1, <3>2, <3>3
  <2>2. ASSUME NEW j \in 1 .. k - 1
        PROVE  order'[j] \in live \ {n}
    <3>1. j \in 1 .. k /\ j + 1 \in 1 .. k
      BY <1>1
    <3> QED
      BY <1>1, <1>2, <1>3, <1>4, <3>1
  <2> QED
    BY <1>3, <1>7, <2>1, <2>2 DEF ToSet
<1>9. IsInjective(order')
  <2>1. ASSUME NEW a \in 1 .. k - 1, NEW b \in 1 .. k - 1, order'[a] = order'[b]
        PROVE  a = b
    <3>1. a \in 1 .. k /\ a + 1 \in 1 .. k /\ b \in 1 .. k /\ b + 1 \in 1 .. k
      BY <1>1
    <3> QED
      BY <1>1, <1>3, <1>4, <2>1, <3>1
  <2> QED
    BY <1>3, <2>1 DEF IsInjective
<1>10. numclients' = Len(order')
  BY <1>3, <1>7 DEF RingWellFormed, k
<1>11. CASE n = head
  <2>1. /\ i = k
        /\ prev' = [prev EXCEPT ![n] = NULL]
        /\ next' = [next EXCEPT ![prev[n]] = Tail0, ![n] = NULL]
        /\ head' = prev[n]
    BY <1>7, <1>11 DEF Unlink
  <2>2. \A j \in 0 .. k - 1 : At(order', j) = At(order, j)
    BY <1>1, <1>6, <2>1
  <2>3. k - 1 \in 0 .. k - 1 /\ k \in 1 .. k
    BY <1>1, <1>2
  <2>4. head' = At(order', Len(order')) /\ prev'[Tail0] = Tail0
    BY <1>3, <1>7, <2>1, <2>2, <2>3 DEF TypeOK, RingWellFormed
  <2>5. At(order, k - 1) # n
    BY <1>2, <1>4, <1>7, <2>1, <2>3 DEF At
  <2>6. next'[At(order', Len(order'))] = Tail0
    BY <1>3, <1>7, <2>1, <2>2, <2>3, <2>5 DEF TypeOK
  <2>7. ASSUME NEW j \in 1 .. k - 1
        PROVE  prev'[order'[j]] = At(order', j - 1) /\ next'[At(order', j - 1)] = order'[j]
    <3>1. j \in 1 .. k /\ j - 1 \in 0 .. k - 1 /\ j < i /\ order'[j] = order[j]
      BY <1>1, <1>3, <2>1
    <3>2. order[j] # n /\ At(order, j - 1) # n /\ At(order, j - 1) # At(order, k - 1)
      BY <1>1, <1>2, <1>4, <1>5, <1>7, <2>1, <3>1 DEF At
    <3> QED
      BY <1>5, <1>7, <2>1, <2>2, <3>1, <3>2 DEF TypeOK
  <2> QED
    BY <1>3, <1>8, <1>9, <1>10, <2>4, <2>6, <2>7 DEF RingWellFormed
<1>12. CASE n # head
  <2>1. i < k /\ i + 1 \in 1 .. k /\ (i + 1) - 1 = i
    BY <1>1, <1>2, <1>7, <1>12
  <2>2. next[n] = order[i + 1] /\ next[n] \in Ring /\ next[n] # n /\ next[n] # Tail0
    BY <1>2, <1>4, <1>5, <2>1
  <2>3. /\ prev' = [prev EXCEPT ![next[n]] = prev[n], ![n] = NULL]
        /\ next' = [next EXCEPT ![prev[n]] = next[n], ![n] = NULL]
        /\ head' = head
    BY <1>12 DEF Unlink
  <2>4. head' = At(order', Len(order'))
    <3>1. k - 1 \in 0 .. k - 1 /\ ~(k - 1 < i) /\ (k - 1) + 1 = k
      BY <1>1, <2>1
    <3> QED
      BY <1>3, <1>6, <2>3, <3>1 DEF RingWellFormed, k
  <2>5. prev'[Tail0] = Tail0
    BY <1>7, <2>2, <2>3 DEF TypeOK, RingWellFormed
  <2>6. next'[At(order', Len(order'))] = Tail0
    <3>1. k \in 1 .. k /\ head = order[k] /\ head \in Ring /\ next[head] = Tail0
      BY <1>1, <1>2, <1>5 DEF RingWellFormed, k
    <3>2. head # At(order, i - 1)
      BY <1>1, <1>4, <1>5, <2>1, <3>1 DEF At
    <3> QED
      BY <1>7, <1>12, <2>3, <2>4, <3>1, <3>2 DEF TypeOK
  <2>7. ASSUME NEW j \in 1 .. k - 1
        PROVE  prev'[order'[j]] = At(order', j - 1) /\ next'[At(order', j - 1)] = order'[j]
    <3>1. j \in 1 .. k /\ j + 1 \in 1 .. k /\ (j + 1) - 1 = j /\ j - 1 \in 0 .. k - 1 /\ (j - 1) + 1 = j
      BY <1>1
    <3>2. CASE j < i
      <4>1. order'[j] = order[j] /\ At(order', j - 1) = At(order, j - 1)
        BY <1>1, <1>3, <1>6, <3>1, <3>2
      <4>2. /\ order[j] # n /\ order[j] # order[i + 1]
            /\ At(order, j - 1) # n /\ At(order, j - 1) # At(order, i - 1)
        BY <1>1, <1>2, <1>4, <1>5, <1>7, <2>1, <3>1, <3>2 DEF At
      <4> QED
        BY <1>5, <1>7, <2>2, <2>3, <3>1, <4>1, <4>2 DEF TypeOK
    <3>3. CASE j = i
      <4>1. order'[j] = order[i + 1] /\ At(order', j - 1) = At(order, i - 1)
        BY <1>1, <1>3, <1>6, <3>1, <3>3
      <4>2. At(order, i - 1) # n
        BY <1>1, <1>2, <1>4, <1>7, <3>1 DEF At
      <4> QED
        BY <1>7, <2>2, <2>3, <4>1, <4>2 DEF TypeOK
    <3>4. CASE j > i
      <4>1. order'[j] = order[j + 1] /\ At(order', j - 1) = At(order, j)
        BY <1>1, <1>3, <1>6, <3>1, <3>4
      <4>2. /\ order[j + 1] # n /\ order[j + 1] # order[i + 1]
            /\ At(order, j) # n /\ At(order, j) # At(order, i - 1) /\ At(order, j) \in Ring
        BY <1>1, <1>2, <1>4, <1>5, <1>7, <2>1, <3>1, <3>4 DEF At
      <4>3. prev[order[j + 1]] = At(order, j) /\ next[At(order, j)] = order[j + 1]
        BY <1>5, <3>1
      <4> QED
        BY <1>5, <1>7, <2>2, <2>3, <3>1, <4>1, <4>2, <4>3 DEF TypeOK
    <3> QED
      BY <1>1, <1>2, <3>2, <3>3, <3>4
  <2> QED
    BY <1>3, <1>8, <1>9, <1>10, <2>4, <2>5, <2>6, <2>7 DEF RingWellFormed
<1> QED
  BY <1>11, <1>12

-----------------------------------------------------------------------------
(* Every step keeps every variable of its kind. *)
LEMMA StepKeepsTypes ==
  ASSUME IInv, [Next]_vars
  PROVE  TypeOK'
<1> USE NodeAssumption DEF IInv
<1>1. ASSUME NEW n \in Node, LcdnodeAdd(n)
      PROVE  TypeOK'
  BY <1>1, AppendProperties
     DEF TypeOK, LcdnodeAdd, Ring, keyb, LcdlistMutexFree
<1>2. ASSUME NEW n \in Node, LcdnodeRemove(n)
      PROVE  TypeOK'
  <2>1. CASE Allocated(current)
    <3>1. n \in live /\ Unlink(n) /\ current' = Takeover(n)
      BY <1>2, <2>1 DEF LcdnodeRemove
    <3>2. prev[n] \in Ring /\ next[n] \in Ring
      BY <3>1, Neighbours DEF Ring, TypeOK
    <3>3. PICK i \in 1 .. Len(order) : order' = RemoveAt(order, i)
      BY <3>1 DEF Unlink, TypeOK
    <3>4. order' \in Seq(Node)
      BY <3>3, RemoveAtPlaces DEF TypeOK
    <3>5. numclients' \in Nat
      BY <3>1, <3>3 DEF Unlink, TypeOK, RingWellFormed
    <3>6. /\ prev' \in [Ring -> Ring \cup {NULL}]
          /\ next' \in [Ring -> Ring \cup {NULL}]
          /\ head' \in Ring /\ live' \subseteq Node
      <4>1. CASE n = head
        BY <3>1, <3>2, <4>1 DEF Unlink, TypeOK, Ring
      <4>2. CASE n # head
        BY <3>1, <3>2, <4>2 DEF Unlink, TypeOK, Ring
      <4> QED
        BY <4>1, <4>2
    <3>7. current' \in Ring
      BY <3>1, <3>2 DEF Takeover, TypeOK
    <3> QED
      BY <1>2, <2>1, <3>4, <3>5, <3>6, <3>7 DEF LcdnodeRemove, TypeOK, Ring, keyb
  <2>2. CASE ~Allocated(current)
    BY <1>2, <2>2 DEF LcdnodeRemove, Fault, TypeOK, ring, lcds, keyb
  <2> QED
    BY <2>1, <2>2
<1>3. ASSUME NEW n \in Client, NeverSelect(n)
      PROVE  TypeOK'
  BY <1>3 DEF NeverSelect, TypeOK, ring, keyb
<1>4. ASSUME NEW n \in Client, RequestPriority(n)
      PROVE  TypeOK'
  <2>1. n \in live /\ n \in Ring /\ prev[n] \in Ring
    BY <1>4, Neighbours DEF RequestPriority, Ring, TypeOK
  <2>2. ~GoesToOlder(n) => last_priority[n] \in Ring
    BY <2>1 DEF GoesToOlder, TypeOK
  <2> QED
    BY <1>4, <2>1, <2>2 DEF RequestPriority, TypeOK, ring, lcds, keyb
<1>5. ASSUME NEW n \in Client, RefreshAfterSwitch(n)
      PROVE  TypeOK'
  BY <1>5 DEF RefreshAfterSwitch, Fault, TypeOK, ring, lcds, keyb
<1>6. CASE CycleBegin
  BY <1>6 DEF CycleBegin, Fault, TypeOK, ring, lcds, keyb
<1>7. CASE CycleSkip
  BY <1>7, StepBackAllocated DEF CycleSkip, WalkOnLiveScreen, FlagsCleared, TypeOK, ring, lcds, keyb
<1>8. CASE CycleLand
  BY <1>8, StepBackAllocated DEF CycleLand, WalkOnLiveScreen, FlagsCleared, TypeOK, ring, lcds, keyb
<1>9. CASE CycleLoad
  BY <1>9 DEF CycleLoad, Fault, TypeOK, ring, lcds, keyb
<1>10. CASE CycleMark
  BY <1>10 DEF CycleMark, Fault, TypeOK, ring, lcds, keyb
<1>11. CASE Stopped \/ UNCHANGED vars
  BY <1>11 DEF Stopped, vars, TypeOK, ring, lcds, keyb
<1> QED
  BY <1>1, <1>2, <1>3, <1>4, <1>5, <1>6, <1>7, <1>8, <1>9, <1>10, <1>11 DEF Next, Keyboard

(* The ring only changes when a screen is added or unlinked. *)
LEMMA RingChanges ==
  ASSUME [Next]_vars
  PROVE  \/ UNCHANGED ring
         \/ \E n \in Node : LcdnodeAdd(n)
         \/ \E n \in live : Unlink(n)
BY DEF Next, Keyboard, LcdnodeRemove, NeverSelect, RequestPriority, RefreshAfterSwitch,
       CycleBegin, CycleSkip, CycleLand, CycleLoad, CycleMark, Stopped, Fault, vars

LEMMA StepKeepsRing ==
  ASSUME IInv, [Next]_vars
  PROVE  RingWellFormed'
<1>1. CASE UNCHANGED ring
  BY <1>1 DEF IInv, RingWellFormed, ring
<1>2. CASE \E n \in Node : LcdnodeAdd(n)
  BY <1>2, AddKeepsRing DEF IInv
<1>3. CASE \E n \in live : Unlink(n)
  BY <1>3, UnlinkKeepsRing DEF IInv
<1> QED
  BY <1>1, <1>2, <1>3, RingChanges

(* The walk runs on screens that exist: nothing is unlinked while it holds *)
(* the mutex.                                                              *)
LEMMA StepKeepsWalk ==
  ASSUME IInv, [Next]_vars
  PROVE  WalkOnLiveScreen'
<1> USE DEF IInv, WalkOnLiveScreen
<1>1. CASE kpc = "cycling"
  BY <1>1, StepBackAllocated
     DEF Next, Keyboard, LcdnodeAdd, LcdnodeRemove, NeverSelect, RequestPriority,
         RefreshAfterSwitch, LcdlistMutexFree, CycleBegin, CycleSkip, CycleLand, CycleLoad,
         CycleMark, Stopped, Fault, vars, ring, keyb, Allocated
<1>2. CASE kpc # "cycling"
  BY <1>2
     DEF Next, Keyboard, LcdnodeAdd, LcdnodeRemove, NeverSelect, RequestPriority,
         RefreshAfterSwitch, LcdlistMutexFree, CycleBegin, CycleSkip, CycleLand, CycleLoad,
         CycleMark, Stopped, Fault, vars, ring, keyb, Allocated
<1> QED
  BY <1>1, <1>2

(* In every behaviour the pointers stay pointers and the ring lists exactly *)
(* the connected screens, in the order in which they connected.             *)
LEMMA Invariance == Spec => []IInv
<1>1. Init => IInv
  <2> SUFFICES ASSUME Init PROVE IInv
    OBVIOUS
  <2>1. TypeOK
    <3>1. order \in Seq(Node)
      BY EmptySeq DEF Init
    <3> QED
      BY <3>1, NodeAssumption DEF Init, TypeOK, Ring
  <2>2. order = << >> /\ Len(order) = 0 /\ DOMAIN order = {} /\ 1 .. Len(order) = {}
    BY DEF Init
  <2>3. RingWellFormed
    BY <2>2, NodeAssumption DEF Init, RingWellFormed, At, ToSet, IsInjective, Ring
  <2> QED
    BY <2>1, <2>3 DEF Init, IInv, WalkOnLiveScreen
<1>2. IInv /\ [Next]_vars => IInv'
  BY StepKeepsTypes, StepKeepsRing, StepKeepsWalk DEF IInv
<1> QED
  BY <1>1, <1>2, PTL DEF Spec

(* Pointers are addresses of the heap or NULL, and the counters count.      *)
THEOREM ScreenListTypes == Spec => []TypeOK
<1>1. IInv => TypeOK
  BY DEF IInv
<1> QED
  BY <1>1, Invariance, PTL

(* The ring, its head and its count list the connected screens.             *)
THEOREM RingIsWellFormed == Spec => [](TypeOK /\ RingWellFormed)
<1>1. IInv => TypeOK /\ RingWellFormed
  BY DEF IInv
<1> QED
  BY <1>1, Invariance, PTL

-----------------------------------------------------------------------------
(* At most one screen says that the user selected it.                      *)
LEMMA StepKeepsOneForeground ==
  ASSUME IInv, OneUserForeground, [Next]_vars
  PROVE  OneUserForeground'
<1> USE DEF OneUserForeground, IInv
<1>1. ASSUME NEW n \in Node, LcdnodeAdd(n)
      PROVE  OneUserForeground'
  BY <1>1 DEF LcdnodeAdd, TypeOK, keyb
<1>2. ASSUME NEW n \in Node, LcdnodeRemove(n)
      PROVE  OneUserForeground'
  BY <1>2 DEF LcdnodeRemove, Fault, TypeOK, lcds, keyb
<1>3. CASE CycleSkip \/ CycleLand
  BY <1>3 DEF CycleSkip, CycleLand, FlagsCleared, keyb
<1>4. CASE CycleMark
  BY <1>4 DEF CycleMark, Fault, TypeOK, lcds, keyb
<1>5. CASE UNCHANGED usr_foreground /\ (kpc' = kpc \/ kpc' = "cycling" \/ CycleLoad)
  BY <1>5 DEF CycleLoad, Fault, keyb
<1>6. ASSUME NEW n \in Client, NeverSelect(n) \/ RequestPriority(n) \/ RefreshAfterSwitch(n)
      PROVE  UNCHANGED usr_foreground /\ kpc' = kpc
  BY <1>6 DEF NeverSelect, RequestPriority, RefreshAfterSwitch, Fault, keyb, lcds
<1>7. CASE CycleBegin \/ CycleLoad \/ Stopped \/ UNCHANGED vars
  BY <1>5, <1>7 DEF CycleBegin, CycleLoad, Stopped, Fault, vars, keyb, lcds
<1> QED
  BY <1>1, <1>2, <1>3, <1>4, <1>5, <1>6, <1>7 DEF Next, Keyboard

(* Screens connect, disconnect and toggle between the unlock at the end of *)
(* the walk and the store that marks the user's screen; still two screens  *)
(* never both claim to be the user's choice.                               *)
THEOREM OneScreenIsUserForeground == Spec => []OneUserForeground
<1>1. Init => OneUserForeground
  BY DEF Init, OneUserForeground
<1>2. IInv /\ OneUserForeground /\ [Next]_vars => OneUserForeground'
  BY StepKeepsOneForeground
<1> QED
  BY <1>1, <1>2, Invariance, PTL DEF Spec

-----------------------------------------------------------------------------
(* The screen that takes over from one that leaves exists.                 *)
LEMMA TakeoverAllocated ==
  ASSUME IInv, NEW n \in live, Allocated(current)
  PROVE  Takeover(n) \in (live \ {n}) \cup {Tail0}
BY Neighbours, NodeAssumption DEF IInv, Takeover, Allocated, TypeOK

(* masterlist->current is left dangling by no connect, no disconnect and   *)
(* no press of the cycle key: only by a client that gives the display back *)
(* to a screen that has disconnected.                                      *)
THEOREM DisplayLostOnlyByGivingBack == Spec => OnlyGivingBackStrands
<1>1. ASSUME IInv, [Next]_vars, Strands
      PROVE  GivesBackToGone
  <2> USE DEF IInv, Strands, GivesBackToGone
  <2>1. ASSUME NEW n \in Node, LcdnodeAdd(n)
        PROVE  FALSE
    BY <1>1, <2>1 DEF LcdnodeAdd, Allocated
  <2>2. ASSUME NEW n \in Node, LcdnodeRemove(n)
        PROVE  FALSE
    BY <1>1, <2>2, TakeoverAllocated DEF LcdnodeRemove, Unlink, Allocated
  <2>3. ASSUME NEW n \in Client, RequestPriority(n)
        PROVE  GivesBackToGone
    <3>1. n \in Node /\ n \in live /\ prev[n] \in live \cup {Tail0} /\ live' = live
      BY <1>1, <2>3, Neighbours, NodeAssumption DEF RequestPriority, ring
    <3> QED
      BY <1>1, <2>3, <3>1 DEF RequestPriority, Allocated
  <2>4. CASE CycleSkip \/ CycleLand
    BY <1>1, <2>4, StepBackAllocated DEF CycleSkip, CycleLand, WalkOnLiveScreen, Allocated, ring
  <2>5. ASSUME NEW n \in Client, NeverSelect(n) \/ RefreshAfterSwitch(n)
        PROVE  FALSE
    BY <1>1, <2>5 DEF NeverSelect, RefreshAfterSwitch, Fault, Allocated, ring
  <2>6. CASE CycleBegin \/ CycleLoad \/ CycleMark \/ Stopped \/ UNCHANGED vars
    BY <1>1, <2>6 DEF CycleBegin, CycleLoad, CycleMark, Stopped, Fault, vars, Allocated, ring
  <2> QED
    BY <1>1, <2>1, <2>2, <2>3, <2>4, <2>5, <2>6 DEF Next, Keyboard
<1>2. IInv /\ [Next]_vars => [Strands => GivesBackToGone]_vars
  BY <1>1
<1> QED
  BY <1>2, Invariance, PTL DEF Spec, OnlyGivingBackStrands

(* SWITCH_PRIORITIES always moves the client to the front or away from it. *)
THEOREM SwitchAlwaysToggles == Spec => SwitchToggles
<1>1. ASSUME IInv
      PROVE  \A n \in Node : RequestPriority(n) => ((current = n) <=> (current' # n))
  <2> TAKE n \in Node
  <2> HAVE RequestPriority(n)
  <2>1. n \in live /\ prev[n] # n
    BY <1>1, Neighbours DEF RequestPriority, IInv
  <2> QED
    BY <2>1 DEF RequestPriority, GoesToOlder
<1>2. IInv /\ [Next]_vars
        => [\A n \in Node : RequestPriority(n) => ((current = n) <=> (current' # n))]_vars
  BY <1>1
<1> QED
  BY <1>2, Invariance, PTL DEF Spec, SwitchToggles

(* The cycle key lands on a selectable screen, and on the splash screen    *)
(* only when nothing is connected.                                         *)
THEOREM CycleLandsWell == Spec => CycleLandsOnSelectable
<1> DEFINE Lands == kpc = "cycling" /\ kpc' = "unlocked"
           Well == ~never_select[current'] /\ (current' = Tail0 => live = {})
<1>1. ASSUME IInv, [Next]_vars, Lands
      PROVE  Well
  <2>1. CycleLand
    BY <1>1 DEF Next, Keyboard, LcdnodeAdd, LcdnodeRemove, NeverSelect, RequestPriority,
         RefreshAfterSwitch, LcdlistMutexFree, CycleBegin, CycleSkip, CycleLoad,
         CycleMark, Stopped, Fault, vars, keyb
  <2>2. ~never_select[current'] /\ (current' = Tail0 => ~(numclients > 0))
    BY <2>1 DEF CycleLand, MustSkip
  <2>3. numclients = 0 => live = {}
    <3>1. DOMAIN order = 1 .. Len(order) /\ numclients = Len(order) /\ live = ToSet(order)
      BY <1>1 DEF IInv, RingWellFormed, TypeOK
    <3> QED
      BY <3>1 DEF ToSet
  <2> QED
    BY <1>1, <2>1, <2>2, <2>3 DEF IInv, TypeOK, CycleLand, ring
<1>2. IInv /\ [Next]_vars => [Lands => Well]_vars
  BY <1>1
<1> QED
  BY <1>2, Invariance, PTL DEF Spec, CycleLandsOnSelectable

-----------------------------------------------------------------------------
(* The screens the walk has left behind may not be selected: those between *)
(* the one it came to and the one it started from, and once it went round  *)
(* by the head those older than the start and newer than where it is.      *)
WalkSkipped ==
  kpc = "cycling" =>
    \E c, p \in 0 .. Len(order) :
      /\ choice = At(order, c) /\ current = At(order, p)
      /\ \/ /\ p <= c
            /\ \A i \in 1 .. Len(order) : p <= i /\ i < c => never_select[order[i]]
         \/ /\ p >= 1
            /\ \A i \in 1 .. Len(order) : i < c \/ p <= i => never_select[order[i]]

WalkInv == IInv /\ WalkSkipped

(* Every screen on display has a place in the ring; the one that the walk  *)
(* comes to next is at the place before, or at the head.                   *)
LEMMA PlaceOf ==
  ASSUME TypeOK, RingWellFormed, NEW n, Allocated(n)
  PROVE  \E p \in 0 .. Len(order) : n = At(order, p)
<1>1. Len(order) \in Nat /\ DOMAIN order = 1 .. Len(order)
  BY DEF TypeOK
<1>2. CASE n = Tail0
  BY <1>1, <1>2 DEF At
<1>3. CASE n \in live
  <2>1. PICK i \in 1 .. Len(order) : order[i] = n
    BY <1>1, <1>3 DEF RingWellFormed, ToSet
  <2> QED
    BY <1>1, <2>1 DEF At
<1> QED
  BY <1>2, <1>3 DEF Allocated

LEMMA StepBackIs ==
  ASSUME TypeOK, RingWellFormed, NEW p \in 0 .. Len(order), current = At(order, p)
  PROVE  StepBack = At(order, IF p = 0 THEN Len(order) ELSE p - 1)
<1>1. Len(order) \in Nat /\ \A i \in 1 .. Len(order) : order[i] # Tail0
  BY NodeAssumption DEF TypeOK
<1>2. CASE p = 0
  BY <1>2 DEF StepBack, At, RingWellFormed
<1>3. CASE p # 0
  <2>1. p \in 1 .. Len(order) /\ current = order[p] /\ current # Tail0
    BY <1>1, <1>3 DEF At
  <2>2. prev[order[p]] = At(order, p - 1)
    BY <2>1 DEF RingWellFormed
  <2> QED
    BY <1>3, <2>1, <2>2 DEF StepBack
<1> QED
  BY <1>2, <1>3

LEMMA StepKeepsSkipped ==
  ASSUME WalkInv, [Next]_vars
  PROVE  WalkSkipped'
<1>1. TypeOK /\ RingWellFormed /\ Len(order) \in Nat
  BY DEF WalkInv, IInv, TypeOK
<1>2. CASE kpc' # "cycling"
  BY <1>2 DEF WalkSkipped
<1>3. CASE CycleSkip
  <2>1. /\ kpc = "cycling" /\ MustSkip(StepBack) /\ current' = StepBack
        /\ UNCHANGED <<order, never_select, choice>>
    BY <1>3 DEF CycleSkip, ring, keyb
  <2>2. PICK c, p \in 0 .. Len(order) :
          /\ choice = At(order, c) /\ current = At(order, p)
          /\ \/ /\ p <= c
                /\ \A i \in 1 .. Len(order) : p <= i /\ i < c => never_select[order[i]]
             \/ /\ p >= 1
                /\ \A i \in 1 .. Len(order) : i < c \/ p <= i => never_select[order[i]]
    BY <2>1 DEF WalkInv, WalkSkipped
  <2> DEFINE q == IF p = 0 THEN Len(order) ELSE p - 1
  <2>3. q \in 0 .. Len(order) /\ StepBack = At(order, q)
    BY <1>1, <2>2, StepBackIs
  <2>4. q >= 1 => never_select[order[q]]
    <3>1. SUFFICES ASSUME q >= 1 PROVE never_select[order[q]]
      OBVIOUS
    <3>2. q \in 1 .. Len(order) /\ StepBack = order[q]
      BY <1>1, <2>3, <3>1 DEF At
    <3>3. order[q] # Tail0
      BY <1>1, <3>2, NodeAssumption DEF TypeOK
    <3> QED
      BY <2>1, <3>2, <3>3 DEF MustSkip
  <2>5. \/ /\ q <= c
           /\ \A i \in 1 .. Len(order) : q <= i /\ i < c => never_select[order[i]]
        \/ /\ q >= 1
           /\ \A i \in 1 .. Len(order) : i < c \/ q <= i => never_select[order[i]]
    <3>1. CASE p = 0
      <4>1. q = Len(order)
        BY <3>1
      <4>2. \A i \in 1 .. Len(order) : i < c => never_select[order[i]]
        BY <1>1, <2>2, <3>1
      <4> HIDE DEF q
      <4>3. CASE q = 0
        BY <1>1, <4>1, <4>3
      <4>4. CASE q >= 1
        BY <1>1, <2>3, <2>4, <4>1, <4>2, <4>4
      <4> QED
        BY <1>1, <2>3, <4>3, <4>4
    <3>2. CASE p # 0
      <4>1. q = p - 1 /\ p \in 1 .. Len(order)
        BY <1>1, <2>2, <3>2
      <4> HIDE DEF q
      <4>2. CASE p <= c /\ \A i \in 1 .. Len(order) : p <= i /\ i < c => never_select[order[i]]
        <5>1. q <= c
          BY <1>1, <2>2, <4>1, <4>2
        <5>2. ASSUME NEW i \in 1 .. Len(order), q <= i, i < c
              PROVE  never_select[order[i]]
          <6>1. i = q \/ p <= i
            BY <1>1, <4>1, <5>2
          <6>2. i = q => q >= 1
            BY <5>2
          <6> QED
            BY <2>4, <4>2, <5>2, <6>1, <6>2
        <5> QED
          BY <5>1, <5>2
      <4>3. CASE p >= 1 /\ \A i \in 1 .. Len(order) : i < c \/ p <= i => never_select[order[i]]
        <5>1. CASE q = 0
          BY <1>1, <2>2, <4>1, <4>3, <5>1
        <5>2. CASE q >= 1
          <6>1. ASSUME NEW i \in 1 .. Len(order), i < c \/ q <= i
                PROVE  never_select[order[i]]
            <7>1. i = q \/ i < c \/ p <= i
              BY <1>1, <4>1, <6>1
            <7> QED
              BY <2>4, <4>3, <5>2, <7>1
          <6> QED
            BY <5>2, <6>1
        <5> QED
          BY <1>1, <2>2, <4>1, <5>1, <5>2
      <4> QED
        BY <2>2, <4>2, <4>3
    <3> QED
      BY <3>1, <3>2
  <2> HIDE DEF q
  <2> QED
    BY <2>1, <2>2, <2>3, <2>5 DEF WalkSkipped, At
<1>4. CASE CycleBegin
  <2>1. CASE Allocated(current)
    <3>1. UNCHANGED <<order, never_select, current>> /\ choice' = current
      BY <1>4, <2>1 DEF CycleBegin, ring, lcds
    <3>2. PICK c \in 0 .. Len(order) : current = At(order, c)
      BY <1>1, <2>1, PlaceOf
    <3>3. \A i \in 1 .. Len(order) : ~(c <= i /\ i < c)
      BY <1>1, <3>2
    <3>4. c <= c
      BY <1>1, <3>2
    <3> QED
      BY <3>1, <3>2, <3>3, <3>4 DEF WalkSkipped, At
  <2>2. CASE ~Allocated(current)
    BY <1>2, <1>4, <2>2 DEF CycleBegin, Fault, LcdlistMutexFree, keyb
  <2> QED
    BY <2>1, <2>2
<1>5. CASE UNCHANGED <<order, never_select, choice, current, kpc>>
  BY <1>5 DEF WalkInv, WalkSkipped, At
<1> QED
  BY <1>2, <1>3, <1>4, <1>5
  DEF Next, Keyboard, LcdnodeAdd, LcdnodeRemove, NeverSelect, RequestPriority,
      RefreshAfterSwitch, LcdlistMutexFree, CycleLand, CycleLoad, CycleMark, Stopped,
      Fault, vars, ring, lcds, keyb

-----------------------------------------------------------------------------
(* What the ring shows of the stack: the refinement mapping.               *)
Hidden == {n \in live : never_select[n]}
Shown == IF Allocated(Displayed) THEN Displayed ELSE Gone
StackVars == <<order, Hidden, Shown>>

LEMMA MappedFacts ==
  ASSUME TypeOK, RingWellFormed
  PROVE  /\ Stack!Connected = live
         /\ Gone \notin live \cup {Tail0}
         /\ Len(order) \in Nat /\ DOMAIN order = 1 .. Len(order)
         /\ \A i \in 1 .. Len(order) : order[i] \in live /\ order[i] # Tail0
<1>1. Len(order) \in Nat /\ DOMAIN order = 1 .. Len(order)
  BY DEF TypeOK
<1>2. Stack!Connected = live
  BY DEF Stack!Connected, Stack!ToSet, ToSet, RingWellFormed
<1>3. Gone \notin live \cup {Tail0}
  BY GoneAssumption DEF TypeOK, Ring
<1>4. \A i \in 1 .. Len(order) : order[i] \in live /\ order[i] # Tail0
  BY <1>1, NodeAssumption DEF TypeOK, RingWellFormed, ToSet
<1> QED
  BY <1>1, <1>2, <1>3, <1>4

(* Connecting puts a screen on top of the stack. *)
LEMMA AddIsConnect ==
  ASSUME WalkInv, NEW n \in Node, LcdnodeAdd(n)
  PROVE  Stack!Connect(n)
<1>1. TypeOK /\ RingWellFormed
  BY DEF WalkInv, IInv
<1>2. /\ n \notin live /\ live' = live \cup {n} /\ order' = Append(order, n)
      /\ current' = n /\ kpc' = kpc /\ kpc # "cycling"
      /\ never_select' = [never_select EXCEPT ![n] = FALSE]
  BY DEF LcdnodeAdd, LcdlistMutexFree, keyb
<1>3. Hidden' = Hidden
  BY <1>1, <1>2 DEF Hidden, TypeOK, Ring
<1>4. Shown' = n
  BY <1>2 DEF Shown, Displayed, Allocated
<1>5. n \notin Stack!Connected
  BY <1>1, <1>2, MappedFacts
<1> QED
  BY <1>2, <1>3, <1>4, <1>5 DEF Stack!Connect, Hidden, Shown

(* Disconnecting takes a screen out of it; the neighbour is shown. *)
LEMMA RemoveIsDisconnect ==
  ASSUME WalkInv, NEW n \in Node, LcdnodeRemove(n)
  PROVE  Stack!Disconnect(n) \/ UNCHANGED StackVars
<1>1. TypeOK /\ RingWellFormed
  BY DEF WalkInv, IInv
<1>2. n \in live /\ kpc # "cycling"
  BY DEF LcdnodeRemove, LcdlistMutexFree
<1>3. CASE ~Allocated(current)
  <2>1. UNCHANGED <<live, order, never_select, current, kpc>>
    BY <1>3 DEF LcdnodeRemove, Fault, ring, lcds, keyb
  <2> QED
    BY <1>2, <2>1 DEF StackVars, Hidden, Shown, Displayed, Allocated
<1>4. CASE Allocated(current)
  <2>1. /\ Unlink(n) /\ current' = Takeover(n) /\ kpc' = kpc
        /\ never_select' = [never_select EXCEPT ![n] = FALSE]
    BY <1>4 DEF LcdnodeRemove, keyb
  <2>2. live' = live \ {n}
    BY <2>1 DEF Unlink
  <2>3. PICK i \in DOMAIN order : order[i] = n /\ order' = RemoveAt(order, i)
    BY <2>1 DEF Unlink
  <2>4. Hidden' = Hidden \ {n}
    BY <1>1, <2>1, <2>2 DEF Hidden, TypeOK
  <2>5. Shown = current /\ Shown # Gone
    BY <1>1, <1>2, <1>4, MappedFacts DEF Shown, Displayed, Allocated
  <2>6. Takeover(n) \in (live \ {n}) \cup {Tail0}
    BY <1>2, <1>4, TakeoverAllocated DEF WalkInv
  <2>7. Shown' = Takeover(n)
    BY <1>2, <2>1, <2>2, <2>6 DEF Shown, Displayed, Allocated
  <2>8. Takeover(n) = IF current = n THEN Stack!Successor(i) ELSE current
    <3>1. CASE current # n
      BY <3>1 DEF Takeover
    <3>2. CASE current = n
      <4>1. PICK j \in 1 .. Len(order) :
              /\ order[j] = n
              /\ prev[n] = At(order, j - 1)
              /\ next[n] = IF j = Len(order) THEN Tail0 ELSE order[j + 1]
              /\ (n = head) <=> (j = Len(order))
        BY <1>1, <1>2, Neighbours
      <4>2. i = j /\ i \in 1 .. Len(order) /\ Len(order) \in Nat
        BY <1>1, <2>3, <4>1, MappedFacts DEF RingWellFormed, IsInjective
      <4>3. CASE i < Len(order)
        <5>1. Takeover(n) = order[i + 1]
          BY <3>2, <4>1, <4>2, <4>3 DEF Takeover
        <5>2. Stack!Successor(i) = order[i + 1]
          BY <4>2, <4>3 DEF Stack!Successor
        <5> QED
          BY <3>2, <5>1, <5>2
      <4>4. CASE i = Len(order) /\ i > 1
        <5>1. Takeover(n) = order[i - 1]
          BY <3>2, <4>1, <4>2, <4>4 DEF Takeover, At
        <5>2. Stack!Successor(i) = order[i - 1]
          BY <4>2, <4>4 DEF Stack!Successor
        <5> QED
          BY <3>2, <5>1, <5>2
      <4>5. CASE i = Len(order) /\ i = 1
        <5>1. Takeover(n) = Tail0
          BY <3>2, <4>1, <4>2, <4>5 DEF Takeover, At
        <5>2. Stack!Successor(i) = Tail0
          BY <4>2, <4>5 DEF Stack!Successor
        <5> QED
          BY <3>2, <5>1, <5>2
      <4> QED
        BY <4>2, <4>3, <4>4, <4>5
    <3> QED
      BY <3>1, <3>2
  <2>9. order' = Stack!RemoveAt(order, i)
    BY <2>3 DEF Stack!RemoveAt, RemoveAt
  <2> QED
    BY <2>3, <2>4, <2>5, <2>7, <2>8, <2>9 DEF Stack!Disconnect, Hidden, Shown
<1> QED
  BY <1>3, <1>4

LEMMA NeverSelectIsHide ==
  ASSUME WalkInv, NEW n \in Client, NeverSelect(n)
  PROVE  Stack!Hide(n)
<1>1. TypeOK /\ RingWellFormed
  BY DEF WalkInv, IInv
<1>2. /\ n \in live /\ never_select' = [never_select EXCEPT ![n] = TRUE]
      /\ UNCHANGED <<live, order, current, kpc, choice>>
  BY DEF NeverSelect, ring, keyb
<1>3. Hidden' = Hidden \cup {n}
  BY <1>1, <1>2 DEF Hidden, TypeOK, Ring
<1>4. Shown' = Shown
  BY <1>2 DEF Shown, Displayed, Allocated
<1>5. n \in Stack!Connected
  BY <1>1, <1>2, MappedFacts
<1> QED
  BY <1>2, <1>3, <1>4, <1>5 DEF Stack!Hide, Hidden, Shown

(* Asking for the display toggles it. *)
LEMMA RequestIsToggle ==
  ASSUME WalkInv, NEW n \in Client, RequestPriority(n)
  PROVE  Stack!Toggle(n)
<1>1. TypeOK /\ RingWellFormed
  BY DEF WalkInv, IInv
<1>2. /\ n \in live /\ kpc # "cycling" /\ kpc' = kpc
      /\ UNCHANGED <<live, order, never_select>>
  BY DEF RequestPriority, LcdlistMutexFree, ring, keyb, lcds
<1>3. Hidden' = Hidden
  BY <1>2 DEF Hidden
<1>4. n # Gone /\ n \in Stack!Connected /\ Stack!Connected = live
  BY <1>1, <1>2, MappedFacts
<1>5. (Shown = n) <=> (current = n)
  BY <1>2, <1>4 DEF Shown, Displayed, Allocated
<1>6. CASE current # n
  <2>1. Shown' = n
    BY <1>2, <1>6 DEF RequestPriority, Shown, Displayed, Allocated
  <2> QED
    BY <1>2, <1>3, <1>4, <1>5, <1>6, <2>1 DEF Stack!Toggle, Hidden, Shown
<1>7. CASE current = n
  <2>1. current' # n
    <3>1. prev[n] # n
      BY <1>1, <1>2, Neighbours
    <3> QED
      BY <1>7, <3>1 DEF RequestPriority, GoesToOlder
  <2>2. Shown' \in (live \cup {Tail0, Gone}) \ {n}
    BY <1>2, <1>4, <2>1 DEF Shown, Displayed, Allocated
  <2> QED
    BY <1>2, <1>3, <1>4, <1>5, <1>7, <2>2 DEF Stack!Toggle, Hidden, Shown
<1> QED
  BY <1>6, <1>7

LEMMA MaxIs ==
  ASSUME NEW S \in SUBSET Int, NEW m \in S, \A i \in S : i <= m
  PROVE  Stack!Max(S) = m
<1>1. \A x \in S : (\A y \in S : x >= y) => x = m
  OBVIOUS
<1>2. \A y \in S : m >= y
  OBVIOUS
<1> QED
  BY <1>1, <1>2 DEF Stack!Max

(* The walk ends on the next older selectable screen, or, there being none, *)
(* on the newest.                                                           *)
LEMMA LandIsCycle ==
  ASSUME WalkInv, CycleLand
  PROVE  Stack!Cycle
<1>1. TypeOK /\ RingWellFormed
  BY DEF WalkInv, IInv
<1>2. /\ kpc = "cycling" /\ kpc' = "unlocked" /\ ~MustSkip(StepBack)
      /\ current' = StepBack /\ UNCHANGED <<live, order, never_select>>
  BY DEF CycleLand, ring
<1>3. PICK c, p \in 0 .. Len(order) :
        /\ choice = At(order, c) /\ current = At(order, p)
        /\ \/ /\ p <= c
              /\ \A i \in 1 .. Len(order) : p <= i /\ i < c => never_select[order[i]]
           \/ /\ p >= 1
              /\ \A i \in 1 .. Len(order) : i < c \/ p <= i => never_select[order[i]]
  BY <1>2 DEF WalkInv, WalkSkipped
<1> DEFINE q == IF p = 0 THEN Len(order) ELSE p - 1
<1>4. Len(order) \in Nat /\ \A i \in 1 .. Len(order) : order[i] \in live /\ order[i] # Tail0
  BY <1>1, MappedFacts
<1>5. q \in 0 .. Len(order) /\ StepBack = At(order, q)
  BY <1>1, <1>3, <1>4, StepBackIs
<1>6. Hidden' = Hidden
  BY <1>2 DEF Hidden
<1>7. Shown = choice /\ Shown # Gone
  <2>1. choice \in live \cup {Tail0}
    BY <1>3, <1>4 DEF At
  <2> QED
    BY <1>1, <1>2, <2>1, MappedFacts DEF Shown, Displayed, Allocated
<1>8. Shown' = StepBack
  <2>1. StepBack \in live \cup {Tail0}
    BY <1>4, <1>5 DEF At
  <2> QED
    BY <1>2, <2>1 DEF Shown, Displayed, Allocated
<1>9. CASE order = << >>
  <2>1. StepBack = Tail0
    BY <1>5, <1>9 DEF At
  <2> QED
    BY <1>2, <1>6, <1>7, <1>8, <1>9, <2>1 DEF Stack!Cycle, Hidden, Shown
<1>10. CASE order # << >>
  <2>1. Len(order) >= 1 /\ numclients > 0
    BY <1>1, <1>4, <1>10, EmptySeq DEF TypeOK, RingWellFormed
  <2>2. q \in 1 .. Len(order) /\ StepBack = order[q] /\ ~never_select[order[q]]
    BY <1>2, <1>4, <1>5, <2>1 DEF MustSkip, At
  <2>3. Stack!Selectable = {i \in 1 .. Len(order) : ~never_select[order[i]]}
    BY <1>1, <1>4, MappedFacts DEF Stack!Selectable
  <2>4. Stack!Older = {i \in Stack!Selectable : i < c}
    <3>1. ASSUME NEW i \in 1 .. Len(order)
          PROVE  (\E j \in 1 .. Len(order) : choice = order[j] /\ i < j) <=> i < c
      <4>1. ASSUME NEW j \in 1 .. Len(order), choice = order[j] PROVE j = c
        <5>1. c \in 1 .. Len(order) /\ order[c] = order[j]
          BY <1>1, <1>3, <1>4, <4>1 DEF At
        <5>2. \A a, b \in DOMAIN order : order[a] = order[b] => a = b
          BY <1>1 DEF RingWellFormed, IsInjective
        <5> QED
          BY <1>1, <5>1, <5>2, MappedFacts
      <4>2. i < c => c \in 1 .. Len(order) /\ choice = order[c]
        BY <1>3, <1>4 DEF At
      <4> QED
        BY <4>1, <4>2
    <3>2. DOMAIN order = 1 .. Len(order)
      BY <1>1, MappedFacts
    <3> QED
      BY <1>7, <2>3, <3>1, <3>2 DEF Stack!Older, Shown
  <2>5. Stack!Max(IF Stack!Older # {} THEN Stack!Older ELSE Stack!Selectable) = q
    <3> DEFINE older == Stack!Older
               selectable == Stack!Selectable
    <3>1. older \in SUBSET Int /\ selectable \in SUBSET Int /\ q \in selectable
      BY <1>4, <2>2, <2>3, <2>4
    <3>2. CASE p # 0 /\ p <= c
               /\ \A i \in 1 .. Len(order) : p <= i /\ i < c => never_select[order[i]]
      <4>1. q < c /\ q = p - 1
        BY <1>3, <3>2
      <4>2. q \in older
        BY <2>4, <3>1, <4>1
      <4>3. \A i \in older : i <= q
        BY <1>3, <1>4, <2>3, <2>4, <3>2, <4>1
      <4> HIDE DEF older, q
      <4>4. Stack!Max(older) = q
        BY <3>1, <4>2, <4>3, MaxIs
      <4> QED
        BY <4>2, <4>4 DEF older
    <3>3. CASE ~(p # 0 /\ p <= c
               /\ \A i \in 1 .. Len(order) : p <= i /\ i < c => never_select[order[i]])
      <4>1. \A i \in 1 .. Len(order) : i < c => never_select[order[i]]
        BY <1>3, <1>4, <3>3
      <4>2. older = {}
        BY <2>3, <2>4, <4>1
      <4>3. \A i \in selectable : i <= q
        BY <1>3, <1>4, <2>2, <2>3, <3>3
      <4> HIDE DEF selectable, q
      <4>4. Stack!Max(selectable) = q
        BY <3>1, <4>3, MaxIs
      <4> QED
        BY <4>2, <4>4 DEF selectable
    <3> QED
      BY <3>2, <3>3
  <2> HIDE DEF q
  <2>6. Stack!Selectable # {}
    BY <2>2, <2>3
  <2> QED
    BY <1>2, <1>6, <1>7, <1>8, <1>10, <2>2, <2>5, <2>6 DEF Stack!Cycle, Hidden, Shown
<1> QED
  BY <1>9, <1>10

(* Every other step leaves what the users see as it is. *)
LEMMA OthersStutter ==
  ASSUME \/ \E n \in Client : RefreshAfterSwitch(n)
         \/ CycleBegin \/ CycleSkip \/ CycleLoad \/ CycleMark \/ Stopped \/ UNCHANGED vars
  PROVE  UNCHANGED StackVars
<1>1. UNCHANGED <<live, order, never_select>>
  BY DEF RefreshAfterSwitch, CycleBegin, CycleSkip, CycleLoad, CycleMark, Stopped, Fault,
         vars, ring, lcds
<1>2. Displayed' = Displayed
  BY DEF Displayed, RefreshAfterSwitch, CycleBegin, CycleSkip, CycleLoad, CycleMark,
         Stopped, Fault, LcdlistMutexFree, vars, keyb
<1> QED
  BY <1>1, <1>2 DEF StackVars, Hidden, Shown, Allocated

(* For any set of addresses and clients: the doubly linked ring with its    *)
(* mutex, its walk and its late accesses implements the stack of screens.   *)
THEOREM RingImplementsStack == Spec => ImplementsScreenStack
<1>1. Init => WalkSkipped
  BY DEF Init, WalkSkipped
<1>2. Init => Stack!SInit
  BY DEF Init, Stack!SInit, Displayed, Allocated
<1>3. IInv /\ WalkSkipped /\ [Next]_vars => WalkSkipped'
  BY StepKeepsSkipped DEF WalkInv
<1>4. IInv /\ WalkSkipped /\ [Next]_vars => [Stack!SNext]_Stack!svars
  <2> SUFFICES ASSUME WalkInv, [Next]_vars, ~UNCHANGED StackVars PROVE Stack!SNext
    BY DEF WalkInv, StackVars, Hidden, Shown, Stack!svars
  <2>1. Client \subseteq Node
    BY NodeAssumption
  <2> QED
    BY <2>1, AddIsConnect, RemoveIsDisconnect, NeverSelectIsHide, RequestIsToggle,
       LandIsCycle, OthersStutter
    DEF Next, Keyboard, Stack!SNext
<1> QED
  BY <1>1, <1>2, <1>3, <1>4, Invariance, PTL DEF Spec, ImplementsScreenStack, Stack!SSpec
=============================================================================
