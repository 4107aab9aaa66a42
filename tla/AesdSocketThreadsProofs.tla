----------------------- MODULE AesdSocketThreadsProofs -----------------------
(* Theorems about AesdSocketThreads, for any number of connections and of   *)
(* signals.                                                                 *)
EXTENDS AesdSocketThreads, SequenceTheorems, TLAPS

Nodes == {list[i] : i \in DOMAIN list}

Steps == {"off", "start", "init", "loop", "accept", "create", "insert lock", "insert",
          "remove lock", "remove", "shutdown lock", "shutdown join", "returned",
          "exit", "failed", "crashed"}

TypeInv ==
  /\ list \in Seq(Thread)
  /\ thread \in [Thread -> {"none", "running", "complete", "ended"}]
  /\ freed \subseteq Thread
  /\ listMutex \in Context \cup {Nobody, DESTROYED}
  /\ at \in [Context -> Steps]
  /\ data \in Thread \cup {Nobody}
  /\ current \in [Context -> Thread \cup {Nobody}]
  /\ isError \in BOOLEAN

-----------------------------------------------------------------------------
(* Each thread that was created is in one place: with main, which has yet to *)
(* insert it, on the list once, or freed.                                   *)

Inserting == at["main"] \in {"insert lock", "insert"}

NodesInv ==
  /\ \A i, j \in DOMAIN list : i # j => list[i] # list[j]
  /\ Nodes \cap freed = {}
  /\ \A t \in Nodes \cup freed : thread[t] # "none"
  /\ \A c \in Context : current[c] \in Nodes \cup freed \cup {Nobody}
  /\ Inserting => data \in Thread /\ data \notin Nodes \cup freed /\ thread[data] # "none"
  /\ at["main"] = "create" => data \in Thread /\ thread[data] = "none"
  /\ \A t \in Thread :
       \/ thread[t] = "none"
       \/ t \in Nodes \cup freed
       \/ Inserting /\ t = data
       \/ at["main"] = "crashed"

-----------------------------------------------------------------------------
(* Who is where.                                                            *)

Walking(c) == at[c] \in {"insert", "remove", "shutdown join"}

PlacesInv ==
  /\ at["signal"] \in {"off", "shutdown lock", "shutdown join"}
  /\ at["nested"] \in {"off", "shutdown lock", "shutdown join"}
  /\ \A t \in Thread : at[t] \in {"off", "shutdown lock", "shutdown join", "returned"}
  /\ at["main"] \notin {"off", "returned"}
  /\ at["signal"] = "off" => at["nested"] = "off"
  /\ \A c \in Context \ {"main"} : at[c] # "off" => isError
  /\ at["main"] \in {"start", "init"} =>
       \A t \in Thread : thread[t] = "none" /\ at[t] = "off"

(* Until the mutex is destroyed only its owner is at the list, and a        *)
(* shutdown there takes node after node from its front.                     *)
LockedInv ==
  listMutex # DESTROYED =>
    \A c \in Context :
      /\ Walking(c) => listMutex = c
      /\ at[c] = "shutdown join" => current[c] = First(list)

(* The first shutdown empties the list, and main inserts at most one node   *)
(* after it.                                                                *)
DestroyedInv ==
  /\ listMutex = DESTROYED =>
       /\ isError /\ Len(list) <= 1
       /\ at["main"] \in {"create", "insert lock", "insert"} => list = << >>
  /\ isError /\ at["signal"] = "off" =>
       /\ at["main"] # "accept"
       /\ \/ listMutex = DESTROYED
          \/ /\ \A t \in Thread : thread[t] = "none"
             /\ at["main"] \in {"loop", "shutdown lock", "shutdown join", "exit", "failed", "crashed"}

ExitInv ==
  /\ at["main"] \in {"shutdown lock", "shutdown join"} => isError /\ Len(list) <= 1
  /\ at["main"] = "shutdown join" => list = << >> \/ current["main"] = list[1]
  /\ at["main"] = "exit" => list = << >>

ThreadsInv ==
  /\ TypeInv /\ NodesInv /\ PlacesInv /\ LockedInv /\ DestroyedInv /\ ExitInv
-----------------------------------------------------------------------------
(* Lists.                                                                   *)

LEMMA Contexts ==
  /\ {"main", "signal", "nested"} \subseteq Context
  /\ Thread \subseteq Context
  /\ "main" \notin Thread /\ "signal" \notin Thread /\ "nested" \notin Thread
  /\ Nobody \notin Context /\ DESTROYED \notin Context
  /\ Nobody # DESTROYED
  BY AesdSocketThreadsAssumption DEF Context

(* The front of a list is one of its nodes. *)
LEMMA FirstNode ==
  ASSUME NEW S, NEW l \in Seq(S)
  PROVE  \/ l = << >> /\ First(l) = Nobody
         \/ l # << >> /\ 1 \in DOMAIN l /\ First(l) = l[1]
  BY EmptySeq, LenProperties DEF First

(* A list without its i-th node. *)
LEMMA Removal ==
  ASSUME NEW S, NEW l \in Seq(S), NEW i \in DOMAIN l
  PROVE  /\ RemoveAt(l, i) \in Seq(S)
         /\ Len(RemoveAt(l, i)) = Len(l) - 1
         /\ \A j \in 1 .. Len(l) - 1 :
              RemoveAt(l, i)[j] = IF j < i THEN l[j] ELSE l[j + 1]
<1> DEFINE a == SubSeq(l, 1, i - 1)
           b == SubSeq(l, i + 1, Len(l))
<1>1. Len(l) \in Nat /\ i \in 1 .. Len(l) /\ \A j \in 1 .. Len(l) : l[j] \in S
  BY LenProperties, ElementOfSeq
<1>2. /\ a \in Seq(S) /\ Len(a) = i - 1
      /\ \A j \in 1 .. i - 1 : a[j] = l[j]
  <2>1. /\ a \in Seq(S) /\ Len(a) = IF 1 <= i - 1 THEN i - 1 - 1 + 1 ELSE 0
        /\ \A j \in 1 .. i - 1 - 1 + 1 : a[j] = l[1 + j - 1]
    BY <1>1, SubSeqProperties
  <2>2. QED
    BY <2>1, <1>1
<1>3. /\ b \in Seq(S) /\ Len(b) = Len(l) - i
      /\ \A j \in 1 .. Len(l) - i : b[j] = l[i + j]
  <2>1. /\ b \in Seq(S) /\ Len(b) = IF i + 1 <= Len(l) THEN Len(l) - (i + 1) + 1 ELSE 0
        /\ \A j \in 1 .. Len(l) - (i + 1) + 1 : b[j] = l[i + 1 + j - 1]
    BY <1>1, SubSeqProperties
  <2>2. QED
    BY <2>1, <1>1
<1>4. RemoveAt(l, i) = a \o b
  BY DEF RemoveAt
<1> HIDE DEF a, b
<1>5. /\ a \o b \in Seq(S)
      /\ Len(a \o b) = Len(a) + Len(b)
      /\ \A j \in 1 .. Len(a) + Len(b) : (a \o b)[j] = IF j <= Len(a) THEN a[j] ELSE b[j - Len(a)]
  BY <1>2, <1>3, ConcatProperties
<1>6. Len(a) + Len(b) = Len(l) - 1
  BY <1>1, <1>2, <1>3
<1>7. ASSUME NEW j \in 1 .. Len(l) - 1
      PROVE  (a \o b)[j] = IF j < i THEN l[j] ELSE l[j + 1]
  <2>1. (a \o b)[j] = IF j <= Len(a) THEN a[j] ELSE b[j - Len(a)]
    BY <1>5, <1>6
  <2>2. CASE j < i
    BY <2>1, <2>2, <1>1, <1>2
  <2>3. CASE ~(j < i)
    <3>1. b[j - (i - 1)] = l[i + (j - (i - 1))]
      BY <1>1, <1>3, <2>3
    <3>2. i + (j - (i - 1)) = j + 1
      BY <1>1
    <3>3. (a \o b)[j] = b[j - (i - 1)]
      BY <2>1, <2>3, <1>1, <1>2
    <3>4. QED
      BY <3>1, <3>2, <3>3, <2>3
  <2>4. QED
    BY <2>2, <2>3
<1>8. QED
  BY <1>4, <1>5, <1>6, <1>7

(* What Unlink does to the list: t's node is gone, the others are still     *)
(* there once each and in their order, and the walk goes on at one of them. *)
LEMMA Unlinked ==
  ASSUME list \in Seq(Thread),
         \A i, j \in DOMAIN list : i # j => list[i] # list[j],
         NEW c, NEW t \in Nodes, Unlink(c, t)
  PROVE  /\ list' \in Seq(Thread)
         /\ Len(list') = Len(list) - 1
         /\ Nodes' = Nodes \ {t}
         /\ \A i, j \in DOMAIN list' : i # j => list'[i] # list'[j]
         /\ Behind(t) \in Nodes' \cup {Nobody}
         /\ t = First(list) => Behind(t) = First(list')
<1> DEFINE p == Place(t)
           n == Len(list)
           rest == SubSeq(list, p + 1, n)
<1>1. p \in DOMAIN list /\ list[p] = t
  BY DEF Nodes, Place
<1>2. n \in Nat /\ DOMAIN list = 1 .. n /\ \A i \in 1 .. n : list[i] \in Thread
  BY LenProperties, ElementOfSeq
<1>3. list' = RemoveAt(list, p) /\ Behind(t) = First(rest)
  BY DEF Unlink, Behind
<1> HIDE DEF p, n
<1>4. /\ list' \in Seq(Thread)
      /\ Len(list') = n - 1
      /\ \A j \in 1 .. n - 1 : list'[j] = IF j < p THEN list[j] ELSE list[j + 1]
  BY <1>1, <1>3, Removal DEF n
<1>5. DOMAIN list' = 1 .. n - 1
  BY <1>4, LenProperties
<1>6. Nodes' = Nodes \ {t}
  <2>1. ASSUME NEW j \in 1 .. n - 1 PROVE list'[j] \in Nodes \ {t}
    <3>1. CASE j < p
      <4>1. j \in DOMAIN list /\ j # p /\ list'[j] = list[j]
        BY <3>1, <1>1, <1>2, <1>4
      <4>2. QED
        BY <4>1, <1>1 DEF Nodes
    <3>2. CASE ~(j < p)
      <4>1. j + 1 \in DOMAIN list /\ j + 1 # p
        BY <3>2, <1>1, <1>2
      <4>2. list'[j] = list[j + 1]
        BY <3>2, <1>4
      <4>3. QED
        BY <4>1, <4>2, <1>1 DEF Nodes
    <3>3. QED
      BY <3>1, <3>2
  <2>2. ASSUME NEW i \in DOMAIN list, list[i] # t PROVE \E j \in 1 .. n - 1 : list'[j] = list[i]
    <3>1. CASE i < p
      <4>1. i \in 1 .. n - 1
        BY <3>1, <1>1, <1>2
      <4>2. list'[i] = list[i]
        BY <4>1, <3>1, <1>4
      <4>3. QED
        BY <4>1, <4>2
    <3>2. CASE ~(i < p)
      <4>1. i - 1 \in 1 .. n - 1 /\ ~(i - 1 < p) /\ i - 1 + 1 = i
        BY <3>2, <2>2, <1>1, <1>2
      <4>2. QED
        BY <4>1, <1>4
    <3>3. QED
      BY <3>1, <3>2
  <2>3. QED
    BY <2>1, <2>2, <1>5 DEF Nodes
<1>7. ASSUME NEW i \in DOMAIN list', NEW j \in DOMAIN list', i # j
      PROVE  list'[i] # list'[j]
  <2> DEFINE old(k) == IF k < p THEN k ELSE k + 1
  <2>1. \A k \in DOMAIN list' : old(k) \in DOMAIN list /\ list'[k] = list[old(k)]
    BY <1>1, <1>2, <1>4, <1>5
  <2>2. old(i) # old(j)
    BY <1>7, <1>1, <1>2, <1>5
  <2>3. QED
    BY <2>1, <2>2
<1>8. /\ Behind(t) \in Nodes' \cup {Nobody}
      /\ t = First(list) => Behind(t) = First(list')
  <2>1. /\ rest \in Seq(Thread) /\ Len(rest) = n - p
        /\ \A i \in 1 .. n - p : rest[i] = list[p + i]
    <3>1. /\ rest \in Seq(Thread) /\ Len(rest) = IF p + 1 <= n THEN n - (p + 1) + 1 ELSE 0
          /\ \A i \in 1 .. n - (p + 1) + 1 : rest[i] = list[p + 1 + i - 1]
      BY <1>1, <1>2, SubSeqProperties
    <3>2. QED
      BY <3>1, <1>1, <1>2
  <2> HIDE DEF rest
  <2>2. CASE p = n
    <3>1. rest = << >>
      BY <2>1, <2>2, EmptySeq, <1>2
    <3>2. ASSUME t = First(list) PROVE list' = << >>
      <4>1. list[1] = t /\ 1 \in DOMAIN list
        BY <3>2, <1>1, <1>2, FirstNode, EmptySeq
      <4>2. n = 1
        BY <4>1, <1>1, <2>2
      <4>3. QED
        BY <4>2, <1>4, EmptySeq
    <3>3. QED
      BY <3>1, <3>2, <1>3 DEF First
  <2>3. CASE p # n
    <3>1. rest # << >> /\ First(rest) = list[p + 1]
      <4>1. rest # << >>
        BY <2>1, <2>3, <1>1, <1>2, EmptySeq
      <4>2. First(rest) = rest[1]
        BY <4>1, <2>1, FirstNode
      <4>3. 1 \in 1 .. n - p
        BY <2>3, <1>1, <1>2
      <4>4. QED
        BY <4>1, <4>2, <4>3, <2>1
    <3>2. p + 1 \in DOMAIN list /\ p + 1 # p
      BY <2>3, <1>1, <1>2
    <3>3. First(rest) \in Nodes \ {t}
      BY <3>1, <3>2, <1>1 DEF Nodes
    <3>4. ASSUME t = First(list) PROVE First(list') = First(rest)
      <4>1. list[1] = t /\ 1 \in DOMAIN list
        BY <3>4, <1>1, <1>2, FirstNode, EmptySeq
      <4>2. p = 1
        BY <4>1, <1>1
      <4>3. 1 \in 1 .. n - 1
        BY <4>2, <2>3, <1>1, <1>2
      <4>4. list'[1] = list[2]
        BY <4>2, <4>3, <1>4
      <4>5. First(list') = list'[1]
        BY <4>3, <1>4, FirstNode, EmptySeq
      <4>6. QED
        BY <4>2, <4>4, <4>5, <3>1
    <3>5. QED
      BY <3>3, <3>4, <1>3, <1>6
  <2>4. QED
    BY <2>2, <2>3
<1>9. QED
  BY <1>4, <1>6, <1>7, <1>8 DEF n

(* The node behind another, where there is one. *)
LEMMA BehindType ==
  ASSUME list \in Seq(Thread), NEW t \in Nodes
  PROVE  Behind(t) \in Nodes \cup {Nobody}
<1> DEFINE p == Place(t)
           n == Len(list)
           rest == SubSeq(list, p + 1, n)
<1>1. p \in DOMAIN list
  BY DEF Nodes, Place
<1>2. n \in Nat /\ DOMAIN list = 1 .. n /\ \A i \in 1 .. n : list[i] \in Thread
  BY LenProperties, ElementOfSeq
<1>3. Behind(t) = First(rest)
  BY DEF Behind
<1> HIDE DEF p, n
<1>4. /\ rest \in Seq(Thread) /\ Len(rest) = IF p + 1 <= n THEN n - (p + 1) + 1 ELSE 0
      /\ \A i \in 1 .. n - (p + 1) + 1 : rest[i] = list[p + 1 + i - 1]
  BY <1>1, <1>2, SubSeqProperties
<1> HIDE DEF rest
<1>5. CASE rest # << >>
  <2>1. Len(rest) # 0 /\ First(rest) = rest[1]
    BY <1>4, <1>5, FirstNode, EmptySeq
  <2>2. p + 1 \in 1 .. n
    BY <2>1, <1>1, <1>2, <1>4
  <2>3. rest[1] = list[p + 1]
    BY <2>2, <1>1, <1>2, <1>4
  <2>4. QED
    BY <2>1, <2>2, <2>3, <1>2, <1>3 DEF Nodes
<1>6. CASE rest = << >>
  BY <1>3, <1>6 DEF First
<1>7. QED
  BY <1>5, <1>6

-----------------------------------------------------------------------------
(* The invariant holds initially and is preserved by every step.            *)

LEMMA InitInv == Init => ThreadsInv
<1> SUFFICES ASSUME Init PROVE ThreadsInv
  OBVIOUS
<1>1. list = << >> /\ list \in Seq(Thread) /\ DOMAIN list = {} /\ Len(list) = 0
  BY EmptySeq DEF Init
<1>2. TypeInv
  BY <1>1, Contexts DEF Init, TypeInv, Steps
<1>3. at["main"] = "start" /\ \A c \in Context \ {"main"} : at[c] = "off"
  BY Contexts DEF Init
<1>4. NodesInv
  BY <1>1, <1>3, Contexts DEF Init, NodesInv, Nodes, Inserting
<1>5. PlacesInv /\ LockedInv
  BY <1>3, Contexts DEF Init, PlacesInv, LockedInv, Walking
<1>6. DestroyedInv /\ ExitInv
  BY <1>1, <1>3, Contexts DEF Init, DestroyedInv, ExitInv
<1>7. QED
  BY <1>2, <1>4, <1>5, <1>6 DEF ThreadsInv

(* Only c goes anywhere, to step. *)
LEMMA Moved ==
  ASSUME at \in [Context -> Steps],
         NEW c \in Context, NEW step \in Steps, Goto(c, step)
  PROVE  /\ at' \in [Context -> Steps]
         /\ at'[c] = step
         /\ \A d \in Context : d # c => at'[d] = at[d]
  BY DEF Goto

(* What is on the list and freed stays, and so do threads and main's data. *)
SameNodes ==
  /\ list' = list /\ freed' = freed /\ thread' = thread /\ data' = data
  /\ \A c \in Context : current'[c] \in Nodes \cup freed \cup {Nobody}
  /\ at'["main"] = "create" => at["main"] = "create"
  /\ at'["main"] \in {"insert lock", "insert"} => Inserting
  /\ Inserting => at'["main"] \in {"insert lock", "insert", "crashed"}
  /\ at["main"] # "crashed"

LEMMA SameNodesInv == NodesInv /\ SameNodes => NodesInv'
<1> SUFFICES ASSUME NodesInv, SameNodes PROVE NodesInv'
  OBVIOUS
<1>1. Nodes' = Nodes
  BY DEF SameNodes, Nodes
<1>2. Inserting' => Inserting
  BY DEF SameNodes, Inserting
<1>3. Inserting => Inserting' \/ at'["main"] = "crashed"
  BY DEF SameNodes, Inserting
<1>4. QED
  BY <1>1, <1>2, <1>3 DEF NodesInv, SameNodes

(* Nobody but main moves, and no thread. *)
MainMoves ==
  /\ \A c \in Context \ {"main"} : at'[c] = at[c]
  /\ at' \in [Context -> Steps]
  /\ freed' = freed /\ thread' = thread /\ isError' = isError

LEMMA MainMovesInv ==
  ASSUME PlacesInv, MainMoves,
         at'["main"] \notin {"off", "returned", "start"},
         at'["main"] = "init" => at["main"] = "start"
  PROVE  PlacesInv'
  BY Contexts DEF PlacesInv, MainMoves

LEMMA StartupInv == ASSUME ThreadsInv, Startup PROVE ThreadsInv'
<1> USE Contexts DEF ThreadsInv
<1>1. /\ at["main"] = "start"
      /\ at["signal"] = "off"
      /\ list' = list /\ thread' = thread /\ freed' = freed /\ listMutex' = listMutex
      /\ data' = data /\ current' = current /\ isError' = isError
  BY DEF Startup, At, Above
<1>2. PICK step \in {"init", "failed"} : Goto("main", step)
  BY DEF Startup
<1>3. /\ at' \in [Context -> Steps] /\ at'["main"] = step
      /\ \A c \in Context : c # "main" => at'[c] = at[c]
  <2>1. step \in Steps /\ at \in [Context -> Steps]
    BY DEF Steps, TypeInv
  <2>2. QED
    BY <1>2, <2>1, Moved
<1>4. TypeInv'
  BY <1>1, <1>3 DEF TypeInv
<1>5. NodesInv'
  <2>1. SameNodes
    BY <1>1, <1>3 DEF SameNodes, NodesInv, Inserting
  <2>2. QED
    BY <2>1, SameNodesInv
<1>6. PlacesInv'
  <2>1. MainMoves
    BY <1>1, <1>3 DEF MainMoves
  <2>2. QED
    BY <2>1, <1>1, <1>3, MainMovesInv
<1>7. LockedInv'
  BY <1>1, <1>3 DEF LockedInv, Walking, First
<1>8. DestroyedInv' /\ ExitInv'
  BY <1>1, <1>3 DEF DestroyedInv, ExitInv
<1>9. QED
  BY <1>4, <1>5, <1>6, <1>7, <1>8

LEMMA MutexInitInv == ASSUME ThreadsInv, MutexInit PROVE ThreadsInv'
<1> USE Contexts DEF ThreadsInv
<1>1. /\ at["main"] = "init" /\ at["signal"] = "off" /\ Goto("main", "loop")
      /\ list' = list /\ thread' = thread /\ freed' = freed /\ listMutex' = Nobody
      /\ data' = data /\ current' = current /\ isError' = isError
  BY DEF MutexInit, At, Above
<1>2. "loop" \in Steps /\ at \in [Context -> Steps]
  BY DEF Steps, TypeInv
<1>3. /\ at' \in [Context -> Steps] /\ at'["main"] = "loop"
      /\ \A c \in Context : c # "main" => at'[c] = at[c]
  BY <1>1, <1>2, Moved
<1>4. TypeInv'
  BY <1>1, <1>3 DEF TypeInv
<1>5. NodesInv'
  <2>1. SameNodes
    BY <1>1, <1>3 DEF SameNodes, NodesInv, Inserting
  <2>2. QED
    BY <2>1, SameNodesInv
<1>6. PlacesInv'
  <2>1. MainMoves
    BY <1>1, <1>3 DEF MainMoves
  <2>2. QED
    BY <2>1, <1>1, <1>3, MainMovesInv
<1>7. \A t \in Thread : thread[t] = "none" /\ at[t] = "off"
  BY <1>1 DEF PlacesInv
<1>8. LockedInv'
  <2>1. \A c \in Context : ~Walking(c)'
    BY <1>1, <1>3, <1>7 DEF PlacesInv, Walking, Context
  <2>2. QED
    BY <2>1 DEF LockedInv, Walking
<1>9. DestroyedInv' /\ ExitInv'
  BY <1>1, <1>3, <1>7 DEF DestroyedInv, ExitInv
<1>10. QED
  BY <1>4, <1>5, <1>6, <1>8, <1>9

LEMMA NodesAreThreads == TypeInv => Nodes \subseteq Thread
  BY ElementOfSeq, LenProperties DEF TypeInv, Nodes

(* A list that no thread is on is empty. *)
LEMMA NoNodes ==
  ASSUME TypeInv, \A t \in Nodes : FALSE
  PROVE  list = << >> /\ Len(list) <= 1
  BY EmptySeq, FirstNode DEF TypeInv, Nodes

(* main's loop, and accept where it fails. *)
LEMMA LoopInv == ASSUME ThreadsInv, Loop \/ AcceptFails PROVE ThreadsInv'
<1> USE Contexts DEF ThreadsInv
<1>1. PICK step \in {"loop", "shutdown lock", "accept"} :
        /\ Goto("main", step)
        /\ step = "shutdown lock" => at["main"] = "loop" /\ isError
        /\ step = "accept" => ~isError
  <2>1. CASE Loop /\ isError
    <3>1. Goto("main", "shutdown lock") /\ at["main"] = "loop"
      BY <2>1 DEF Loop, Goto, At
    <3>2. QED
      BY <3>1, <2>1
  <2>2. CASE Loop /\ ~isError
    BY <2>2 DEF Loop
  <2>3. CASE AcceptFails
    BY <2>3 DEF AcceptFails
  <2>4. QED
    BY <2>1, <2>2, <2>3
<1>2. /\ at["main"] \in {"loop", "accept"} /\ at["signal"] = "off"
      /\ list' = list /\ thread' = thread /\ freed' = freed /\ listMutex' = listMutex
      /\ data' = data /\ current' = current /\ isError' = isError
  BY DEF Loop, AcceptFails, At, Above
<1>3. /\ at' \in [Context -> Steps] /\ at'["main"] = step
      /\ \A c \in Context : c # "main" => at'[c] = at[c]
  <2>1. step \in Steps /\ at \in [Context -> Steps]
    BY DEF Steps, TypeInv
  <2>2. QED
    BY <1>1, <2>1, Moved
<1>4. TypeInv'
  BY <1>2, <1>3 DEF TypeInv
<1>5. NodesInv'
  <2>1. SameNodes
    BY <1>2, <1>3 DEF SameNodes, NodesInv, Inserting
  <2>2. QED
    BY <2>1, SameNodesInv
<1>6. PlacesInv'
  <2>1. MainMoves
    BY <1>2, <1>3 DEF MainMoves
  <2>2. QED
    BY <2>1, <1>2, <1>3, MainMovesInv
<1>7. LockedInv'
  BY <1>2, <1>3 DEF LockedInv, Walking, First
<1>8. DestroyedInv'
  BY <1>1, <1>2, <1>3 DEF DestroyedInv
<1>9. ExitInv'
  <2>1. ASSUME step = "shutdown lock" PROVE isError /\ Len(list) <= 1
    <3>1. CASE listMutex = DESTROYED
      BY <3>1 DEF DestroyedInv
    <3>2. CASE listMutex # DESTROYED
      <4>1. \A t \in Thread : thread[t] = "none"
        BY <3>2, <2>1, <1>1, <1>2 DEF DestroyedInv
      <4>2. \A t \in Nodes : FALSE
        BY <4>1, NodesAreThreads DEF NodesInv
      <4>3. Len(list) <= 1
        BY <4>2, NoNodes
      <4>4. QED
        BY <4>3, <2>1, <1>1
    <3>3. QED
      BY <3>1, <3>2
  <2>2. QED
    BY <2>1, <1>2, <1>3 DEF ExitInv
<1>10. QED
  BY <1>4, <1>5, <1>6, <1>7, <1>8, <1>9

LEMMA AcceptInv == ASSUME ThreadsInv, NEW t \in Thread, Accept(t) PROVE ThreadsInv'
<1> USE Contexts DEF ThreadsInv
<1>1. /\ at["main"] = "accept" /\ at["signal"] = "off" /\ Goto("main", "create")
      /\ thread[t] = "none" /\ data' = t
      /\ list' = list /\ thread' = thread /\ freed' = freed /\ listMutex' = listMutex
      /\ current' = current /\ isError' = isError
  BY DEF Accept, At, Above
<1>2. "create" \in Steps /\ at \in [Context -> Steps]
  BY DEF Steps, TypeInv
<1>3. /\ at' \in [Context -> Steps] /\ at'["main"] = "create"
      /\ \A c \in Context : c # "main" => at'[c] = at[c]
  BY <1>1, <1>2, Moved
<1>4. TypeInv'
  BY <1>1, <1>3 DEF TypeInv
<1>5. NodesInv'
  <2>1. ~Inserting /\ ~Inserting' /\ Nodes' = Nodes
    BY <1>1, <1>3 DEF Inserting, Nodes
  <2>2. QED
    BY <2>1, <1>1, <1>3 DEF NodesInv
<1>6. PlacesInv'
  <2>1. MainMoves
    BY <1>1, <1>3 DEF MainMoves
  <2>2. QED
    BY <2>1, <1>1, <1>3, MainMovesInv
<1>7. LockedInv'
  BY <1>1, <1>3 DEF LockedInv, Walking, First
<1>8. DestroyedInv' /\ ExitInv'
  BY <1>1, <1>3 DEF DestroyedInv, ExitInv
<1>9. QED
  BY <1>4, <1>5, <1>6, <1>7, <1>8

(* pthread_create, where it starts a thread and where it fails. *)
LEMMA CreateThreadInv == ASSUME ThreadsInv, CreateThread PROVE ThreadsInv'
<1> USE Contexts DEF ThreadsInv
<1>1. PICK step \in {"insert lock", "remove lock"} :
        /\ Goto("main", step)
        /\ \/ /\ step = "insert lock"
              /\ thread' = [thread EXCEPT ![data] = "running"]
              /\ data' = data
           \/ /\ step = "remove lock"
              /\ thread' = thread
              /\ data' = Nobody
  BY DEF CreateThread
<1>2. /\ at["main"] = "create" /\ at["signal"] = "off"
      /\ list' = list /\ freed' = freed /\ listMutex' = listMutex
      /\ current' = current /\ isError' = isError
  BY DEF CreateThread, At, Above
<1>3. /\ at' \in [Context -> Steps] /\ at'["main"] = step
      /\ \A c \in Context : c # "main" => at'[c] = at[c]
  <2>1. step \in Steps /\ at \in [Context -> Steps]
    BY DEF Steps, TypeInv
  <2>2. QED
    BY <1>1, <2>1, Moved
<1>4. data \in Thread /\ thread[data] = "none" /\ data \notin Nodes \cup freed
  BY <1>2 DEF NodesInv
<1>5. thread \in [Thread -> {"none", "running", "complete", "ended"}]
  BY DEF TypeInv
<1>6. /\ thread' \in [Thread -> {"none", "running", "complete", "ended"}]
      /\ \A t \in Thread \ {data} : thread'[t] = thread[t]
      /\ thread'[data] = IF step = "insert lock" THEN "running" ELSE "none"
  BY <1>1, <1>4, <1>5
<1>7. TypeInv'
  BY <1>1, <1>2, <1>3, <1>6 DEF TypeInv
<1>8. NodesInv'
  <2>1. ~Inserting /\ Nodes' = Nodes /\ (Inserting' <=> step = "insert lock")
    BY <1>2, <1>3 DEF Inserting, Nodes
  <2>2. Nodes \subseteq Thread /\ freed \subseteq Thread
    BY NodesAreThreads DEF TypeInv
  <2>3. CASE step = "insert lock"
    <3>1. \A u \in Nodes \cup freed : thread'[u] # "none"
      BY <2>2, <1>4, <1>6 DEF NodesInv
    <3>2. data' = data /\ thread'[data] = "running"
      BY <2>3, <1>1, <1>6
    <3>3. \A u \in Thread : thread'[u] = "none" \/ u \in Nodes \cup freed \/ u = data
      BY <2>1, <1>2, <1>6 DEF NodesInv
    <3>4. QED
      BY <2>1, <2>3, <3>1, <3>2, <3>3, <1>2, <1>3, <1>4 DEF NodesInv
  <2>4. CASE step = "remove lock"
    BY <2>1, <2>4, <1>1, <1>2, <1>3 DEF NodesInv
  <2>5. QED
    BY <2>3, <2>4
<1>10. PlacesInv'
  BY <1>2, <1>3 DEF PlacesInv
<1>11. LockedInv'
  BY <1>2, <1>3 DEF LockedInv, Walking, First
<1>12. DestroyedInv'
  BY <1>2, <1>3, <1>1 DEF DestroyedInv
<1>13. ExitInv'
  BY <1>2, <1>3 DEF ExitInv
<1>14. QED
  BY <1>7, <1>8, <1>10, <1>11, <1>12, <1>13

LEMMA FirstType == TypeInv => First(list) \in Nodes \cup {Nobody}
  BY FirstNode DEF TypeInv, Nodes

LEMMA ListLockInv == ASSUME ThreadsInv, ListLock PROVE ThreadsInv'
<1> USE Contexts DEF ThreadsInv
<1>1. PICK step \in {"insert", "remove"} :
        /\ Goto("main", step)
        /\ at["main"] = IF step = "insert" THEN "insert lock" ELSE "remove lock"
  BY DEF ListLock, At
<1>2. /\ at["main"] \in {"insert lock", "remove lock"} /\ at["signal"] = "off"
      /\ list' = list /\ thread' = thread /\ freed' = freed
      /\ data' = data /\ isError' = isError
      /\ current' = [current EXCEPT !["main"] = First(list)]
  BY DEF ListLock, At, Above
<1>3. /\ listMutex \in {Nobody, DESTROYED}
      /\ listMutex' = IF listMutex = DESTROYED THEN DESTROYED ELSE "main"
  BY DEF ListLock, MutexLock, Lockable, AfterLock
<1>4. /\ at' \in [Context -> Steps] /\ at'["main"] = step
      /\ \A c \in Context : c # "main" => at'[c] = at[c]
  <2>1. step \in Steps /\ at \in [Context -> Steps]
    BY DEF Steps, TypeInv
  <2>2. QED
    BY <1>1, <2>1, Moved
<1>5. /\ First(list) \in Nodes \cup {Nobody} /\ Nodes \subseteq Thread
      /\ current \in [Context -> Thread \cup {Nobody}]
  BY FirstType, NodesAreThreads DEF TypeInv
<1>6. /\ current' \in [Context -> Thread \cup {Nobody}]
      /\ \A c \in Context : current'[c] = IF c = "main" THEN First(list) ELSE current[c]
  BY <1>2, <1>5
<1>7. TypeInv'
  BY <1>2, <1>3, <1>4, <1>6 DEF TypeInv
<1>8. NodesInv'
  <2>1. \A c \in Context : current'[c] \in Nodes \cup freed \cup {Nobody}
    BY <1>5, <1>6 DEF NodesInv
  <2>2. SameNodes
    <3>1. CASE step = "insert"
      BY <2>1, <3>1, <1>1, <1>2, <1>4 DEF SameNodes, Inserting
    <3>2. CASE step = "remove"
      BY <2>1, <3>2, <1>1, <1>2, <1>4 DEF SameNodes, Inserting
    <3>3. QED
      BY <3>1, <3>2
  <2>3. QED
    BY <2>2, SameNodesInv
<1>9. PlacesInv'
  <2>1. MainMoves
    BY <1>2, <1>4 DEF MainMoves
  <2>2. QED
    BY <2>1, <1>2, <1>4, MainMovesInv
<1>10. LockedInv'
  <2>1. SUFFICES ASSUME listMutex' # DESTROYED, NEW c \in Context, c # "main" PROVE ~Walking(c)'
    BY <1>3, <1>4 DEF LockedInv, Walking
  <2>2. ~Walking(c)
    BY <2>1, <1>3 DEF LockedInv
  <2>3. QED
    BY <2>1, <2>2, <1>4 DEF Walking
<1>11. DestroyedInv'
  BY <1>1, <1>2, <1>3, <1>4 DEF DestroyedInv
<1>12. ExitInv'
  BY <1>2, <1>4 DEF ExitInv
<1>13. QED
  BY <1>7, <1>8, <1>9, <1>10, <1>11, <1>12

(* The list with one more node. *)
LEMMA Appended ==
  ASSUME list \in Seq(Thread),
         \A i, j \in DOMAIN list : i # j => list[i] # list[j],
         data \in Thread \ Nodes, list' = Append(list, data)
  PROVE  /\ list' \in Seq(Thread)
         /\ Len(list') = Len(list) + 1
         /\ Nodes' = Nodes \cup {data}
         /\ \A i, j \in DOMAIN list' : i # j => list'[i] # list'[j]
<1>1. /\ list' \in Seq(Thread)
      /\ Len(list') = Len(list) + 1
      /\ \A i \in 1 .. Len(list) : list'[i] = list[i]
      /\ list'[Len(list) + 1] = data
  BY AppendProperties
<1>2. /\ Len(list) \in Nat /\ DOMAIN list = 1 .. Len(list)
      /\ DOMAIN list' = 1 .. Len(list) + 1
  BY <1>1, LenProperties
<1>3. Nodes' = Nodes \cup {data}
  <2>1. \A i \in DOMAIN list' : i \in DOMAIN list \/ i = Len(list) + 1
    BY <1>2
  <2>2. Len(list) + 1 \in DOMAIN list' /\ DOMAIN list \subseteq DOMAIN list'
    BY <1>2
  <2>3. QED
    BY <1>1, <1>2, <2>1, <2>2 DEF Nodes
<1>4. ASSUME NEW i \in DOMAIN list', NEW j \in DOMAIN list', i # j
      PROVE  list'[i] # list'[j]
  <2>1. \A k \in DOMAIN list : list[k] # data
    BY DEF Nodes
  <2>2. /\ i \in DOMAIN list \/ i = Len(list) + 1
        /\ j \in DOMAIN list \/ j = Len(list) + 1
    BY <1>2
  <2>3. QED
    BY <1>1, <1>2, <1>4, <2>1, <2>2
<1>5. QED
  BY <1>1, <1>3, <1>4

LEMMA insertNodeInv == ASSUME ThreadsInv, insertNode PROVE ThreadsInv'
<1> USE Contexts DEF ThreadsInv
<1>1. /\ at["main"] = "insert" /\ at["signal"] = "off" /\ Goto("main", "remove lock")
      /\ list' = Append(list, data) /\ data' = Nobody
      /\ thread' = thread /\ freed' = freed
      /\ current' = current /\ isError' = isError
      /\ listMutex' = IF listMutex = DESTROYED THEN DESTROYED ELSE Nobody
  BY DEF insertNode, At, Above, Inserted, MutexUnlock, AfterUnlock
<1>2. "remove lock" \in Steps /\ at \in [Context -> Steps]
  BY DEF Steps, TypeInv
<1>3. /\ at' \in [Context -> Steps] /\ at'["main"] = "remove lock"
      /\ \A c \in Context : c # "main" => at'[c] = at[c]
  BY <1>1, <1>2, Moved
<1>4. data \in Thread /\ data \notin Nodes \cup freed /\ thread[data] # "none"
  BY <1>1 DEF NodesInv, Inserting
<1>5. /\ list' \in Seq(Thread)
      /\ Len(list') = Len(list) + 1
      /\ Nodes' = Nodes \cup {data}
      /\ \A i, j \in DOMAIN list' : i # j => list'[i] # list'[j]
  BY <1>1, <1>4, Appended DEF TypeInv, NodesInv
<1>6. TypeInv'
  BY <1>1, <1>3, <1>5 DEF TypeInv
<1>7. NodesInv'
  <2>1. Inserting /\ ~Inserting'
    BY <1>1, <1>3 DEF Inserting
  <2>2. /\ Nodes' \cap freed' = {}
        /\ \A t \in Nodes' \cup freed' : thread'[t] # "none"
        /\ \A c \in Context : current'[c] \in Nodes' \cup freed' \cup {Nobody}
        /\ \A t \in Thread : thread'[t] = "none" \/ t \in Nodes' \cup freed'
    BY <1>1, <1>4, <1>5 DEF NodesInv
  <2>3. QED
    BY <2>1, <2>2, <1>3, <1>5 DEF NodesInv
<1>8. PlacesInv'
  <2>1. MainMoves
    BY <1>1, <1>3 DEF MainMoves
  <2>2. QED
    BY <2>1, <1>1, <1>3, MainMovesInv
<1>9. LockedInv'
  <2>1. SUFFICES ASSUME listMutex' # DESTROYED, NEW c \in Context, c # "main" PROVE ~Walking(c)'
    BY <1>3 DEF LockedInv, Walking
  <2>2. listMutex = "main"
    BY <2>1, <1>1 DEF LockedInv, Walking
  <2>3. ~Walking(c)
    BY <2>1, <2>2, <1>1 DEF LockedInv
  <2>4. QED
    BY <2>1, <2>3, <1>3 DEF Walking
<1>10. DestroyedInv'
  <2>1. ASSUME listMutex' = DESTROYED PROVE isError /\ Len(list') <= 1
    <3>1. isError /\ list = << >>
      BY <2>1, <1>1 DEF DestroyedInv
    <3>2. Len(list') <= 1
      BY <3>1, <1>5, EmptySeq
    <3>3. QED
      BY <3>1, <3>2
  <2>2. QED
    BY <2>1, <1>1, <1>3 DEF DestroyedInv
<1>11. ExitInv'
  BY <1>3 DEF ExitInv
<1>12. QED
  BY <1>6, <1>7, <1>8, <1>9, <1>10, <1>11

LEMMA EmptyIsShort == list = << >> => Len(list) <= 1
  BY EmptySeq

LEMMA NodesNotEmpty == ASSUME list \in Seq(Thread), NEW t \in Nodes PROVE list # << >>
  BY EmptySeq DEF Nodes

(* A list of at most one node is empty without it. *)
LEMMA Shorter ==
  ASSUME list \in Seq(Thread), list' \in Seq(Thread), NEW t \in Nodes,
         Len(list') = Len(list) - 1, Len(list) <= 1
  PROVE  list' = << >> /\ Len(list') <= 1
<1>1. Len(list) \in Nat /\ Len(list) # 0
  BY NodesNotEmpty, EmptySeq
<1>2. Len(list') = 0
  BY <1>1
<1>3. QED
  BY <1>2, EmptySeq

(* A step that unlinks and frees t, a node of the list, and goes on behind. *)
Unlinks(c, t) ==
  /\ t \in Nodes
  /\ Unlink(c, t)
  /\ thread' = thread /\ listMutex' = listMutex /\ at' = at
  /\ data' = data /\ isError' = isError

LEMMA UnlinksInv ==
  ASSUME ThreadsInv, NEW c \in Context, NEW t, Unlinks(c, t),
         Walking(c),
         at[c] = "shutdown join" => current[c] = t
  PROVE  ThreadsInv'
<1> USE Contexts DEF ThreadsInv
<1>1. /\ t \in Nodes /\ thread' = thread /\ listMutex' = listMutex /\ at' = at
      /\ data' = data /\ isError' = isError
      /\ freed' = freed \cup {t} /\ current' = [current EXCEPT ![c] = Behind(t)]
  BY DEF Unlinks, Unlink
<1>2. /\ list' \in Seq(Thread)
      /\ Len(list') = Len(list) - 1
      /\ Nodes' = Nodes \ {t}
      /\ \A i, j \in DOMAIN list' : i # j => list'[i] # list'[j]
      /\ Behind(t) \in Nodes' \cup {Nobody}
      /\ t = First(list) => Behind(t) = First(list')
  BY Unlinked DEF Unlinks, TypeInv, NodesInv
<1>3. Nodes \subseteq Thread /\ t \in Thread
  BY <1>1, NodesAreThreads
<1>4. /\ current' \in [Context -> Thread \cup {Nobody}]
      /\ \A d \in Context : current'[d] = IF d = c THEN Behind(t) ELSE current[d]
  BY <1>1, <1>2, <1>3 DEF TypeInv
<1>5. list # << >>
  BY <1>1, NodesNotEmpty DEF TypeInv
<1>6. TypeInv'
  BY <1>1, <1>2, <1>3, <1>4 DEF TypeInv
<1>7. NodesInv'
  <2>1. Nodes' \cup freed' = Nodes \cup freed /\ Nodes' \cap freed' = {}
    BY <1>1, <1>2 DEF NodesInv
  <2>2. Inserting' <=> Inserting
    BY <1>1 DEF Inserting
  <2>3. \A d \in Context : current'[d] \in Nodes' \cup freed' \cup {Nobody}
    BY <2>1, <1>2, <1>4 DEF NodesInv
  <2>4. /\ \A u \in Nodes' \cup freed' : thread'[u] # "none"
        /\ Inserting' => data' \in Thread /\ data' \notin Nodes' \cup freed' /\ thread'[data'] # "none"
        /\ at'["main"] = "create" => data' \in Thread /\ thread'[data'] = "none"
        /\ \A u \in Thread :
             \/ thread'[u] = "none"
             \/ u \in Nodes' \cup freed'
             \/ Inserting' /\ u = data'
             \/ at'["main"] = "crashed"
    BY <1>1, <2>1, <2>2 DEF NodesInv
  <2>5. QED
    BY <1>2, <2>1, <2>3, <2>4 DEF NodesInv
<1>9. PlacesInv'
  BY <1>1 DEF PlacesInv
<1>10. LockedInv'
  <2>1. SUFFICES ASSUME listMutex # DESTROYED, NEW d \in Context
                 PROVE  /\ Walking(d)' => listMutex = d
                        /\ at[d] = "shutdown join" => current'[d] = First(list')
    BY <1>1 DEF LockedInv
  <2>2. Walking(d)' <=> Walking(d)
    BY <1>1 DEF Walking
  <2>3. Walking(d) => listMutex = d
    BY <2>1 DEF LockedInv
  <2>4. ASSUME at[d] = "shutdown join" PROVE current'[d] = First(list')
    <3>1. d = c
      BY <2>1, <2>4 DEF LockedInv, Walking
    <3>2. t = First(list)
      BY <2>1, <2>4, <3>1 DEF LockedInv
    <3>3. QED
      BY <3>1, <3>2, <1>2, <1>4
  <2>5. QED
    BY <2>2, <2>3, <2>4
<1>11. Len(list) <= 1 => list' = << >> /\ Len(list') <= 1
  BY <1>1, <1>2, Shorter DEF TypeInv
<1>12. DestroyedInv'
  BY <1>1, <1>5, <1>11 DEF DestroyedInv
<1>13. ExitInv'
  BY <1>1, <1>5, <1>11 DEF ExitInv
<1>14. QED
  BY <1>6, <1>7, <1>9, <1>10, <1>12, <1>13

(* A turn of removeCompletedThreads: the end of the list, a node that is    *)
(* passed, or one that is joined.                                           *)
LEMMA removeCompletedThreadsInv ==
  ASSUME ThreadsInv, removeCompletedThreads PROVE ThreadsInv'
<1> USE Contexts DEF ThreadsInv
<1> DEFINE t == current["main"]
<1>1. /\ at["main"] = "remove" /\ at["signal"] = "off" /\ t \notin freed
      /\ thread' = thread /\ data' = data /\ isError' = isError
  BY DEF removeCompletedThreads, At, Above, WalksFreedNode
<1>2. CASE t = Nobody
  <2>1. /\ Goto("main", "loop")
        /\ list' = list /\ freed' = freed /\ current' = current
        /\ listMutex' = IF listMutex = DESTROYED THEN DESTROYED ELSE Nobody
    BY <1>2 DEF removeCompletedThreads, MutexUnlock, AfterUnlock
  <2>2. "loop" \in Steps /\ at \in [Context -> Steps]
    BY DEF Steps, TypeInv
  <2>3. /\ at' \in [Context -> Steps] /\ at'["main"] = "loop"
        /\ \A c \in Context : c # "main" => at'[c] = at[c]
    BY <2>1, <2>2, Moved
  <2>4. TypeInv'
    BY <1>1, <2>1, <2>3 DEF TypeInv
  <2>5. NodesInv'
    <3>1. SameNodes
      BY <1>1, <2>1, <2>3 DEF SameNodes, NodesInv, Inserting
    <3>2. QED
      BY <3>1, SameNodesInv
  <2>6. PlacesInv'
    <3>1. MainMoves
      BY <1>1, <2>1, <2>3 DEF MainMoves
    <3>2. QED
      BY <3>1, <1>1, <2>3, MainMovesInv
  <2>7. LockedInv'
    <3>1. SUFFICES ASSUME listMutex' # DESTROYED, NEW c \in Context, c # "main" PROVE ~Walking(c)'
      BY <2>3 DEF LockedInv, Walking
    <3>2. listMutex = "main"
      BY <3>1, <1>1, <2>1 DEF LockedInv, Walking
    <3>3. ~Walking(c)
      BY <3>1, <3>2, <2>1 DEF LockedInv
    <3>4. QED
      BY <3>1, <3>3, <2>3 DEF Walking
  <2>8. DestroyedInv'
    BY <1>1, <2>1, <2>3 DEF DestroyedInv
  <2>9. ExitInv'
    BY <2>3 DEF ExitInv
  <2>10. QED
    BY <2>4, <2>5, <2>6, <2>7, <2>8, <2>9
<1>3. CASE t # Nobody
  <2>1. t \in Nodes /\ t \in Thread
    BY <1>1, <1>3, NodesAreThreads DEF NodesInv
  <2>2. CASE thread[t] = "running"
    <3>1. /\ list' = list /\ freed' = freed /\ listMutex' = listMutex /\ at' = at
          /\ current' = [current EXCEPT !["main"] = Behind(t)]
      BY <1>3, <2>2 DEF removeCompletedThreads
    <3>2. Behind(t) \in Nodes \cup {Nobody}
      BY <2>1, BehindType DEF TypeInv
    <3>3. /\ current' \in [Context -> Thread \cup {Nobody}]
          /\ \A d \in Context : current'[d] = IF d = "main" THEN Behind(t) ELSE current[d]
      BY <3>1, <3>2, NodesAreThreads DEF TypeInv
    <3>4. TypeInv'
      BY <1>1, <3>1, <3>3 DEF TypeInv
    <3>5. NodesInv'
      <4>1. \A c \in Context : current'[c] \in Nodes \cup freed \cup {Nobody}
        BY <3>2, <3>3 DEF NodesInv
      <4>2. SameNodes
        BY <1>1, <3>1, <4>1 DEF SameNodes, Inserting
      <4>3. QED
        BY <4>2, SameNodesInv
    <3>6. PlacesInv'
      BY <1>1, <3>1 DEF PlacesInv
    <3>7. LockedInv'
      BY <1>1, <3>1, <3>3 DEF LockedInv, Walking
    <3>8. DestroyedInv' /\ ExitInv'
      BY <1>1, <3>1 DEF DestroyedInv, ExitInv
    <3>9. QED
      BY <3>4, <3>5, <3>6, <3>7, <3>8
  <2>3. CASE thread[t] # "running"
    <3>1. Unlinks("main", t)
      BY <1>1, <1>3, <2>1, <2>3 DEF removeCompletedThreads, Unlinks
    <3>2. QED
      BY <1>1, <3>1, UnlinksInv DEF Walking
  <2>4. QED
    BY <2>2, <2>3
<1>4. QED
  BY <1>2, <1>3

(* The process dies: nothing but main's place changes. *)
LEMMA CrashInv ==
  ASSUME ThreadsInv, Alive, Goto("main", "crashed"),
         list' = list, thread' = thread, freed' = freed, listMutex' = listMutex,
         data' = data, current' = current, isError' = isError
  PROVE  ThreadsInv'
<1> USE Contexts DEF ThreadsInv
<1>1. "crashed" \in Steps /\ at \in [Context -> Steps] /\ at["main"] # "crashed"
  BY DEF Steps, TypeInv, Alive
<1>2. /\ at' \in [Context -> Steps] /\ at'["main"] = "crashed"
      /\ \A d \in Context : d # "main" => at'[d] = at[d]
  BY <1>1, Moved
<1>3. TypeInv'
  BY <1>2 DEF TypeInv
<1>4. NodesInv'
  <2>1. SameNodes
    BY <1>1, <1>2 DEF SameNodes, NodesInv, Inserting
  <2>2. QED
    BY <2>1, SameNodesInv
<1>5. PlacesInv'
  <2>1. MainMoves
    BY <1>2 DEF MainMoves
  <2>2. QED
    BY <2>1, <1>2, MainMovesInv
<1>6. LockedInv'
  BY <1>2 DEF LockedInv, Walking, First
<1>7. DestroyedInv' /\ ExitInv'
  BY <1>2 DEF DestroyedInv, ExitInv
<1>8. QED
  BY <1>3, <1>4, <1>5, <1>6, <1>7

LEMMA SigpipeInv ==
  ASSUME ThreadsInv, Alive, NEW t \in Thread, Sigpipe(t) PROVE ThreadsInv'
  BY CrashInv DEF Sigpipe

(* A walk over freed memory: it crashes, or stops at a null pointer. *)
LEMMA UseFreedNodeInv ==
  ASSUME ThreadsInv, Alive, UseFreedNode PROVE ThreadsInv'
<1> USE Contexts DEF ThreadsInv
<1>1. PICK c \in Context :
        /\ at[c] \in {"remove", "shutdown join"} /\ current[c] \in freed
        /\ \/ Goto("main", "crashed") /\ current' = current
           \/ current' = [current EXCEPT ![c] = Nobody] /\ at' = at
  BY DEF UseFreedNode, At, WalksFreedNode
<1>2. /\ list' = list /\ thread' = thread /\ freed' = freed /\ listMutex' = listMutex
      /\ data' = data /\ isError' = isError /\ at["main"] # "crashed"
  BY DEF UseFreedNode, Alive
<1>3. CASE Goto("main", "crashed") /\ current' = current
  BY <1>2, <1>3, CrashInv
<1>4. CASE current' = [current EXCEPT ![c] = Nobody] /\ at' = at
  <2>1. /\ current' \in [Context -> Thread \cup {Nobody}]
        /\ \A d \in Context : current'[d] = IF d = c THEN Nobody ELSE current[d]
    BY <1>4 DEF TypeInv
  <2>2. TypeInv'
    BY <1>2, <1>4, <2>1 DEF TypeInv
  <2>3. NodesInv'
    <3>1. SameNodes
      BY <1>2, <1>4, <2>1 DEF SameNodes, NodesInv, Inserting
    <3>2. QED
      BY <3>1, SameNodesInv
  <2>4. PlacesInv'
    BY <1>2, <1>4 DEF PlacesInv
  <2>5. current[c] \notin Nodes /\ current[c] # Nobody
    BY <1>1 DEF NodesInv, TypeInv
  <2>6. LockedInv'
    <3>1. SUFFICES ASSUME listMutex # DESTROYED, NEW d \in Context
                   PROVE  /\ Walking(d)' => listMutex = d
                          /\ at[d] = "shutdown join" => current'[d] = First(list)
      BY <1>2, <1>4 DEF LockedInv, First
    <3>2. Walking(d)' <=> Walking(d)
      BY <1>4 DEF Walking
    <3>3. at[d] = "shutdown join" => d # c
      BY <3>1, <2>5, FirstType DEF LockedInv
    <3>4. QED
      BY <3>1, <3>2, <3>3, <2>1 DEF LockedInv
  <2>7. DestroyedInv'
    BY <1>2, <1>4 DEF DestroyedInv
  <2>8. ExitInv'
    <3>1. at["main"] = "shutdown join" /\ c = "main" => list = << >>
      BY <2>5, FirstNode DEF ExitInv, TypeInv, Nodes
    <3>2. QED
      BY <3>1, <1>2, <1>4, <2>1 DEF ExitInv
  <2>9. QED
    BY <2>2, <2>3, <2>4, <2>6, <2>7, <2>8
<1>5. QED
  BY <1>1, <1>3, <1>4

(* A client thread goes on: it was created and stays so. *)
LEMMA client_handlerInv ==
  ASSUME ThreadsInv, NEW t \in Thread, client_handler(t) PROVE ThreadsInv'
<1> USE Contexts DEF ThreadsInv
<1>1. /\ thread[t] \in {"running", "complete"}
      /\ list' = list /\ freed' = freed /\ listMutex' = listMutex /\ at' = at
      /\ data' = data /\ current' = current /\ isError' = isError
  BY DEF client_handler
<1>2. PICK step \in {"complete", "ended"} : thread' = [thread EXCEPT ![t] = step]
  BY DEF client_handler
<1>3. /\ thread' \in [Thread -> {"none", "running", "complete", "ended"}]
      /\ \A u \in Thread : thread'[u] = IF u = t THEN step ELSE thread[u]
  BY <1>2 DEF TypeInv
<1>4. \A u \in Thread : thread'[u] = "none" <=> thread[u] = "none"
  BY <1>1, <1>3
<1>5. TypeInv'
  BY <1>1, <1>3 DEF TypeInv
<1>6. NodesInv'
  <2>1. Nodes' = Nodes /\ (Inserting' <=> Inserting)
    BY <1>1 DEF Nodes, Inserting
  <2>2. Nodes \subseteq Thread /\ freed \subseteq Thread
    BY NodesAreThreads DEF TypeInv
  <2>3. QED
    BY <1>1, <1>4, <2>1, <2>2 DEF NodesInv
<1>8. PlacesInv'
  BY <1>1, <1>4 DEF PlacesInv
<1>9. LockedInv'
  BY <1>1 DEF LockedInv, Walking, First
<1>10. DestroyedInv'
  BY <1>1, <1>4 DEF DestroyedInv
<1>11. ExitInv'
  BY <1>1 DEF ExitInv
<1>12. QED
  BY <1>5, <1>6, <1>8, <1>9, <1>10, <1>11

LEMMA ShutdownLockInv ==
  ASSUME ThreadsInv, Alive, NEW c \in Context, ShutdownLock(c) PROVE ThreadsInv'
<1> USE Contexts DEF ThreadsInv
<1>1. /\ at[c] = "shutdown lock" /\ Goto(c, "shutdown join")
      /\ list' = list /\ thread' = thread /\ freed' = freed
      /\ data' = data /\ isError' = isError /\ at["main"] # "crashed"
      /\ current' = [current EXCEPT ![c] = First(list)]
  BY DEF ShutdownLock, At, Alive
<1>2. /\ listMutex \in {Nobody, DESTROYED}
      /\ listMutex' = IF listMutex = DESTROYED THEN DESTROYED ELSE c
  BY DEF ShutdownLock, MutexLock, Lockable, AfterLock
<1>3. "shutdown join" \in Steps /\ at \in [Context -> Steps]
  BY DEF Steps, TypeInv
<1>4. /\ at' \in [Context -> Steps] /\ at'[c] = "shutdown join"
      /\ \A d \in Context : d # c => at'[d] = at[d]
  BY <1>1, <1>3, Moved
<1>5. /\ First(list) \in Nodes \cup {Nobody} /\ Nodes \subseteq Thread
      /\ current \in [Context -> Thread \cup {Nobody}]
  BY FirstType, NodesAreThreads DEF TypeInv
<1>6. /\ current' \in [Context -> Thread \cup {Nobody}]
      /\ \A d \in Context : current'[d] = IF d = c THEN First(list) ELSE current[d]
  BY <1>1, <1>5
<1>7. TypeInv'
  BY <1>1, <1>2, <1>4, <1>6 DEF TypeInv
<1>8. NodesInv'
  <2>1. \A d \in Context : current'[d] \in Nodes \cup freed \cup {Nobody}
    BY <1>5, <1>6 DEF NodesInv
  <2>2. SameNodes
    BY <2>1, <1>1, <1>4 DEF SameNodes, Inserting
  <2>3. QED
    BY <2>2, SameNodesInv
<1>10. PlacesInv'
  <2>1. /\ at'["signal"] \in {"off", "shutdown lock", "shutdown join"}
        /\ at'["nested"] \in {"off", "shutdown lock", "shutdown join"}
        /\ \A u \in Thread : at'[u] \in {"off", "shutdown lock", "shutdown join", "returned"}
        /\ at'["main"] \notin {"off", "returned"}
    BY <1>1, <1>4 DEF PlacesInv
  <2>2. \A d \in Context : at'[d] = "off" <=> at[d] = "off"
    BY <1>1, <1>4
  <2>3. at'["main"] \in {"start", "init"} => at["main"] = at'["main"]
    BY <1>4
  <2>4. QED
    BY <1>1, <2>1, <2>2, <2>3 DEF PlacesInv
<1>11. LockedInv'
  <2>1. SUFFICES ASSUME listMutex' # DESTROYED, NEW d \in Context, d # c PROVE ~Walking(d)'
    BY <1>1, <1>2, <1>4, <1>6 DEF LockedInv, Walking, First
  <2>2. ~Walking(d)
    BY <2>1, <1>2 DEF LockedInv
  <2>3. QED
    BY <2>1, <2>2, <1>4 DEF Walking
<1>12. DestroyedInv'
  BY <1>1, <1>2, <1>4 DEF DestroyedInv
<1>13. ExitInv'
  <2>1. list = << >> \/ First(list) = list[1]
    BY FirstNode DEF TypeInv
  <2>2. QED
    BY <2>1, <1>1, <1>4, <1>6 DEF ExitInv
<1>14. QED
  BY <1>7, <1>8, <1>10, <1>11, <1>12, <1>13

LEMMA ShutdownJoinInv ==
  ASSUME ThreadsInv, NEW c \in Context, ShutdownJoin(c) PROVE ThreadsInv'
<1> USE Contexts DEF ThreadsInv
<1> DEFINE t == current[c]
<1>1. at[c] = "shutdown join" /\ t # Nobody /\ t \notin freed
  BY DEF ShutdownJoin, At, WalksFreedNode
<1>2. t \in Nodes /\ t \in Thread
  BY <1>1, NodesAreThreads DEF NodesInv
<1>3. Unlinks(c, t)
  BY <1>2 DEF ShutdownJoin, Unlinks
<1>4. Walking(c)
  BY <1>1 DEF Walking
<1>5. QED
  BY <1>1, <1>3, <1>4, UnlinksInv

(* A shutdown that has come to the end of the list destroys the mutexes.    *)
(* If it is the first, the list is empty.                                   *)
LEMMA ShutdownDoneInv ==
  ASSUME ThreadsInv, Alive, NEW c \in Context, ShutdownDone(c) PROVE ThreadsInv'
<1> USE Contexts DEF ThreadsInv
<1>1. /\ at[c] = "shutdown join" /\ current[c] = Nobody /\ listMutex' = DESTROYED
      /\ list' = list /\ thread' = thread /\ freed' = freed
      /\ data' = data /\ current' = current /\ isError' = isError
      /\ at["main"] \notin {"crashed", "exit"}
  BY DEF ShutdownDone, At, Alive
<1>2. at \in [Context -> Steps]
  BY DEF TypeInv
<1>3. c = "signal" => at["nested"] = "off"
  <2>1. ASSUME c = "signal" PROVE At("signal", "shutdown join")
    BY <2>1 DEF ShutdownDone
  <2>2. At("signal", "shutdown join") => at["nested"] = "off"
    BY DEF At, Above
  <2>3. QED
    BY <2>1, <2>2
<1>4. /\ at' \in [Context -> Steps]
      /\ \A d \in Context \ {c, "main"} : at'[d] = at[d]
      /\ at'["main"] = CASE c = "main" -> "exit"
                         [] c = "signal" -> Interrupted(at["main"])
                         [] OTHER -> at["main"]
      /\ c \in {"signal", "nested"} => at'[c] = "off"
      /\ c \in Thread => at'[c] = "returned"
  <2>1. CASE c = "main"
    <3>1. at' = [at EXCEPT !["main"] = "exit"]
      BY <2>1 DEF ShutdownDone
    <3>2. QED
      BY <2>1, <3>1, <1>2 DEF Steps
  <2>2. CASE c = "signal"
    <3>1. at' = [at EXCEPT !["signal"] = "off", !["main"] = Interrupted(@)]
      BY <2>2 DEF ShutdownDone
    <3>2. Interrupted(at["main"]) \in Steps
      BY <1>2 DEF Interrupted, Steps
    <3>3. QED
      BY <2>2, <3>1, <3>2, <1>2 DEF Steps
  <2>3. CASE c = "nested"
    <3>1. at' = [at EXCEPT !["nested"] = "off"]
      BY <2>3 DEF ShutdownDone
    <3>2. QED
      BY <2>3, <3>1, <1>2 DEF Steps
  <2>4. CASE c \in Thread
    <3>1. at' = [at EXCEPT ![c] = "returned"]
      BY <2>4 DEF ShutdownDone
    <3>2. QED
      BY <2>4, <3>1, <1>2 DEF Steps
  <2>5. QED
    BY <2>1, <2>2, <2>3, <2>4 DEF Context
<1>5. \/ at'["main"] = at["main"] /\ c # "main"
      \/ at'["main"] = "exit" /\ c = "main"
      \/ at["main"] = "accept" /\ at'["main"] = "loop" /\ c = "signal"
  BY <1>4 DEF Interrupted
<1>6. TypeInv'
  BY <1>1, <1>4 DEF TypeInv
<1>7. NodesInv'
  <2>1. SameNodes
    BY <1>1, <1>5 DEF SameNodes, NodesInv, Inserting
  <2>2. QED
    BY <2>1, SameNodesInv
<1>9. PlacesInv'
  <2>1. /\ at'["signal"] \in {at["signal"], "off"}
        /\ at'["nested"] \in {at["nested"], "off"}
        /\ \A t \in Thread : at'[t] \in {at[t], "returned"}
    BY <1>4
  <2>2. at'["signal"] = "off" => at'["nested"] = "off"
    BY <1>1, <1>3, <1>4 DEF PlacesInv
  <2>3. \A d \in Context \ {"main"} : at'[d] # "off" => at[d] # "off"
    BY <1>1, <1>4
  <2>4. at'["main"] \in {"start", "init"} => c \notin Thread /\ at["main"] = at'["main"]
    BY <1>1, <1>5 DEF PlacesInv
  <2>5. at'["main"] \notin {"off", "returned"}
    BY <1>5 DEF PlacesInv
  <2>6. \A t \in Thread : c \notin Thread => at'[t] = at[t]
    BY <1>4
  <2>7. at'["main"] \in {"start", "init"} =>
          \A t \in Thread : thread'[t] = "none" /\ at'[t] = "off"
    BY <1>1, <2>4, <2>6 DEF PlacesInv
  <2>8. /\ at'["signal"] \in {"off", "shutdown lock", "shutdown join"}
        /\ at'["nested"] \in {"off", "shutdown lock", "shutdown join"}
        /\ \A t \in Thread : at'[t] \in {"off", "shutdown lock", "shutdown join", "returned"}
    BY <2>1 DEF PlacesInv
  <2>9. \A d \in Context \ {"main"} : at'[d] # "off" => isError'
    BY <1>1, <2>3 DEF PlacesInv
  <2>10. QED
    BY <2>2, <2>5, <2>7, <2>8, <2>9 DEF PlacesInv
<1>10. LockedInv'
  BY <1>1 DEF LockedInv
<1>11. isError
  BY <1>1 DEF PlacesInv, ExitInv
<1>12. listMutex # DESTROYED \/ c = "main" => list = << >>
  <2>1. listMutex # DESTROYED => First(list) = Nobody
    BY <1>1 DEF LockedInv
  <2>2. c = "main" => list = << >> \/ list[1] = Nobody
    BY <1>1 DEF ExitInv
  <2>3. \/ list = << >>
        \/ First(list) = list[1] /\ list[1] \in Nodes
    BY FirstNode DEF TypeInv, Nodes
  <2>4. QED
    BY <2>1, <2>2, <2>3, NodesAreThreads
<1>13. DestroyedInv'
  <2>1. Len(list) <= 1
    <3>1. CASE listMutex = DESTROYED
      BY <3>1 DEF DestroyedInv
    <3>2. CASE listMutex # DESTROYED
      BY <3>2, <1>12, EmptyIsShort
    <3>3. QED
      BY <3>1, <3>2
  <2>2. at["main"] \in {"create", "insert lock", "insert"} => list = << >>
    BY <1>12 DEF DestroyedInv
  <2>3. at'["signal"] = "off" => at'["main"] # "accept"
    <3>1. CASE c = "main" \/ c = "signal"
      BY <3>1, <1>4 DEF Interrupted
    <3>2. CASE c # "main" /\ c # "signal"
      <4>1. at'["main"] = at["main"] /\ at'["signal"] = at["signal"]
        BY <3>2, <1>4
      <4>2. QED
        BY <4>1, <1>11 DEF DestroyedInv
    <3>3. QED
      BY <3>1, <3>2
  <2>4. QED
    BY <1>1, <1>5, <1>11, <2>1, <2>2, <2>3 DEF DestroyedInv
<1>14. ExitInv'
  BY <1>1, <1>5, <1>12 DEF ExitInv
<1>15. QED
  BY <1>6, <1>7, <1>9, <1>10, <1>13, <1>14

(* A signal starts a shutdown on top of main, on top of main's handler, or  *)
(* on a client thread.                                                      *)
LEMMA signal_handlerInv ==
  ASSUME ThreadsInv, signal_handler PROVE ThreadsInv'
<1> USE Contexts DEF ThreadsInv
<1>1. PICK c \in Receivers : at[c] = "off" /\ Goto(c, "shutdown lock")
  BY DEF signal_handler
<1>2. /\ list' = list /\ thread' = thread /\ freed' = freed /\ listMutex' = listMutex
      /\ data' = data /\ current' = current /\ isError' = TRUE
  BY DEF signal_handler
<1>3. /\ c \in Context \ {"main"}
      /\ c = "signal" \/ at["signal"] # "off"
      /\ c \in Thread => thread[c] # "none"
  BY <1>1 DEF Receivers
<1>4. "shutdown lock" \in Steps /\ at \in [Context -> Steps]
  BY DEF Steps, TypeInv
<1>5. /\ at' \in [Context -> Steps] /\ at'[c] = "shutdown lock"
      /\ \A d \in Context : d # c => at'[d] = at[d]
  BY <1>1, <1>3, <1>4, Moved
<1>6. at'["main"] = at["main"] /\ at'["signal"] # "off"
  BY <1>3, <1>5
<1>7. TypeInv'
  BY <1>2, <1>5 DEF TypeInv
<1>8. NodesInv'
  <2>1. Nodes' = Nodes /\ (Inserting' <=> Inserting)
    BY <1>2, <1>6 DEF Nodes, Inserting
  <2>2. QED
    BY <1>2, <1>6, <2>1 DEF NodesInv
<1>10. PlacesInv'
  <2>1. ASSUME NEW d \in Context
        PROVE  at'[d] = at[d] \/ (at'[d] = "shutdown lock" /\ d = c)
    <3>1. CASE d = c
      BY <3>1, <1>5
    <3>2. CASE d # c
      BY <3>2, <1>5
    <3>3. QED
      BY <3>1, <3>2
  <2>2. at["main"] \in {"start", "init"} => c \notin Thread
    BY <1>3 DEF PlacesInv
  <2>3. /\ at'["signal"] \in {"off", "shutdown lock", "shutdown join"}
        /\ at'["nested"] \in {"off", "shutdown lock", "shutdown join"}
        /\ \A t \in Thread : at'[t] \in {"off", "shutdown lock", "shutdown join", "returned"}
    BY <2>1 DEF PlacesInv
  <2>4. QED
    BY <1>2, <1>6, <2>1, <2>2, <2>3 DEF PlacesInv
<1>11. LockedInv'
  <2>1. \A d \in Context : /\ Walking(d)' => Walking(d)
                           /\ at'[d] = "shutdown join" => at[d] = "shutdown join"
    BY <1>5 DEF Walking
  <2>2. QED
    BY <1>2, <2>1 DEF LockedInv, First
<1>12. DestroyedInv' /\ ExitInv'
  BY <1>2, <1>6 DEF DestroyedInv, ExitInv
<1>13. QED
  BY <1>7, <1>8, <1>10, <1>11, <1>12

LEMMA NextInv == ThreadsInv /\ [Next]_vars => ThreadsInv'
<1> SUFFICES ASSUME ThreadsInv, [Next]_vars PROVE ThreadsInv'
  OBVIOUS
<1>1. CASE UNCHANGED vars
  <2>1. /\ list' = list /\ thread' = thread /\ freed' = freed /\ listMutex' = listMutex
        /\ at' = at /\ data' = data /\ current' = current /\ isError' = isError
    BY <1>1 DEF vars
  <2>2. TypeInv' /\ NodesInv'
    <3>1. Nodes' = Nodes /\ (Inserting' <=> Inserting)
      BY <2>1 DEF Nodes, Inserting
    <3>2. QED
      BY <2>1, <3>1 DEF ThreadsInv, TypeInv, NodesInv
  <2>3. PlacesInv' /\ LockedInv'
    BY <2>1 DEF ThreadsInv, PlacesInv, LockedInv, Walking, First
  <2>4. DestroyedInv' /\ ExitInv'
    BY <2>1 DEF ThreadsInv, DestroyedInv, ExitInv
  <2>5. QED
    BY <2>2, <2>3, <2>4 DEF ThreadsInv
<1>2. ASSUME Alive, NEW c \in Context, do_shutdown(c) PROVE ThreadsInv'
  BY <1>2, ShutdownLockInv, ShutdownJoinInv, ShutdownDoneInv DEF do_shutdown
<1>3. ASSUME Alive, Main PROVE ThreadsInv'
  BY <1>2, <1>3, StartupInv, MutexInitInv, LoopInv, CreateThreadInv, ListLockInv,
     insertNodeInv, removeCompletedThreadsInv, UseFreedNodeInv DEF Main
<1>4. ASSUME Alive, NEW t \in Thread, Accept(t) \/ Client(t) \/ Sigpipe(t)
      PROVE  ThreadsInv'
  BY <1>2, <1>4, AcceptInv, client_handlerInv, SigpipeInv, Contexts DEF Client
<1>5. QED
  BY <1>1, <1>3, <1>4, LoopInv, signal_handlerInv DEF Next

(* Every reachable state satisfies the invariant, for any number of         *)
(* connections and of signals, wherever they hit main, its handlers or a    *)
(* client thread.                                                           *)
THEOREM ThreadsInvariant == Spec => []ThreadsInv
  BY InitInv, NextInv, PTL DEF Spec

-----------------------------------------------------------------------------
(* The first signal.                                                        *)

(* Up to the second signal the only handler there can be runs on main, and  *)
(* it is over once the mutex is destroyed.                                  *)
SignalsInv ==
  /\ signals \in 0 .. MaxSignals
  /\ signals = 0 => ~isError
  /\ signals <= 1 =>
       /\ \A c \in Context \ {"main", "signal"} : at[c] = "off"
       /\ listMutex = DESTROYED => at["signal"] = "off"

(* Until then whoever is freed has ended. *)
JoinedInv == signals <= 1 => \A t \in freed : thread[t] = "ended"

(* Two contexts are never at the list at once, so that every join is the    *)
(* first of its thread, and waits for it.                                   *)
LEMMA JoinWaits ==
  ASSUME ThreadsInv, SignalsInv, signals <= 1, NEW c \in Context, At(c, "shutdown join") \/ At(c, "remove"),
         NEW t \in Thread, PthreadJoin(c, t)
  PROVE  thread[t] = "ended"
<1> USE Contexts DEF ThreadsInv
<1>1. c \in {"main", "signal"} /\ Walking(c)
  BY DEF SignalsInv, Walking, At
<1>2. ASSUME NEW d \in Context \ {c}, Joins(d, t) PROVE FALSE
  <2>1. Walking(d) /\ at[d] # "off"
    BY <1>2 DEF Joins, Walking
  <2>2. {c, d} = {"main", "signal"}
    BY <1>1, <1>2, <2>1 DEF SignalsInv
  <2>3. listMutex = DESTROYED
    BY <1>1, <1>2, <2>1 DEF LockedInv
  <2>4. at["signal"] = "off"
    BY <2>3 DEF SignalsInv
  <2>5. Walking("signal")
    BY <1>1, <2>1, <2>2
  <2>6. QED
    BY <2>4, <2>5 DEF Walking
<1>3. c # t
  BY <1>1
<1>4. QED
  BY <1>2, <1>3 DEF PthreadJoin

LEMMA InitJoined == Init => SignalsInv /\ JoinedInv
  BY Contexts, AesdSocketThreadsAssumption DEF Init, SignalsInv, JoinedInv

(* Nobody starts a handler, and none but the one on main destroys anything. *)
QuietStep ==
  /\ signals' = signals /\ isError' = isError
  /\ \A c \in Context \ {"main"} : at'[c] = at[c]
  /\ listMutex' = DESTROYED => listMutex = DESTROYED

LEMMA QuietSignals == SignalsInv /\ QuietStep => SignalsInv'
  BY Contexts DEF SignalsInv, QuietStep

LEMMA MainQuiet ==
  ASSUME ThreadsInv, NEW step, Goto("main", step) \/ at' = at, UNCHANGED <<signals, isError>>,
         listMutex' = DESTROYED => listMutex = DESTROYED
  PROVE  QuietStep
  BY Contexts DEF QuietStep, Goto, ThreadsInv, TypeInv

LEMMA SignalsStep == ThreadsInv /\ SignalsInv /\ [Next]_vars => SignalsInv'
<1> SUFFICES ASSUME ThreadsInv, SignalsInv, [Next]_vars PROVE SignalsInv'
  OBVIOUS
<1> USE Contexts
<1>1. at \in [Context -> Steps] /\ signals \in Nat
  BY AesdSocketThreadsAssumption DEF ThreadsInv, TypeInv, SignalsInv
<1>2. CASE UNCHANGED vars
  BY <1>2 DEF vars, SignalsInv
<1>3. ASSUME NEW c \in Context, do_shutdown(c) PROVE SignalsInv'
  <2>1. signals' = signals /\ isError' = isError /\ at[c] # "off"
    BY <1>3 DEF do_shutdown, ShutdownLock, ShutdownJoin, ShutdownDone, At
  <2>2. signals <= 1 => c \in {"main", "signal"}
    BY <2>1 DEF SignalsInv
  <2>3. CASE ShutdownLock(c)
    <3>1. /\ listMutex' = DESTROYED => listMutex = DESTROYED
          /\ \A d \in Context : d # c => at'[d] = at[d]
      BY <2>3, <1>1 DEF ShutdownLock, Goto, MutexLock, AfterLock
    <3>2. listMutex = DESTROYED /\ signals <= 1 => c # "signal"
      BY <2>1 DEF SignalsInv
    <3>3. QED
      BY <2>1, <2>2, <3>1, <3>2 DEF SignalsInv
  <2>4. CASE ShutdownJoin(c)
    BY <2>4, QuietSignals DEF ShutdownJoin, QuietStep
  <2>5. CASE ShutdownDone(c)
    <3>1. CASE c = "main"
      <4>1. at["signal"] = "off"
        BY <2>5, <3>1 DEF ShutdownDone, At, Above
      <4>2. \A d \in Context \ {"main"} : at'[d] = at[d]
        BY <2>5, <3>1, <1>1 DEF ShutdownDone
      <4>3. QED
        BY <2>1, <4>1, <4>2 DEF SignalsInv
    <3>2. CASE c = "signal"
      <4>1. at' = [at EXCEPT !["signal"] = "off", !["main"] = Interrupted(@)]
        BY <2>5, <3>2 DEF ShutdownDone
      <4>2. at'["signal"] = "off" /\ \A d \in Context \ {"main", "signal"} : at'[d] = at[d]
        BY <4>1, <1>1
      <4>3. QED
        BY <2>1, <4>2 DEF SignalsInv
    <3>3. CASE c \notin {"main", "signal"}
      <4>1. signals > 1
        BY <2>2, <3>3, <1>1
      <4>2. QED
        BY <2>1, <4>1, <1>1 DEF SignalsInv
    <3>4. QED
      BY <3>1, <3>2, <3>3
  <2>6. QED
    BY <1>3, <2>3, <2>4, <2>5 DEF do_shutdown
<1>4. ASSUME Main PROVE SignalsInv'
  <2>1. CASE Startup \/ MutexInit \/ Loop \/ CreateThread \/ ListLock \/ insertNode
    <3>1. /\ \E step \in Steps : Goto("main", step)
          /\ UNCHANGED <<signals, isError>>
          /\ listMutex' = DESTROYED => listMutex = DESTROYED
      BY <2>1 DEF Startup, MutexInit, Loop, CreateThread, ListLock, insertNode, MutexLock,
         AfterLock, MutexUnlock, AfterUnlock, Steps
    <3>2. QED
      BY <3>1, MainQuiet, QuietSignals
  <2>2. CASE removeCompletedThreads
    <3>1. /\ Goto("main", "loop") \/ at' = at
          /\ UNCHANGED <<signals, isError>>
          /\ listMutex' = DESTROYED => listMutex = DESTROYED
      BY <2>2 DEF removeCompletedThreads, MutexUnlock, AfterUnlock
    <3>2. QED
      BY <3>1, MainQuiet, QuietSignals
  <2>3. CASE UseFreedNode
    <3>1. /\ Goto("main", "crashed") \/ at' = at
          /\ UNCHANGED <<signals, isError>>
          /\ listMutex' = DESTROYED => listMutex = DESTROYED
      BY <2>3 DEF UseFreedNode
    <3>2. QED
      BY <3>1, MainQuiet, QuietSignals
  <2>4. QED
    BY <1>3, <1>4, <2>1, <2>2, <2>3 DEF Main
<1>5. ASSUME NEW t \in Thread, Accept(t) \/ client_handler(t) \/ Sigpipe(t) PROVE SignalsInv'
  <2>1. /\ (\E step \in Steps : Goto("main", step)) \/ at' = at
        /\ UNCHANGED <<signals, isError, listMutex>>
    BY <1>5 DEF Accept, client_handler, Sigpipe, Steps
  <2>2. QED
    BY <2>1, MainQuiet, QuietSignals
<1>6. CASE AcceptFails
  BY <1>6, MainQuiet, QuietSignals DEF AcceptFails
<1>7. CASE signal_handler
  <2>1. signals < MaxSignals /\ signals' = signals + 1 /\ UNCHANGED listMutex
    BY <1>7 DEF signal_handler
  <2>2. signals' \in 0 .. MaxSignals /\ signals' # 0
    BY <2>1, <1>1, AesdSocketThreadsAssumption
  <2>3. ASSUME signals' <= 1
        PROVE  /\ \A c \in Context \ {"main", "signal"} : at'[c] = "off"
               /\ listMutex' = DESTROYED => at'["signal"] = "off"
    <3>1. signals = 0 /\ ~isError
      BY <2>1, <2>3, <1>1 DEF SignalsInv
    <3>2. at["signal"] = "off" /\ listMutex # DESTROYED
      BY <3>1 DEF ThreadsInv, PlacesInv, DestroyedInv
    <3>3. Goto("signal", "shutdown lock")
      BY <1>7, <3>2 DEF signal_handler, Receivers
    <3>4. \A c \in Context \ {"signal"} : at'[c] = at[c]
      BY <3>3, <1>1 DEF Goto
    <3>5. signals <= 1
      BY <3>1
    <3>6. QED
      BY <2>1, <3>2, <3>4, <3>5 DEF SignalsInv
  <2>4. QED
    BY <2>2, <2>3 DEF SignalsInv
<1>8. QED
  BY <1>2, <1>3, <1>4, <1>5, <1>6, <1>7 DEF Next, Client

(* No step frees a thread that goes on. *)
LEMMA JoinedStep == ThreadsInv /\ SignalsInv /\ JoinedInv /\ [Next]_vars => JoinedInv'
<1> SUFFICES ASSUME ThreadsInv, SignalsInv, JoinedInv, [Next]_vars, signals' <= 1
             PROVE  \A t \in freed' : thread'[t] = "ended"
  BY DEF JoinedInv
<1> USE Contexts DEF ThreadsInv
<1>1. signals \in Nat /\ signals <= 1
  <2>1. signals \in Nat
    BY AesdSocketThreadsAssumption DEF SignalsInv
  <2>2. signals' = signals \/ signals' = signals + 1
    BY DEF Next, Main, Client, do_shutdown, vars, Startup, MutexInit, Loop, CreateThread, ListLock,
       insertNode, removeCompletedThreads, UseFreedNode, ShutdownLock, ShutdownJoin, ShutdownDone,
       Accept, client_handler, Sigpipe, AcceptFails, signal_handler
  <2>3. QED
    BY <2>1, <2>2
<1>2. freed \subseteq Thread /\ \A t \in freed : thread[t] = "ended"
  BY <1>1 DEF JoinedInv, TypeInv
<1>3. CASE freed' = freed /\ \A t \in freed : thread[t] = "ended" => thread'[t] = "ended"
  BY <1>2, <1>3
<1>4. ASSUME NEW c \in Context, At(c, "shutdown join") \/ At(c, "remove"),
             current[c] # Nobody, ~WalksFreedNode(c), PthreadJoin(c, current[c]),
             freed' = freed \cup {current[c]}, thread' = thread
      PROVE  \A t \in freed' : thread'[t] = "ended"
  <2>1. current[c] \in Thread
    BY <1>4, NodesAreThreads DEF NodesInv, WalksFreedNode
  <2>2. QED
    BY <1>1, <1>2, <1>4, <2>1, JoinWaits
<1>5. ASSUME NEW c \in Context, ShutdownJoin(c) PROVE \A t \in freed' : thread'[t] = "ended"
  BY <1>4, <1>5 DEF ShutdownJoin, Unlink
<1>6. CASE removeCompletedThreads
  <2>1. CASE freed' = freed
    BY <2>1, <1>3, <1>6 DEF removeCompletedThreads
  <2>2. CASE freed' # freed
    BY <2>2, <1>4, <1>6 DEF removeCompletedThreads, Unlink
  <2>3. QED
    BY <2>1, <2>2
<1>7. CASE CreateThread
  <2>1. data \in Thread /\ thread[data] = "none"
    BY <1>7 DEF CreateThread, At, NodesInv
  <2>2. freed' = freed /\ \A t \in Thread \ {data} : thread'[t] = thread[t]
    BY <1>7 DEF CreateThread, TypeInv
  <2>3. QED
    BY <1>2, <2>1, <2>2
<1>8. ASSUME NEW t \in Thread, client_handler(t) PROVE \A u \in freed' : thread'[u] = "ended"
  <2>1. freed' = freed /\ thread[t] # "ended" /\ \A u \in Thread \ {t} : thread'[u] = thread[u]
    BY <1>8 DEF client_handler, TypeInv
  <2>2. QED
    BY <1>2, <2>1
<1>9. ASSUME NEW c \in Context, ShutdownLock(c) \/ ShutdownDone(c)
      PROVE  \A t \in freed' : thread'[t] = "ended"
  BY <1>3, <1>9 DEF ShutdownLock, ShutdownDone
<1>10. CASE Startup \/ MutexInit \/ Loop \/ ListLock \/ insertNode \/ UseFreedNode
  BY <1>3, <1>10 DEF Startup, MutexInit, Loop, ListLock, insertNode, UseFreedNode
<1>11. ASSUME NEW t \in Thread, Accept(t) \/ Sigpipe(t) PROVE \A u \in freed' : thread'[u] = "ended"
  BY <1>3, <1>11 DEF Accept, Sigpipe
<1>12. CASE AcceptFails \/ signal_handler
  BY <1>3, <1>12 DEF AcceptFails, signal_handler
<1>13. CASE UNCHANGED vars
  BY <1>3, <1>13 DEF vars
<1>14. QED
  BY <1>5, <1>6, <1>7, <1>8, <1>9, <1>10, <1>11, <1>12, <1>13 DEF Next, Main, Client, do_shutdown

(* Up to the second signal no handler runs but one on main, and whatever    *)
(* thread's data has been freed has ended.                                  *)
THEOREM OneSignal == Spec => [](SignalsInv /\ JoinedInv)
  BY ThreadsInvariant, InitJoined, SignalsStep, JoinedStep, PTL DEF Spec

-----------------------------------------------------------------------------
(* What follows from these.                                                 *)

(* No node is on the list twice, none is there once freed, and up to the    *)
(* second signal thread_data is freed only when its thread has ended.       *)
THEOREM FreedOnlyWhenJoined == Spec => []NoUseAfterFree
<1>1. ThreadsInv /\ JoinedInv => NoUseAfterFree
  BY DEF ThreadsInv, NodesInv, Nodes, JoinedInv, NoUseAfterFree
<1>2. QED
  BY ThreadsInvariant, OneSignal, <1>1, PTL

(* When main exits, the data of every thread that was created is freed,     *)
(* whatever the signals interrupted, and up to the second signal every      *)
(* thread has ended.                                                        *)
THEOREM NoThreadLeftAtExit == Spec => []ExitLeavesNoThread
<1>1. ThreadsInv /\ JoinedInv => ExitLeavesNoThread
  <2>1. ThreadsInv /\ at["main"] = "exit" => Nodes = {}
    BY LenProperties, EmptySeq DEF ThreadsInv, ExitInv, Nodes
  <2>2. QED
    BY <2>1 DEF ThreadsInv, NodesInv, Inserting, JoinedInv, ExitLeavesNoThread
<1>2. QED
  BY ThreadsInvariant, OneSignal, <1>1, PTL

=============================================================================
