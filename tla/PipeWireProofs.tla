--------------------------- MODULE PipeWireProofs ---------------------------
(***************************************************************************)
(* Proofs about PipeWire, for any paths, nodes and frames.                 *)
(***************************************************************************)
EXTENDS PipeWire, SequenceTheorems, FiniteSetTheorems, TLAPS

Events == {"add", "rm"} \X Objects

In(q, e) == \E k \in 1..Len(q) : q[k] = e
Once(q, e) == \A j, k \in 1..Len(q) : q[j] = e /\ q[k] = e => j = k
Add(x) == <<"add", x>>
Rm(x) == <<"rm", x>>

Types ==
  /\ queue \in Seq(Events)
  /\ nodes \in [Paths -> 0..MaxGen] /\ gen \in [Paths -> 0..MaxGen]
  /\ present \in [Paths -> 0..MaxGen]
  /\ \A p \in Paths : present[p] <= gen[p]
  /\ removed \subseteq Objects /\ orphans \subseteq Objects
  /\ link \in {"none", "live", "dead"} /\ replaced \in BOOLEAN
  /\ idx = [p \in Paths |-> idx[p]]

\* There are events and objects only if a server was connected.
Linked ==
  /\ link # "live" => queue = << >>
  /\ link = "none" => /\ removed = {} /\ orphans = {}
                      /\ \A p \in Paths : nodes[p] = 0

\* No event is about a node that is not yet, nor is an object.
Born ==
  \A x \in Objects :
    x[2] > gen[x[1]] => /\ x \notin removed /\ nodes[x[1]] # x[2]
                        /\ ~In(queue, Add(x)) /\ ~In(queue, Rm(x))

\* A node that is still to be heard of has no object, and has not ended before.
Unheard ==
  \A x \in Objects :
    In(queue, Add(x)) => /\ x \notin removed /\ nodes[x[1]] # x[2]
                         /\ ~In(queue, Rm(x)) /\ Once(queue, Add(x))

\* Removed objects are those of their paths.
Filed == orphans = {} /\ \A x \in removed : nodes[x[1]] = x[2]

\* A node that is present has an object or is still to be heard of.
Here ==
  \A p \in Paths :
    present[p] # 0 =>
      \/ In(queue, Add(<<p, present[p]>>))
      \/ /\ nodes[p] = present[p] /\ <<p, nodes[p]>> \notin removed
         /\ ~In(queue, Rm(<<p, nodes[p]>>))

\* The end of a node that is not, and has an object, is still to be heard of.
Gone ==
  \A p \in Paths :
    nodes[p] # 0 /\ nodes[p] # present[p] /\ <<p, nodes[p]>> \notin removed =>
      In(queue, Rm(<<p, nodes[p]>>))

Faithful == Born /\ Unheard /\ Filed /\ Here /\ Gone

\* cap_set counts the frames of the capture that is made, and of no other.
Counted ==
  /\ \A p \in Paths : idx[p] = IF pc = "capture" /\ dev[1] = p THEN taken ELSE 0
  /\ pc = "capture" => dev[1] \in Paths
  /\ pc # "capture" => answer = taken

Inv ==
  /\ Types /\ Linked /\ Counted
  /\ ~replaced /\ link = "live" => Faithful

\* What a queue q holds with another event f, and without its first one.
Appended(q, f) ==
  /\ Append(q, f) \in Seq(Events)
  /\ \A e : In(Append(q, f), e) <=> In(q, e) \/ e = f
  /\ \A e : Once(q, e) /\ (e = f => ~In(q, e)) => Once(Append(q, f), e)

Popped(q) ==
  /\ Head(q) \in Events /\ Tail(q) \in Seq(Events)
  /\ \A e : In(q, e) <=> e = Head(q) \/ In(Tail(q), e)
  /\ \A e : Once(q, e) => Once(Tail(q), e)
  /\ Once(q, Head(q)) => ~In(Tail(q), Head(q))

\* What the listing q of a server holds.
Lists(q) ==
  /\ q \in Seq(Events)
  /\ \A e : In(q, e) => \E p \in Paths : /\ present[p] # 0
                                         /\ e = Add(<<p, present[p]>>)
  /\ \A p \in Paths : present[p] # 0 => In(q, Add(<<p, present[p]>>))
  /\ \A e : Once(q, e)

Unmoved == UNCHANGED <<present, gen, link, queue, replaced>>

\* Every step of the server, the monitor, calls and captures keeps it.
LEMMA PipeWireInv == Spec => []Inv
<1>1. ASSUME NEW q \in Seq(Events), NEW f \in Events PROVE Appended(q, f)
  <2> DEFINE new == Append(q, f)
  <2>1. /\ new \in Seq(Events) /\ Len(q) \in Nat /\ Len(new) = Len(q) + 1
        /\ new[Len(q) + 1] = f /\ \A k \in 1..Len(q) : new[k] = q[k]
    BY LenProperties, AppendProperties
  <2> HIDE DEF new
  <2>2. \A e : In(new, e) <=> In(q, e) \/ e = f
    BY <2>1 DEF In
  <2>3. ASSUME NEW e, Once(q, e), e = f => ~In(q, e) PROVE Once(new, e)
    <3> SUFFICES ASSUME NEW j \in 1..(Len(q) + 1), NEW k \in 1..(Len(q) + 1),
                        new[j] = e, new[k] = e, j < k
                 PROVE  FALSE
      BY <2>1 DEF Once
    <3>1. j \in 1..Len(q) /\ q[j] = e
      BY <2>1
    <3>2. CASE k \in 1..Len(q)
      BY <2>1, <2>3, <3>1, <3>2 DEF Once
    <3>3. CASE k = Len(q) + 1
      BY <2>1, <2>3, <3>1, <3>3 DEF In
    <3> QED
      BY <2>1, <3>2, <3>3
  <2> QED
    BY <2>1, <2>2, <2>3 DEF Appended, new
<1>2. ASSUME NEW q \in Seq(Events), q # << >> PROVE Popped(q)
  <2> DEFINE rest == Tail(q)
  <2>1. Len(q) \in Nat \ {0}
    BY <1>2, EmptySeq
  <2>2. /\ Head(q) \in Events /\ rest \in Seq(Events) /\ Head(q) = q[1]
        /\ Len(rest) = Len(q) - 1
        /\ \A k \in 1..Len(rest) : rest[k] = q[k + 1]
    BY <1>2, <2>1, HeadTailProperties
  <2> HIDE DEF rest
  <2>3. ASSUME NEW k \in 2..Len(q)
        PROVE  k - 1 \in 1..Len(rest) /\ rest[k - 1] = q[k]
    BY <2>1, <2>2
  <2>4. \A k \in 1..Len(q) : k = 1 \/ k \in 2..Len(q)
    BY <2>1
  <2>5. ASSUME NEW e PROVE In(q, e) <=> e = Head(q) \/ In(rest, e)
    <3>1. In(q, e) => e = Head(q) \/ In(rest, e)
      BY <2>2, <2>3, <2>4 DEF In
    <3>2. In(rest, e) => In(q, e)
      <4> HAVE In(rest, e)
      <4>1. PICK k \in 1..Len(rest) : rest[k] = e
        BY DEF In
      <4>2. k + 1 \in 1..Len(q) /\ q[k + 1] = e
        BY <2>1, <2>2, <4>1
      <4> QED
        BY <4>2 DEF In
    <3>3. e = Head(q) => In(q, e)
      BY <2>1, <2>2 DEF In
    <3> QED
      BY <3>1, <3>2, <3>3
  <2>6. ASSUME NEW e, Once(q, e) PROVE Once(rest, e)
    BY <2>1, <2>2, <2>6 DEF Once
  <2>7. Once(q, Head(q)) => ~In(rest, Head(q))
    BY <2>1, <2>2 DEF Once, In
  <2> QED
    BY <2>2, <2>5, <2>6, <2>7 DEF Popped, rest
<1>3. ASSUME present \in [Paths -> 0..MaxGen], NEW q \in Listings
      PROVE  Lists(q)
  <2> DEFINE here == {p \in Paths : present[p] # 0}
             n    == Cardinality(here)
  <2>1. n \in Nat
    BY PipeWireAssumption, FS_Subset, FS_CardinalityType
  <2>2. PICK o \in Bijection(1..n, here) :
          q = [k \in 1..n |-> <<"add", <<o[k], present[o[k]]>>>>]
    BY DEF Listings
  <2> HIDE DEF n
  <2>3. /\ o \in [1..n -> here]
        /\ \A j, k \in 1..n : o[j] = o[k] => j = k
        /\ \A p \in here : \E k \in 1..n : o[k] = p
    BY DEF Bijection, Injection, Surjection, IsInjective
  <2>4. \A k \in 1..n : /\ q[k] = Add(<<o[k], present[o[k]]>>)
                        /\ o[k] \in Paths /\ present[o[k]] # 0
                        /\ q[k] \in Events
    BY <1>3, <2>2, <2>3, PipeWireAssumption DEF Add, Events, Objects
  <2>5. q \in Seq(Events) /\ Len(q) = n
    <3>1. q \in [1..n -> Events]
      BY <2>2, <2>4
    <3> QED
      BY <2>1, <3>1, SeqDef, LenProperties
  <2>6. \A e : In(q, e) => \E p \in Paths : /\ present[p] # 0
                                            /\ e = Add(<<p, present[p]>>)
    BY <2>4, <2>5 DEF In
  <2>7. ASSUME NEW p \in Paths, present[p] # 0
        PROVE  In(q, Add(<<p, present[p]>>))
    BY <2>3, <2>4, <2>5, <2>7 DEF In
  <2>8. \A e : Once(q, e)
    BY <2>3, <2>4, <2>5 DEF Once, Add
  <2> QED
    BY <2>5, <2>6, <2>7, <2>8 DEF Lists
<1>4. \* a new connection
      ASSUME Types, NEW q, Lists(q), queue' = q, UNCHANGED <<present, gen>>,
             removed' = {}, orphans' = {}, \A p \in Paths : nodes'[p] = 0
      PROVE  Faithful'
  <2>1. ASSUME NEW x \in Objects
        PROVE  /\ ~In(q, Rm(x)) /\ x[2] # 0 /\ x[1] \in Paths
               /\ In(q, Add(x)) => present[x[1]] = x[2]
    BY <1>4 DEF Lists, Add, Rm, Objects
  <2>2. Born' /\ Unheard'
    BY <1>4, <2>1 DEF Born, Unheard, Lists, Types, Objects
  <2> QED
    BY <1>4, <2>2 DEF Faithful, Filed, Here, Gone, Lists
<1>5. Init => Inv
  <2> SUFFICES ASSUME Init PROVE Inv
    OBVIOUS
  <2>1. Types /\ Linked /\ (link = "live" => Lists(queue))
    <3>1. present \in [Paths -> 0..MaxGen]
      BY PipeWireAssumption DEF Init
    <3>2. link = "live" => Lists(queue)
      BY <1>3, <3>1 DEF Init
    <3>3. queue \in Seq(Events)
      BY <3>2, EmptySeq DEF Init, Lists
    <3>4. Linked
      BY DEF Init, Linked
    <3>5. \A p \in Paths : nodes[p] = 0 /\ present[p] <= gen[p]
      BY <3>1, PipeWireAssumption DEF Init
    <3>6. nodes \in [Paths -> 0..MaxGen] /\ gen \in [Paths -> 0..MaxGen]
      BY <3>1, PipeWireAssumption DEF Init
    <3>7. link \in {"none", "live", "dead"}
      BY DEF Init
    <3> QED
      BY <3>1, <3>2, <3>3, <3>4, <3>5, <3>6, <3>7 DEF Init, Types
  <2>2. link = "live" => Faithful
    <3> SUFFICES ASSUME link = "live" PROVE Faithful
      OBVIOUS
    <3>1. ASSUME NEW x \in Objects
          PROVE  /\ ~In(queue, Rm(x)) /\ x[2] # 0 /\ x[1] \in Paths
                 /\ In(queue, Add(x)) => present[x[1]] = x[2]
      BY <2>1 DEF Lists, Add, Rm, Objects
    <3>2. Born /\ Unheard
      BY <2>1, <3>1 DEF Born, Unheard, Lists, Types, Objects, Init
    <3> QED
      BY <2>1, <3>2 DEF Faithful, Filed, Here, Gone, Lists, Init
  <2> QED
    BY <2>1, <2>2 DEF Init, Inv, Counted
<1>6. \* an object is let go
      ASSUME Types, Faithful, NEW x, DestroyDev(x), Unmoved
      PROVE  Faithful'
  <2>1. CASE x \notin removed
    <3>1. UNCHANGED <<nodes, removed, orphans, queue, present, gen>>
      BY <1>6, <2>1 DEF DestroyDev, Frees, objects, Unmoved
    <3> QED
      BY <1>6, <3>1 DEF Faithful, Born, Unheard, Filed, Here, Gone
  <2>2. CASE x \in removed
    <3> DEFINE p == x[1]
    <3>1. x \in Objects /\ p \in Paths /\ x = <<p, nodes[p]>> /\ x[2] # 0
      BY <1>6, <2>2 DEF Types, Faithful, Filed, Objects
    <3>2. /\ removed' = removed \ {x} /\ orphans' = orphans \ {x}
          /\ nodes' = [nodes EXCEPT ![p] = 0]
          /\ UNCHANGED <<queue, present, gen>>
      BY <1>6, <2>2, <3>1 DEF DestroyDev, Frees, Unmoved
    <3> HIDE DEF p
    <3>3. nodes'[p] = 0 /\ \A other \in Paths \ {p} : nodes'[other] = nodes[other]
      BY <3>1, <3>2, <1>6 DEF Types
    <3>4. \A y \in Objects : y[1] \in Paths /\ y[2] # 0 /\ y = <<y[1], y[2]>>
      BY DEF Objects
    <3>5. Born' /\ Unheard'
      BY <1>6, <3>2, <3>3, <3>4 DEF Faithful, Born, Unheard
    <3>6. Filed'
      BY <1>6, <3>1, <3>2, <3>3, <3>4 DEF Faithful, Filed, Types
    <3>7. Here'
      BY <1>6, <2>2, <3>1, <3>2, <3>3 DEF Faithful, Here
    <3>8. Gone'
      BY <1>6, <3>1, <3>2, <3>3 DEF Faithful, Gone
    <3> QED
      BY <3>5, <3>6, <3>7, <3>8 DEF Faithful
  <2> QED
    BY <2>1, <2>2
<1>7. ASSUME Types, Linked, NEW x, DestroyDev(x), Unmoved
      PROVE  Types' /\ Linked'
  <2>1. /\ nodes' \in [Paths -> 0..MaxGen]
        /\ removed' \subseteq removed /\ orphans' \subseteq orphans
        /\ idx' = [p \in Paths |-> idx'[p]]
    <3>1. idx' = [p \in Paths |-> idx'[p]]
      BY <1>7 DEF DestroyDev, ResetsCapture, Types
    <3>2. CASE Frees(x)
      <4>1. nodes' = [nodes EXCEPT ![x[1]] = 0] /\ 0 \in 0..MaxGen
        BY <1>7, <3>2, PipeWireAssumption DEF DestroyDev
      <4>2. removed' \subseteq removed /\ orphans' \subseteq orphans
        BY <1>7, <3>2 DEF DestroyDev
      <4>3. nodes' \in [Paths -> 0..MaxGen]
        BY <1>7, <4>1 DEF Types
      <4> QED
        BY <3>1, <4>2, <4>3
    <3>3. CASE ~Frees(x)
      BY <1>7, <3>1, <3>3 DEF DestroyDev, objects, Types
    <3> QED
      BY <3>2, <3>3
  <2>2. link = "none" => UNCHANGED nodes
    BY <1>7 DEF DestroyDev, Frees, Linked, objects
  <2> QED
    BY <1>7, <2>1, <2>2 DEF Types, Linked, Unmoved
<1>8. ASSUME Inv, Iterate PROVE Types' /\ Linked' /\ Counted'
  <2> DEFINE x == Head(queue)[2]
  <2>1. Popped(queue) /\ queue # << >> /\ link = "live"
    BY <1>2, <1>8 DEF Iterate, Inv, Types, Linked
  <2>2. x \in Objects /\ Rm(x) \in Events
    BY <2>1 DEF Popped, Events, Rm
  <2>3. queue' \in Seq(Events)
    <3>1. Appended(Tail(queue), Rm(x))
      BY <1>1, <2>1, <2>2 DEF Popped
    <3>2. queue' = Tail(queue) \/ queue' = Append(Tail(queue), Rm(x))
      BY <1>8 DEF Iterate, Rm
    <3> QED
      BY <2>1, <3>1, <3>2 DEF Appended, Popped
  <2>4. /\ nodes' \in [Paths -> 0..MaxGen]
        /\ removed' \subseteq Objects /\ orphans' \subseteq Objects
        /\ replaced' \in BOOLEAN
    <3>1. CASE Added(x)
      <4>1. nodes[x[1]] # 0 => <<x[1], nodes[x[1]]>> \in Objects
        BY <1>8, <2>2 DEF Inv, Types, Objects
      <4>2. nodes' = [nodes EXCEPT ![x[1]] = x[2]] /\ x[2] \in 0..MaxGen
        BY <2>2, <3>1 DEF Added, Objects
      <4>3. CASE nodes[x[1]] = 0
        BY <1>8, <3>1, <4>2, <4>3 DEF Added, Inv, Types
      <4>4. CASE nodes[x[1]] # 0
        <5>1. nodes' \in [Paths -> 0..MaxGen]
          BY <1>8, <4>2 DEF Inv, Types
        <5>2. /\ removed' \subseteq removed /\ replaced' = TRUE
              /\ orphans' \subseteq orphans \cup {<<x[1], nodes[x[1]]>>}
          BY <3>1, <4>4 DEF Added
        <5> QED
          BY <1>8, <4>1, <4>4, <5>1, <5>2 DEF Inv, Types
      <4> QED
        BY <4>3, <4>4
    <3>2. CASE ~Added(x)
      BY <1>8, <2>2, <3>2 DEF Iterate, Removed, Inv, Types, objects, history
    <3> QED
      BY <3>1, <3>2
  <2>5. /\ \/ idx' = idx
           \/ idx' = [idx EXCEPT ![x[1]] = 0]
        /\ pc # "capture" /\ pc' # "capture" /\ UNCHANGED <<taken, answer>>
    BY <1>8 DEF Iterate, Added
  <2>6. Counted' /\ idx' = [p \in Paths |-> idx'[p]]
    BY <1>8, <2>5 DEF Counted, Inv, Types
  <2>7. UNCHANGED <<gen, present, link>>
    BY <1>8 DEF Iterate, world, monitor
  <2> QED
    BY <1>8, <2>1, <2>3, <2>4, <2>6, <2>7 DEF Types, Linked, Inv
<1>9. \* an event is handled
      ASSUME Inv, Iterate, ~replaced' PROVE Faithful'
  <2> DEFINE x == Head(queue)[2]
             p == x[1]
             rest == Tail(queue)
  <2>1. Popped(queue) /\ queue # << >> /\ link = "live"
    BY <1>2, <1>9 DEF Iterate, Inv, Types, Linked
  <2>2. /\ x \in Objects /\ p \in Paths /\ x[2] # 0 /\ x = <<p, x[2]>>
        /\ Rm(x) \in Events /\ Head(queue) \in {Add(x), Rm(x)}
    BY <2>1 DEF Popped, Events, Objects, Rm, Add
  <2>3. /\ Appended(rest, Rm(x))
        /\ \A e : In(queue, e) <=> e = Head(queue) \/ In(rest, e)
        /\ \A e : Once(queue, e) => Once(rest, e)
        /\ Once(queue, Head(queue)) => ~In(rest, Head(queue))
    BY <1>1, <2>1, <2>2 DEF Popped
  <2>4. Types /\ UNCHANGED <<present, gen>> /\ (~replaced => Faithful)
    BY <1>9, <2>1 DEF Iterate, world, Inv
  <2> HIDE DEF x, p, rest
  <2>5. \A y \in Objects : /\ y[1] \in Paths /\ y[2] # 0 /\ y = <<y[1], y[2]>>
                           /\ \A z : Add(y) # Rm(z)
                           /\ \A z : (Add(y) = Add(z) \/ Rm(y) = Rm(z)) => y = z
    BY DEF Objects, Add, Rm
  <2>6. CASE Head(queue) = Add(x)
    <3>1. /\ Added(x) /\ ~replaced
          /\ queue' = IF present[p] = x[2] THEN rest ELSE Append(rest, Rm(x))
      <4>1. Head(queue)[1] = "add"
        BY <2>6 DEF Add
      <4>2. /\ Added(x)
            /\ queue' = IF present[p] = x[2] THEN rest ELSE Append(rest, Rm(x))
        BY <1>9, <4>1 DEF Iterate, Rm, x, p, rest
      <4> QED
        BY <1>9, <4>2 DEF Added, Inv, Types
    <3>2. /\ nodes[p] = 0 /\ nodes' = [nodes EXCEPT ![p] = x[2]]
          /\ removed' = removed /\ orphans' = orphans
      BY <1>9, <3>1 DEF Added, p
    <3>3. nodes'[p] = x[2] /\ \A other \in Paths \ {p} : nodes'[other] = nodes[other]
      BY <2>2, <2>4, <3>2 DEF Types
    <3>4. /\ In(queue, Add(x)) /\ ~In(rest, Add(x)) /\ x \notin removed
          /\ ~In(rest, Rm(x))
      BY <2>2, <2>3, <2>4, <2>6, <3>1 DEF Faithful, Unheard
    <3>5. /\ \A e : In(queue', e) => In(rest, e) \/ e = Rm(x)
          /\ \A e : In(rest, e) => In(queue', e) /\ In(queue, e)
          /\ present[p] # x[2] => In(queue', Rm(x))
          /\ present[p] = x[2] => ~In(queue', Rm(x))
          /\ \A e : Once(queue, e) => Once(queue', e)
      BY <2>3, <3>1, <3>4 DEF Appended
    <3>6. Born'
      BY <2>2, <2>3, <2>4, <2>5, <2>6, <3>1, <3>2, <3>3, <3>5 DEF Faithful, Born
    <3>7. Unheard'
      BY <2>2, <2>3, <2>4, <2>5, <2>6, <3>1, <3>2, <3>3, <3>4, <3>5
      DEF Faithful, Unheard
    <3>8. Filed'
      BY <2>2, <2>4, <2>5, <3>1, <3>2, <3>3 DEF Faithful, Filed, Types
    <3>9. Here'
      <4> SUFFICES ASSUME NEW g \in Paths, present[g] # 0
                   PROVE  \/ In(queue', Add(<<g, present[g]>>))
                          \/ /\ nodes'[g] = present[g]
                             /\ <<g, nodes'[g]>> \notin removed
                             /\ ~In(queue', Rm(<<g, nodes'[g]>>))
        BY <2>4, <3>2 DEF Here
      <4> DEFINE y == <<g, present[g]>>
      <4>1. y \in Objects
        BY <2>4 DEF Types, Objects
      <4>2. CASE y = x
        BY <2>2, <3>3, <3>4, <3>5, <4>2
      <4>3. CASE y # x
        <5>1. CASE In(queue, Add(y))
          <6>1. Add(y) # Add(x)
            BY <2>2, <2>5, <4>1, <4>3
          <6> QED
            BY <2>3, <2>6, <3>5, <5>1, <6>1
        <5>2. CASE ~In(queue, Add(y))
          <6>1. /\ nodes[g] = present[g] /\ y \notin removed
                /\ ~In(queue, Rm(y))
            BY <2>4, <3>1, <5>2 DEF Faithful, Here
          <6>2. g # p /\ nodes'[g] = nodes[g]
            BY <2>4, <3>2, <3>3, <6>1
          <6>3. Rm(y) # Rm(x)
            BY <2>2, <2>5, <4>1, <4>3
          <6> QED
            BY <2>3, <3>5, <6>1, <6>2, <6>3
        <5> QED
          BY <5>1, <5>2
      <4> QED
        BY <4>2, <4>3
    <3>10. Gone'
      BY <2>2, <2>3, <2>4, <2>5, <2>6, <3>1, <3>2, <3>3, <3>4, <3>5
      DEF Faithful, Gone
    <3> QED
      BY <3>6, <3>7, <3>8, <3>9, <3>10 DEF Faithful
  <2>7. CASE Head(queue) = Rm(x)
    <3>1. /\ queue' = rest /\ UNCHANGED <<nodes, orphans, replaced>>
          /\ removed' = IF Exists(x) THEN removed \cup {x} ELSE removed
      <4>1. Head(queue)[1] = "rm"
        BY <2>7 DEF Rm
      <4>2. CASE Exists(x)
        BY <1>9, <4>1, <4>2 DEF Iterate, Removed, x, rest
      <4>3. CASE ~Exists(x)
        BY <1>9, <4>1, <4>3 DEF Iterate, x, rest, objects, history
      <4> QED
        BY <4>2, <4>3
    <3>2. ~replaced /\ Faithful
      BY <1>9, <2>4, <3>1
    <3>3. Exists(x) <=> nodes[p] = x[2]
      BY <3>2 DEF Exists, Faithful, Filed, p
    <3>4. In(queue, Rm(x)) /\ ~In(queue, Add(x))
      BY <2>2, <2>3, <2>7, <3>2 DEF Faithful, Unheard
    <3>5. \A e : e # Rm(x) => (In(queue, e) <=> In(queue', e))
      BY <2>3, <2>7, <3>1
    <3>6. Born'
      BY <2>2, <2>3, <2>4, <2>5, <3>1, <3>2, <3>3, <3>4, <3>5 DEF Faithful, Born
    <3>7. Unheard'
      BY <2>2, <2>3, <2>4, <2>5, <3>1, <3>2, <3>3, <3>4, <3>5
      DEF Faithful, Unheard
    <3>8. Filed'
      BY <2>2, <3>1, <3>2, <3>3 DEF Faithful, Filed, p
    <3>9. Here'
      <4> SUFFICES ASSUME NEW g \in Paths, present[g] # 0
                   PROVE  \/ In(queue', Add(<<g, present[g]>>))
                          \/ /\ nodes[g] = present[g]
                             /\ <<g, nodes[g]>> \notin removed'
                             /\ ~In(queue', Rm(<<g, nodes[g]>>))
        BY <2>4, <3>1 DEF Here
      <4> DEFINE y == <<g, present[g]>>
      <4>1. y \in Objects
        BY <2>4 DEF Types, Objects
      <4>2. CASE In(queue, Add(y))
        BY <2>2, <2>5, <3>5, <4>1, <4>2
      <4>3. CASE ~In(queue, Add(y))
        <5>1. nodes[g] = present[g] /\ y \notin removed /\ ~In(queue, Rm(y))
          BY <3>2, <4>3 DEF Faithful, Here
        <5>2. y # x /\ Rm(y) # Rm(x)
          BY <2>2, <2>5, <3>4, <4>1, <5>1
        <5> QED
          BY <3>1, <3>5, <5>1, <5>2
      <4> QED
        BY <4>2, <4>3
    <3>10. Gone'
      BY <2>2, <2>3, <2>4, <2>5, <3>1, <3>2, <3>3, <3>4, <3>5 DEF Faithful, Gone
    <3> QED
      BY <3>6, <3>7, <3>8, <3>9, <3>10 DEF Faithful
  <2> QED
    BY <2>2, <2>6, <2>7
<1>10. \* the server has a node more or less
       ASSUME Inv, NEW p \in Paths, NodeComes(p) \/ NodeGoes(p)
       PROVE  /\ Types' /\ Linked'
              /\ ~replaced /\ link = "live" => Faithful'
  <2>1. UNCHANGED <<link, nodes, removed, orphans, replaced, idx>>
    BY <1>10 DEF NodeComes, NodeGoes, monitor, objects, frames, history
  <2>2. Types /\ Linked
    BY <1>10 DEF Inv
  <2>3. \A y \in Objects : /\ y[1] \in Paths /\ y[2] # 0 /\ y = <<y[1], y[2]>>
                           /\ \A z : Add(y) # Rm(z)
                           /\ \A z : (Add(y) = Add(z) \/ Rm(y) = Rm(z)) => y = z
    BY DEF Objects, Add, Rm
  <2>4. CASE NodeComes(p)
    <3> DEFINE x == <<p, gen[p] + 1>>
    <3>1. /\ present[p] = 0 /\ gen[p] + 1 \in 1..MaxGen
          /\ gen' = [gen EXCEPT ![p] = gen[p] + 1]
          /\ present' = [present EXCEPT ![p] = gen[p] + 1]
          /\ queue' = IF link = "live" THEN Append(queue, Add(x)) ELSE queue
      BY <2>2, <2>4, PipeWireAssumption DEF NodeComes, Sent, Add, Types
    <3>2. x \in Objects /\ Add(x) \in Events
      BY <3>1 DEF Objects, Events, Add
    <3> HIDE DEF x
    <3>3. Appended(queue, Add(x))
      BY <1>1, <2>2, <3>2 DEF Types
    <3>4. Types' /\ Linked'
      BY <2>1, <2>2, <3>1, <3>3 DEF Types, Linked, Appended
    <3>5. ASSUME ~replaced, link = "live" PROVE Faithful'
      <4>1. Faithful
        BY <1>10, <3>5 DEF Inv
      <4>2. \A e : In(queue', e) <=> In(queue, e) \/ e = Add(x)
        BY <3>1, <3>3, <3>5 DEF Appended
      <4>3. /\ x \notin removed /\ nodes[p] # x[2]
            /\ ~In(queue, Add(x)) /\ ~In(queue, Rm(x))
        BY <2>2, <3>1, <3>2, <4>1 DEF Faithful, Born, Types, x
      <4>4. \A e : Once(queue, e) => Once(queue', e) \/ e = Add(x)
        BY <3>1, <3>3, <3>5 DEF Appended
      <4>5. Once(queue, Add(x)) /\ Once(queue', Add(x))
        <5>1. Once(queue, Add(x))
          BY <4>3 DEF Once, In
        <5> QED
          BY <3>1, <3>3, <3>5, <4>3, <5>1 DEF Appended
      <4>6. \A y \in Objects : y[2] > gen'[y[1]] => y[2] > gen[y[1]] /\ y # x
        BY <2>2, <2>3, <3>1 DEF Types, Objects, x
      <4>7. Born'
        BY <2>1, <2>3, <3>2, <4>1, <4>2, <4>6 DEF Faithful, Born
      <4>8. Unheard'
        BY <2>1, <2>3, <3>2, <4>1, <4>2, <4>3, <4>4, <4>5
        DEF Faithful, Unheard, x
      <4>9. Filed'
        BY <2>1, <4>1 DEF Faithful, Filed
      <4>10. Here'
        <5>1. \A g \in Paths : present'[g] # 0 => g = p \/ present'[g] = present[g]
          BY <2>2, <3>1 DEF Types
        <5>2. present'[p] = x[2] /\ x = <<p, present'[p]>>
          BY <2>2, <3>1 DEF Types, x
        <5>3. \A z : Rm(z) # Add(x)
          BY <2>3, <3>2
        <5> QED
          BY <2>1, <4>1, <4>2, <5>1, <5>2, <5>3 DEF Faithful, Here
      <4>11. Gone'
        <5>1. \A g \in Paths : present'[g] = present[g] \/ present[g] = 0
          BY <2>2, <3>1 DEF Types
        <5> QED
          BY <2>1, <4>1, <4>2, <5>1 DEF Faithful, Gone
      <4> QED
        BY <4>7, <4>8, <4>9, <4>10, <4>11 DEF Faithful
    <3> QED
      BY <3>4, <3>5
  <2>5. CASE NodeGoes(p)
    <3> DEFINE x == <<p, present[p]>>
    <3>1. /\ present[p] # 0 /\ present[p] \in 1..MaxGen /\ gen' = gen
          /\ present' = [present EXCEPT ![p] = 0]
          /\ queue' = IF Bound(x) /\ link = "live" THEN Append(queue, Rm(x))
                      ELSE queue
      BY <2>2, <2>5, PipeWireAssumption DEF NodeGoes, Sent, Rm, Types
    <3>2. x \in Objects /\ Rm(x) \in Events
      BY <3>1 DEF Objects, Events, Rm
    <3>3. Bound(x) <=> ~In(queue, Add(x))
      BY <2>2, LenProperties DEF Bound, In, Add, Types
    <3> HIDE DEF x
    <3>4. Appended(queue, Rm(x))
      BY <1>1, <2>2, <3>2 DEF Types
    <3>5. Types' /\ Linked'
      <4>1. present' \in [Paths -> 0..MaxGen]
        BY <2>2, <3>1, PipeWireAssumption DEF Types
      <4>2. \A g \in Paths : present'[g] <= gen'[g]
        BY <2>2, <3>1 DEF Types
      <4>3. queue' \in Seq(Events) /\ (link # "live" => queue' = << >>)
        BY <2>2, <3>1, <3>4 DEF Types, Linked, Appended
      <4> QED
        BY <2>1, <2>2, <3>1, <4>1, <4>2, <4>3 DEF Types, Linked
    <3>6. ASSUME ~replaced, link = "live" PROVE Faithful'
      <4>1. Faithful
        BY <1>10, <3>6 DEF Inv
      <4>2. /\ \A e : In(queue', e) => In(queue, e) \/ e = Rm(x)
            /\ \A e : In(queue, e) => In(queue', e)
            /\ In(queue', Rm(x)) => ~In(queue, Add(x)) \/ In(queue, Rm(x))
            /\ ~In(queue, Add(x)) => In(queue', Rm(x))
        BY <3>1, <3>3, <3>4, <3>6 DEF Appended
      <4>3. \A y \in Objects : Once(queue, Add(y)) => Once(queue', Add(y))
        BY <2>3, <3>1, <3>4 DEF Appended
      <4>4. x[2] <= gen[x[1]]
        BY <2>2, <3>1 DEF Types, x
      <4>5. Born'
        BY <2>1, <2>3, <3>1, <3>2, <4>1, <4>2, <4>4, <2>2
        DEF Faithful, Born, Types, Objects
      <4>6. Unheard'
        BY <2>1, <2>3, <3>2, <4>1, <4>2, <4>3 DEF Faithful, Unheard
      <4>7. Filed'
        BY <2>1, <4>1 DEF Faithful, Filed
      <4>8. \A g \in Paths : g # p => present'[g] = present[g]
        BY <2>2, <3>1 DEF Types
      <4>9. present'[p] = 0 /\ x = <<p, present[p]>>
        BY <2>2, <3>1 DEF Types, x
      <4>10. Here'
        <5>1. ASSUME NEW g \in Paths, g # p, present[g] # 0
              PROVE  LET y == <<g, present[g]>>
                     IN  \/ In(queue', Add(y))
                         \/ /\ nodes[g] = present[g] /\ y \notin removed
                            /\ ~In(queue', Rm(y))
          <6> DEFINE y == <<g, present[g]>>
          <6>1. y \in Objects /\ y # x
            BY <2>2, <4>9, <5>1 DEF Types, Objects
          <6>2. Rm(y) # Rm(x)
            BY <2>3, <6>1
          <6>3. \/ In(queue, Add(y))
                \/ nodes[g] = present[g] /\ y \notin removed /\ ~In(queue, Rm(y))
            BY <4>1, <5>1 DEF Faithful, Here
          <6> QED
            BY <4>2, <6>2, <6>3
        <5> QED
          BY <2>1, <4>8, <4>9, <5>1 DEF Here
      <4>11. Gone'
        <5>1. ASSUME NEW g \in Paths, nodes[g] # 0, nodes[g] # present'[g],
                     <<g, nodes[g]>> \notin removed
              PROVE  In(queue', Rm(<<g, nodes[g]>>))
          <6>1. CASE nodes[g] # present[g]
            BY <4>1, <4>2, <5>1, <6>1 DEF Faithful, Gone
          <6>2. CASE nodes[g] = present[g]
            <7>1. g = p /\ x = <<g, nodes[g]>>
              BY <4>8, <4>9, <5>1, <6>2
            <7>2. ~In(queue, Add(x))
              BY <3>2, <4>1, <7>1 DEF Faithful, Unheard
            <7> QED
              BY <4>2, <7>1, <7>2
          <6> QED
            BY <6>1, <6>2
        <5> QED
          BY <2>1, <5>1 DEF Gone
      <4> QED
        BY <4>5, <4>6, <4>7, <4>10, <4>11 DEF Faithful
    <3> QED
      BY <3>5, <3>6
  <2> QED
    BY <1>10, <2>4, <2>5
<1>11. Inv /\ [Next]_vars => Inv'
  <2> SUFFICES ASSUME Inv, [Next]_vars PROVE Inv'
    OBVIOUS
  <2> DEFINE seen == <<queue, nodes, removed, orphans, link, replaced, present,
                       gen>>
             counts == <<pc, dev, idx, taken, answer>>
  <2>1. UNCHANGED <<seen, idx>> =>
          /\ Types' /\ Linked' /\ (~replaced' /\ link' = "live" => Faithful')
    BY DEF Inv, Types, Linked, Faithful, Born, Unheard, Filed, Here, Gone
  <2>2. UNCHANGED counts => Counted'
    BY DEF Inv, Counted
  <2>3. CASE ServerStarts
    BY <2>1, <2>2, <2>3 DEF ServerStarts, objects, frames, history, Inv
  <2>4. CASE ServerStops
    <3>1. Types' /\ Linked' /\ link' # "live"
      BY <2>4, EmptySeq, PipeWireAssumption
      DEF ServerStops, objects, frames, history, Inv, Types, Linked
    <3>2. UNCHANGED counts
      BY <2>4 DEF ServerStops, frames
    <3> QED
      BY <2>2, <3>1, <3>2 DEF Inv
  <2>5. ASSUME NEW p \in Paths, NodeComes(p) \/ NodeGoes(p) PROVE Inv'
    <3>1. UNCHANGED <<counts, link, replaced>>
      BY <2>5 DEF NodeComes, NodeGoes, frames, monitor, history
    <3> QED
      BY <1>10, <2>2, <2>5, <3>1 DEF Inv
  <2>6. CASE Registers
    <3>1. UNCHANGED <<counts, present, gen, nodes, removed, orphans, replaced>>
      BY <2>6 DEF Registers, frames, world, objects, history
    <3>2. CASE UNCHANGED <<link, queue>>
      BY <2>1, <2>2, <3>1, <3>2 DEF Inv
    <3>3. CASE link' = "live" /\ queue' \in Listings
      <4>1. Lists(queue')
        BY <1>3, <3>3 DEF Inv, Types
      <4>2. removed = {} /\ orphans = {} /\ \A p \in Paths : nodes[p] = 0
        BY <2>6 DEF Registers, Inv, Linked
      <4>3. Faithful'
        BY <1>4, <3>1, <4>1, <4>2 DEF Inv
      <4>4. Types' /\ Linked'
        BY <3>1, <3>3, <4>1, <4>2 DEF Inv, Types, Linked, Lists
      <4> QED
        BY <2>2, <3>1, <4>3, <4>4 DEF Inv
    <3> QED
      BY <2>6, <3>2, <3>3 DEF Registers
  <2>7. CASE Relay \/ Receive
    <3>1. UNCHANGED <<seen, dev, idx, taken, answer>>
      BY <2>7 DEF Relay, Receive, world, monitor, objects, frames, history
    <3>2. Counted'
      BY <2>7, <3>1 DEF Relay, Receive, Inv, Counted
    <3> QED
      BY <2>1, <3>1, <3>2 DEF Inv
  <2>8. CASE Iterate
    BY <1>8, <1>9, <2>8 DEF Inv
  <2>9. CASE Finish
    <3>1. UNCHANGED <<present, gen, link, queue, replaced, dev, taken, answer>>
      BY <2>9 DEF Finish, world, monitor, history
    <3>2. pc # "capture" /\ pc' # "capture"
      BY <2>9 DEF Finish
    <3>3. CASE last = None
      <4>1. UNCHANGED <<seen, idx>>
        BY <2>9, <3>1, <3>3 DEF Finish, objects
      <4>2. Counted'
        BY <3>1, <3>2, <4>1 DEF Inv, Counted
      <4> QED
        BY <2>1, <4>1, <4>2 DEF Inv
    <3>4. CASE DestroyDev(last)
      <4>1. Counted'
        BY <3>1, <3>2, <3>4 DEF DestroyDev, ResetsCapture, Inv, Counted, Types
      <4> QED
        BY <1>6, <1>7, <3>1, <3>4, <4>1 DEF Inv, Unmoved
    <3> QED
      BY <2>9, <3>3, <3>4 DEF Finish
  <2>10. ASSUME NEW interface \in Paths \cup {Any}, IsAvailable(interface)
         PROVE  Inv'
    <3>1. /\ UNCHANGED <<present, gen, link, queue, replaced, dev, taken, answer,
                        pc>>
          /\ pc = "ready"
      BY <2>10 DEF IsAvailable, world, monitor, history
    <3>2. PICK x : DestroyDev(x)
      BY <2>10 DEF IsAvailable
    <3>3. Counted'
      BY <3>1, <3>2 DEF DestroyDev, ResetsCapture, Inv, Counted, Types
    <3> QED
      BY <1>6, <1>7, <3>1, <3>2, <3>3 DEF Inv, Unmoved
  <2>11. ASSUME NEW interface \in Paths \cup {Any}, NEW n \in Nums,
                Capture(interface, n)
         PROVE  Inv'
    <3>1. /\ UNCHANGED <<seen, idx>> /\ pc = "ready" /\ pc' = "capture"
          /\ taken' = 0
      BY <2>11 DEF Capture, world, monitor, objects, history
    <3>2. dev'[1] \in Paths
      BY <2>11 DEF Capture, Fetched, Kept
    <3>3. Counted'
      BY <3>1, <3>2 DEF Inv, Counted
    <3> QED
      BY <2>1, <3>1, <3>3 DEF Inv
  <2>12. CASE Frame
    <3>1. PICK k \in 1..Burst : /\ idx' = [idx EXCEPT ![dev[1]] = idx[dev[1]] + k]
                               /\ taken' = taken + k
      BY <2>12 DEF Frame, Path
    <3>2. pc = "capture" /\ UNCHANGED <<seen, pc, dev>>
      BY <2>12 DEF Frame, world, monitor, objects, history
    <3>3. Counted'
      BY <3>1, <3>2 DEF Inv, Counted, Types
    <3>4. idx' = [p \in Paths |-> idx'[p]]
      BY <3>1 DEF Inv, Types
    <3> QED
      BY <3>2, <3>3, <3>4
      DEF Inv, Types, Linked, Faithful, Born, Unheard, Filed, Here, Gone
  <2>13. CASE StreamFails \/ Expires \/ OnTimeout
    <3>1. UNCHANGED <<seen, counts>>
      BY <2>13
      DEF StreamFails, Expires, OnTimeout, world, monitor, objects, history
    <3> QED
      BY <2>1, <2>2, <3>1 DEF Inv
  <2>14. CASE Ends \/ Breaks
    <3>1. /\ pc = "capture" /\ pc' = "ready" /\ answer' = idx[dev[1]]
          /\ DestroyDev(dev)
          /\ UNCHANGED <<present, gen, link, queue, replaced, taken>>
      BY <2>14 DEF Ends, Breaks, Replies, Path, world, monitor, history
    <3>2. Counted'
      BY <3>1 DEF DestroyDev, ResetsCapture, Inv, Counted, Types
    <3> QED
      BY <1>6, <1>7, <3>1, <3>2 DEF Inv, Unmoved
  <2>15. CASE UNCHANGED vars
    <3>1. UNCHANGED <<seen, counts>>
      BY <2>15 DEF vars, world, monitor, objects, frames, history
    <3> QED
      BY <2>1, <2>2, <3>1 DEF Inv
  <2>16. CASE Calls
    BY <2>10, <2>11, <2>16 DEF Calls
  <2>17. CASE Server
    BY <2>3, <2>4, <2>5, <2>17 DEF Server
  <2> QED
    BY <2>6, <2>7, <2>8, <2>9, <2>12, <2>13, <2>14, <2>15, <2>16, <2>17
    DEF Next, Daemon
<1> QED
  BY <1>5, <1>11, PTL DEF Spec

\* Once its events are handled, the objects of the map that are not removed
\* are the nodes of the server, however its events, calls and the end of
\* captures interleave, and a capture replies its own frames
\* (pipewire.c:280-290).
THEOREM MapCorrect == Spec => [](MapTrue /\ OwnFrames)
<1>1. Inv => MapTrue /\ OwnFrames
  <2> SUFFICES ASSUME Inv PROVE MapTrue /\ OwnFrames
    OBVIOUS
  <2>1. OwnFrames
    BY DEF Inv, Counted, OwnFrames
  <2>2. MapTrue
    <3> SUFFICES ASSUME Settled, ~replaced
                 PROVE  {<<p, nodes[p]>> : p \in Kept} \ removed =
                          {<<p, present[p]>> : p \in {q \in Paths : present[q] # 0}}
      BY DEF MapTrue
    <3>1. Faithful /\ \A e : ~In(queue, e)
      BY EmptySeq DEF Settled, Inv, In
    <3>2. ASSUME NEW p \in Paths, nodes[p] # 0, <<p, nodes[p]>> \notin removed
          PROVE  nodes[p] = present[p]
      BY <3>1, <3>2 DEF Faithful, Gone
    <3>3. ASSUME NEW p \in Paths, present[p] # 0
          PROVE  nodes[p] = present[p] /\ <<p, nodes[p]>> \notin removed
      BY <3>1, <3>3 DEF Faithful, Here
    <3> QED
      BY <3>2, <3>3 DEF Kept
  <2> QED
    BY <2>1, <2>2
<1> QED
  BY <1>1, PipeWireInv, PTL

-----------------------------------------------------------------------------
(* What is signalled of nodes *)

\* Between two turns of the event loop, each path that was not skipped was
\* signalled as added iff it has an object, and no object of it waits to be
\* removed; during an iteration, all but that of the node it touched last.
Signalled ==
  /\ last \in Objects \cup {None}
  /\ told \in [Paths -> {"none", "add", "rm"}]
  /\ pc # "iterated" => last = None
  /\ last # None => nodes[last[1]] = last[2] /\ last[1] \notin skipped
  /\ orphans = {}
  /\ \A x \in removed : nodes[x[1]] = x[2] /\ (x[1] \in skipped \/ x = last)
  /\ \A p \in Paths \ skipped :
       last = None \/ last[1] # p => (told[p] = "add" <=> nodes[p] # 0)

\* Once the events are handled, peers were told of every node that is present,
\* and of no other, on each path that no iteration skipped since its last
\* signal, however events are bundled and calls, captures and restarts of the
\* server come between (sensor.c:78-86), if no object was put over another.
THEOREM NodesSignalled == Spec => []ToldTrue
<1> DEFINE Told == ~replaced => Signalled
<1>1. Init => Told
  BY DEF Init, Signalled
<1>2. Inv /\ Told /\ [Next]_vars => Told'
  <2> SUFFICES ASSUME Inv, Told, [Next]_vars, ~replaced'
               PROVE  Signalled'
    OBVIOUS
  <2> DEFINE seen == <<objects, told, last, history>>
  <2>1. ASSUME UNCHANGED seen, pc' # "iterated" => last = None
        PROVE  Signalled'
    BY <2>1 DEF Signalled, objects, history
  <2>2. /\ nodes \in [Paths -> 0..MaxGen] /\ removed \subseteq Objects
        /\ \A x \in Objects : /\ x[1] \in Paths /\ x[2] # 0 /\ x # None
                              /\ x = <<x[1], x[2]>>
    BY DEF Inv, Types, Objects, None
  <2>3. \* an object that is let go, if it is removed, was skipped or signalled
        ASSUME NEW x, DestroyDev(x), Signalled, x \in removed
        PROVE  /\ x[1] \in Paths /\ nodes' = [nodes EXCEPT ![x[1]] = 0]
               /\ orphans' = {} /\ removed' = removed \ {x}
               /\ \A y \in removed' : y[1] # x[1] /\ nodes'[y[1]] = nodes[y[1]]
    <3>1. x \in Objects /\ x = <<x[1], nodes[x[1]]>>
      BY <2>2, <2>3 DEF Signalled
    <3>2. /\ nodes' = [nodes EXCEPT ![x[1]] = 0]
          /\ orphans' = {} /\ removed' = removed \ {x}
      BY <2>3, <3>1 DEF DestroyDev, Frees, Signalled
    <3>3. \A y \in removed : y[1] = x[1] => y = x
      BY <2>2, <2>3, <3>1 DEF Signalled
    <3> QED
      BY <2>2, <3>1, <3>2, <3>3
  <2>4. \* a call lets go an object
        ASSUME NEW x, DestroyDev(x), pc # "iterated", pc' # "iterated",
               UNCHANGED <<told, last, history>>
        PROVE  Signalled'
    <3>1. Signalled /\ last = None
      BY <2>4 DEF history, Signalled
    <3>2. CASE x \notin removed
      BY <2>4, <3>1, <3>2 DEF DestroyDev, Frees, Signalled, objects, history
    <3>3. CASE x \in removed
      <4>1. x[1] \in skipped
        BY <2>2, <3>1, <3>3 DEF Signalled
      <4>2. \A p \in Paths \ skipped : nodes'[p] = nodes[p]
        BY <2>2, <2>3, <2>4, <3>1, <3>3, <4>1
      <4>3. /\ orphans' = {} /\ removed' \subseteq removed
            /\ \A y \in removed' : nodes'[y[1]] = nodes[y[1]]
        BY <2>3, <2>4, <3>1, <3>3
      <4> QED
        BY <2>4, <3>1, <4>2, <4>3 DEF Signalled, history
    <3> QED
      BY <3>2, <3>3
  <2>5. CASE Iterate
    <3> DEFINE x == Head(queue)[2]
    <3>1. x \in Objects
      <4>1. queue \in Seq(Events) /\ queue # << >>
        BY <2>5 DEF Iterate, Inv, Types
      <4>2. Head(queue) \in Events
        BY <4>1, EmptySeq, HeadTailProperties
      <4> QED
        BY <4>2 DEF Events
    <3>2. ~replaced /\ UNCHANGED told /\ pc' = "iterated"
      <4>1. Added(x) \/ replaced' = replaced
        BY <2>5 DEF Iterate, history
      <4>2. Added(x) => replaced' = replaced \/ replaced'
        BY Zenon DEF Added
      <4>3. ~replaced
        BY <4>1, <4>2, Zenon
      <4>4. UNCHANGED told /\ pc' = "iterated"
        BY <2>5 DEF Iterate
      <4> QED
        BY <4>3, <4>4
    <3>3. Signalled
      BY <3>2
    <3>4. \/ Added(x) /\ Touched(x)
          \/ /\ Exists(x) /\ removed' = Removed(x) /\ Touched(x)
             /\ UNCHANGED <<nodes, orphans>>
          \/ UNCHANGED <<objects, last, history>>
      BY <2>5 DEF Iterate
    <3> HIDE DEF x
    <3>5. ASSUME Touched(x)
          PROVE  /\ last' = x /\ x[1] \notin skipped'
                 /\ \A p : p \in skipped' <=>
                      p # x[1] /\ (p \in skipped \/ (last # None /\ last[1] = p))
      BY <3>5 DEF Touched
    <3>6. CASE Added(x) /\ Touched(x)
      <4>1. /\ nodes[x[1]] = 0 /\ nodes' = [nodes EXCEPT ![x[1]] = x[2]]
            /\ UNCHANGED <<removed, orphans>>
        BY <3>6 DEF Added
      <4>2. /\ nodes'[x[1]] = x[2]
            /\ \A p \in Paths \ {x[1]} : nodes'[p] = nodes[p]
        BY <2>2, <3>1, <4>1
      <4>3. \A y \in removed : /\ nodes'[y[1]] = y[2]
                               /\ y[1] \in skipped'
        BY <2>2, <3>3, <3>5, <3>6, <4>1, <4>2 DEF Signalled
      <4>4. \A p \in Paths \ skipped' :
              p # x[1] => (told[p] = "add" <=> nodes'[p] # 0)
        BY <3>3, <3>5, <3>6, <4>2 DEF Signalled
      <4> QED
        BY <2>2, <3>1, <3>2, <3>3, <3>5, <3>6, <4>1, <4>2, <4>3, <4>4
        DEF Signalled
    <3>7. CASE /\ Exists(x) /\ removed' = Removed(x) /\ Touched(x)
               /\ UNCHANGED <<nodes, orphans>>
      <4>1. nodes[x[1]] = x[2] /\ removed' = removed \cup {x}
        BY <3>3, <3>7 DEF Exists, Removed, Signalled
      <4>2. \A y \in removed' : /\ nodes[y[1]] = y[2]
                                /\ y[1] \in skipped' \/ y = x
        BY <2>2, <3>1, <3>3, <3>5, <3>7, <4>1 DEF Signalled
      <4>3. \A p \in Paths \ skipped' :
              p # x[1] => (told[p] = "add" <=> nodes[p] # 0)
        BY <3>3, <3>5, <3>7 DEF Signalled
      <4> QED
        BY <2>2, <3>1, <3>2, <3>3, <3>5, <3>7, <4>1, <4>2, <4>3 DEF Signalled
    <3>8. CASE UNCHANGED <<objects, last, history>>
      BY <3>2, <3>3, <3>8 DEF Signalled, objects, history
    <3> QED
      BY <3>4, <3>6, <3>7, <3>8
  <2>6. CASE Finish
    <3>1. Signalled /\ pc' = "ready" /\ last' = None /\ UNCHANGED skipped
      BY <2>6 DEF Finish, history
    <3>2. CASE last = None
      BY <2>6, <3>1, <3>2 DEF Finish, Signalled, objects
    <3>3. CASE last # None
      <4>1. /\ told' = [told EXCEPT ![last[1]] = Action(last)]
            /\ DestroyDev(last)
        BY <2>6, <3>3 DEF Finish
      <4>2. /\ last[1] \in Paths /\ last[2] # 0 /\ nodes[last[1]] = last[2]
            /\ told \in [Paths -> {"none", "add", "rm"}]
        BY <2>2, <3>1, <3>3 DEF Signalled
      <4>3. CASE last \in removed
        <5>1. /\ nodes' = [nodes EXCEPT ![last[1]] = 0]
              /\ orphans' = {} /\ removed' = removed \ {last}
              /\ \A y \in removed' : nodes'[y[1]] = nodes[y[1]]
          BY <2>3, <3>1, <4>1, <4>3
        <5>2. told' = [told EXCEPT ![last[1]] = "rm"]
          BY <4>1, <4>3 DEF Action
        <5>3. \A y \in removed' : nodes'[y[1]] = y[2] /\ y[1] \in skipped
          BY <3>1, <5>1 DEF Signalled
        <5>4. \A p \in Paths \ skipped : told'[p] = "add" <=> nodes'[p] # 0
          BY <2>2, <3>1, <4>2, <5>1, <5>2 DEF Signalled
        <5> QED
          BY <3>1, <4>2, <5>1, <5>2, <5>3, <5>4 DEF Signalled
      <4>4. CASE last \notin removed
        <5>1. UNCHANGED objects /\ told' = [told EXCEPT ![last[1]] = "add"]
          BY <4>1, <4>4 DEF DestroyDev, Frees, Action
        <5>2. \A p \in Paths \ skipped : told'[p] = "add" <=> nodes[p] # 0
          BY <3>1, <4>2, <5>1 DEF Signalled
        <5> QED
          BY <3>1, <4>2, <4>4, <5>1, <5>2 DEF Signalled, objects
      <4> QED
        BY <4>3, <4>4
    <3> QED
      BY <3>2, <3>3
  <2>7. CASE Receive
    <3>1. /\ Signalled /\ last = None /\ last' = None
          /\ UNCHANGED <<objects, told, history>>
      BY <2>7 DEF Receive, history, Signalled
    <3> QED
      BY <3>1 DEF Signalled, objects, history
  <2>8. CASE Calls
    <3>1. PICK interface \in Paths \cup {Any} :
            \/ IsAvailable(interface)
            \/ \E n \in Nums : Capture(interface, n)
      BY <2>8 DEF Calls
    <3>2. CASE IsAvailable(interface)
      BY <2>4, <3>2 DEF IsAvailable
    <3>3. CASE \E n \in Nums : Capture(interface, n)
      <4>1. Signalled /\ pc = "ready" /\ UNCHANGED seen
        BY <3>3 DEF Capture, objects, history
      <4> QED
        BY <2>1, <4>1 DEF Signalled
    <3> QED
      BY <3>1, <3>2, <3>3
  <2>9. CASE Ends \/ Breaks
    BY <2>4, <2>9 DEF Ends, Breaks, Replies
  <2>10. CASE \/ Registers \/ Relay \/ Expires \/ OnTimeout \/ Frame
              \/ StreamFails \/ Server \/ UNCHANGED vars
    <3>1. UNCHANGED <<seen, pc>>
      BY <2>10 DEF Registers, Relay, Expires, OnTimeout, Frame, StreamFails,
                   Server, ServerStarts, ServerStops, NodeComes, NodeGoes,
                   objects, history, vars
    <3>2. Signalled
      BY <3>1 DEF history
    <3> QED
      BY <2>1, <3>1, <3>2 DEF Signalled
  <2> QED
    BY <2>5, <2>6, <2>7, <2>8, <2>9, <2>10 DEF Next, Daemon
<1>3. Inv /\ Told => ToldTrue
  <2> SUFFICES ASSUME Inv, Told, Settled, ~replaced
               PROVE  /\ \A p \in Paths \ skipped :
                           told[p] = "add" <=> present[p] # 0
                      /\ \A x \in removed : x[1] \in skipped
    BY DEF ToldTrue
  <2>1. /\ Signalled /\ last = None
    BY DEF Signalled, Settled
  <2>2. \A x \in removed : x[1] \in skipped /\ x # None
    BY <2>1 DEF Signalled, Inv, Types, Objects, None
  <2>3. Faithful /\ \A e : ~In(queue, e)
    BY EmptySeq DEF Settled, Inv, In
  <2>4. ASSUME NEW p \in Paths \ skipped PROVE nodes[p] # 0 <=> present[p] # 0
    <3>1. <<p, nodes[p]>> \notin removed
      BY <2>2
    <3> QED
      BY <2>3, <3>1 DEF Faithful, Here, Gone
  <2> QED
    BY <2>1, <2>2, <2>4 DEF Signalled
<1> QED
  BY <1>1, <1>2, <1>3, PipeWireInv, PTL DEF Spec
=============================================================================
