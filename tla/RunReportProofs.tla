-------------------------- MODULE RunReportProofs --------------------------
(***************************************************************************)
(* Proofs about loading and about reports.  The search for cycles decides  *)
(* rightly about every document, whatever its graph, and the two readers   *)
(* agree; the critical path of every run is its bottleneck; its output and *)
(* the report, written and read back, are of that run.                     *)
(***************************************************************************)
EXTENDS RunReportProps, TLAPS, WellFoundedInduction, FiniteSetTheorems

Frames(d) == [node : Ids(d), next : Nat \ {0}]
Colors == {"white", "grey", "black"}
Listed(d, id) == TaskOf(d, id).depends_on

-----------------------------------------------------------------------------
(* What the search keeps true of its stack s and its colours c *)

\* The grey nodes are those of the calls in progress, each of them once.
GreyIsStacked(d, s, c) ==
    /\ \A id \in Ids(d) : c[id] = "grey" <=> \E i \in 1..Len(s) : s[i].node = id
    /\ \A i, j \in 1..Len(s) : s[i].node = s[j].node => i = j

\* A call waits for the last dependency it has looked at.
Waits(d, s, i) ==
    LET list == Listed(d, s[i].node)
        k == s[i].next - 1
    IN  k \in 1..Len(list) /\ list[k] = s[i + 1].node

\* The other dependencies that call i has looked at are done.
Looked(d, s, c, i) ==
    LET list == Listed(d, s[i].node)
    IN  \A k \in 1..Len(list) : k < s[i].next =>
            c[list[k]] = "black" \/ (i < Len(s) /\ k = s[i].next - 1)

Stacked(d, s, c) ==
    /\ GreyIsStacked(d, s, c)
    /\ \A i \in 1..(Len(s) - 1) : Waits(d, s, i)
    /\ \A i \in 1..Len(s) : Looked(d, s, c, i)

\* What is black depends on black nodes only, and not in a circle: that nodes
\* turned black one after the other is all the search knows when it is over.
Black(d, c) == {id \in Ids(d) : c[id] = "black"}

AcyclicIn(d, N) == \A S \in SUBSET N : S # {} => \E id \in S : Deps(d, id) \cap S = {}

Blackened(d, c) ==
    /\ \A id \in Black(d, c) : Deps(d, id) \subseteq Black(d, c)
    /\ AcyclicIn(d, Black(d, c))

Checked(d) == ~Malformed(d) /\ ~Duplicate(d) /\ ~UnknownDep(d) /\ ~UnknownProvider(d)

\* A state of the search.
Searching(d, s, c) ==
    /\ d \in Docs /\ ~UnknownDep(d)
    /\ s \in Seq(Frames(d)) /\ c \in [Ids(d) -> Colors]
    /\ Stacked(d, s, c) /\ Blackened(d, c)

\* SearchIsSound needs, besides itself, what the earlier steps have checked and
\* the invariant of the search.
LInv ==
    /\ doc \in Docs /\ LoaderTypeOK
    /\ verdict \in {"parse", "validate"} =>
         stack = <<>> /\ \A id \in Ids(doc) : color[id] = "white"
    /\ verdict = "validate" => ~Malformed(doc)
    /\ verdict \in {"search", "accepted"} => Checked(doc)
    /\ verdict = "search" => Searching(doc, stack, color)
    /\ AcceptedIsRunnable /\ RefusedForAReason

-----------------------------------------------------------------------------
(* Lists and stacks *)

\* The dependencies of a task of a document that was checked.
LEMMA ListedLemma ==
    ASSUME NEW d \in Docs, ~UnknownDep(d), NEW id \in Ids(d)
    PROVE  /\ Listed(d, id) \in Seq(Ids(d))
           /\ Deps(d, id) = {Listed(d, id)[k] : k \in 1..Len(Listed(d, id))}
           /\ Deps(d, id) \subseteq Ids(d)
<1> DEFINE list == Listed(d, id)
<1>1. PICK i \in DOMAIN d.tasks : TaskOf(d, id) = d.tasks[i]
  BY DEF Ids, TaskOf
<1>2. IsSeq(list)
  BY <1>1, SpecAssumption DEF Listed
<1>3. DOMAIN list = 1..Len(list) /\ Len(list) \in Nat
  BY <1>2 DEF IsSeq
<1>4. \A k \in 1..Len(list) : list[k] \in Ids(d)
  BY <1>1, <1>3 DEF UnknownDep, Entries, Listed
<1>5. list \in Seq(Ids(d))
  BY <1>2, <1>3, <1>4 DEF IsSeq
<1>6. Deps(d, id) = {list[k] : k \in 1..Len(list)}
  BY <1>3 DEF Deps, Entries, Listed
<1> QED
  BY <1>4, <1>5, <1>6

LEMMA PopLemma ==
    ASSUME NEW F, NEW s \in Seq(F), s # <<>>
    PROVE  LET n == Len(s)
               p == SubSeq(s, 1, n - 1)
           IN  /\ n \in Nat \ {0} /\ s[n] \in F
               /\ p \in Seq(F) /\ Len(p) = n - 1 /\ \A i \in 1..(n - 1) : p[i] = s[i]
<1> DEFINE n == Len(s)
           p == SubSeq(s, 1, n - 1)
<1>1. n \in Nat \ {0} /\ s[n] \in F
  OBVIOUS
<1>2. p = [i \in 1..(n - 1) |-> s[i]]
  BY <1>1
<1>3. p \in Seq(F) /\ Len(p) = n - 1
  <2>1. PICK m \in Nat : m = n - 1
    BY <1>1
  <2>2. p = [i \in 1..m |-> s[i]] /\ \A i \in 1..m : s[i] \in F
    BY <1>1, <1>2, <2>1
  <2> HIDE DEF p, n
  <2>3. p \in Seq(F) /\ Len(p) = m
    BY <2>2
  <2> QED
    BY <2>1, <2>3
<1> QED
  BY <1>1, <1>2, <1>3

LEMMA PushLemma ==
    ASSUME NEW F, NEW s \in Seq(F), NEW e \in F
    PROVE  LET n == Len(s)
               p == Append(s, e)
           IN  /\ p \in Seq(F) /\ Len(p) = n + 1 /\ p[n + 1] = e
               /\ \A i \in 1..n : p[i] = s[i]
OBVIOUS

\* The stack s with n calls becomes t when the last call has looked at one more
\* of its dependencies.
Advanced(s, t, n) ==
    /\ Len(t) = n
    /\ \A i \in 1..n : t[i].node = s[i].node
    /\ \A i \in 1..(n - 1) : t[i].next = s[i].next
    /\ t[n].next = s[n].next + 1

LEMMA AdvanceLemma ==
    ASSUME LoaderTypeOK, stack # <<>>
    PROVE  /\ Len(stack) \in Nat \ {0}
           /\ Append(Pop, Done(Top)) \in Seq(Frame)
           /\ Advanced(stack, Append(Pop, Done(Top)), Len(stack))
<1> DEFINE n == Len(stack)
           t == Append(Pop, Done(Top))
<1>0. stack \in Seq(Frame)
  BY DEF LoaderTypeOK
<1>1. /\ n \in Nat \ {0} /\ Top = stack[n] /\ Top \in Frame
      /\ Pop \in Seq(Frame) /\ Len(Pop) = n - 1 /\ \A i \in 1..(n - 1) : Pop[i] = stack[i]
  BY <1>0, PopLemma DEF Top, Pop
<1>2. Done(Top) \in Frame /\ Done(Top).node = Top.node /\ Done(Top).next = Top.next + 1
  BY <1>1 DEF Done, Frame
<1>3. /\ t \in Seq(Frame) /\ Len(t) = n /\ t[n] = Done(Top)
      /\ \A i \in 1..(n - 1) : t[i] = Pop[i]
  BY <1>1, <1>2, PushLemma
<1>4. \A i \in 1..(n - 1) : t[i] = stack[i]
  BY <1>1, <1>3
<1>5. \A i \in 1..n : i \in 1..(n - 1) \/ i = n
  BY <1>1
<1> HIDE DEF n, t
<1>6. \A i \in 1..n : t[i].node = stack[i].node
  BY <1>1, <1>2, <1>3, <1>4, <1>5
<1> QED
  BY <1>1, <1>2, <1>3, <1>4, <1>6 DEF Advanced, n, t

-----------------------------------------------------------------------------
(* The steps of the search *)

\* Each call of visit was made for a dependency of the one below.
LEMMA StackIsChain ==
    ASSUME NEW d, NEW s, NEW c, Searching(d, s, c)
    PROVE  /\ Len(s) \in Nat
           /\ \A i \in 1..Len(s) : /\ s[i].node \in Ids(d) /\ s[i].next \in Nat \ {0}
                                   /\ c[s[i].node] = "grey"
                                   /\ Listed(d, s[i].node) \in Seq(Ids(d))
           /\ \A i \in 1..(Len(s) - 1) : s[i + 1].node \in Deps(d, s[i].node)
<1>1. Len(s) \in Nat /\ \A i \in 1..Len(s) : s[i] \in Frames(d)
  BY DEF Searching
<1>2. \A i \in 1..Len(s) : s[i].node \in Ids(d) /\ s[i].next \in Nat \ {0}
  BY <1>1 DEF Frames
<1>3. \A i \in 1..Len(s) : c[s[i].node] = "grey"
  BY <1>2 DEF Searching, Stacked, GreyIsStacked
<1>4. \A i \in 1..Len(s) :
        /\ Listed(d, s[i].node) \in Seq(Ids(d))
        /\ Deps(d, s[i].node)
             = {Listed(d, s[i].node)[k] : k \in 1..Len(Listed(d, s[i].node))}
  BY <1>2, ListedLemma DEF Searching
<1>5. ASSUME NEW i \in 1..(Len(s) - 1)
      PROVE  s[i + 1].node \in Deps(d, s[i].node)
  <2>1. i \in 1..Len(s)
    BY <1>1
  <2>2. Waits(d, s, i)
    BY DEF Searching, Stacked
  <2> QED
    BY <1>4, <2>1, <2>2 DEF Waits
<1> QED
  BY <1>1, <1>2, <1>3, <1>4, <1>5

\* The last call looks at id, the next of its dependencies.
LooksAt(d, s, id) ==
    LET n == Len(s)
        list == Listed(d, s[n].node)
    IN  s[n].next \in 1..Len(list) /\ list[s[n].next] = id

LEMMA LooksAtDep ==
    ASSUME NEW d, NEW s, NEW c, Searching(d, s, c), Len(s) > 0, NEW id, LooksAt(d, s, id)
    PROVE  id \in Deps(d, s[Len(s)].node)
<1> DEFINE v == s[Len(s)].node
<1>1. Len(s) \in Nat /\ Len(s) \in 1..Len(s) /\ v \in Ids(d)
  BY StackIsChain
<1>2. Deps(d, v) = {Listed(d, v)[k] : k \in 1..Len(Listed(d, v))}
  BY <1>1, ListedLemma DEF Searching
<1> QED
  BY <1>2 DEF LooksAt

\* A call for a grey node closes a circle: the calls from that node's on.
LEMMA GreyMeansCycle ==
    ASSUME NEW d, NEW s, NEW c, Searching(d, s, c), Len(s) > 0,
           NEW id \in Ids(d), LooksAt(d, s, id), c[id] = "grey"
    PROVE  ~AcyclicIn(d, Ids(d))
<1>1. PICK n \in Nat : n = Len(s)
  BY StackIsChain
<1>2. PICK j \in 1..n : s[j].node = id
  BY <1>1 DEF Searching, Stacked, GreyIsStacked
<1> DEFINE S == {s[i].node : i \in j..n}
<1>3. \A i \in j..n : i \in 1..n /\ s[i].node \in Ids(d)
  <2>1. \A i \in j..n : i \in 1..n
    BY <1>1
  <2> QED
    BY <1>1, <2>1, StackIsChain
<1>4. S \in SUBSET Ids(d)
  BY <1>3
<1>5. id \in S
  BY <1>1, <1>2
<1>6. ASSUME NEW v \in S PROVE Deps(d, v) \cap S # {}
  <2>1. PICK i \in j..n : s[i].node = v
    OBVIOUS
  <2>2. CASE i = n
    <3>1. id \in Deps(d, v)
      BY <1>1, <2>1, <2>2, LooksAtDep
    <3> QED
      BY <1>5, <3>1
  <2>3. CASE i # n
    <3>1. i \in 1..(n - 1) /\ i + 1 \in j..n
      BY <1>1, <2>3
    <3>2. s[i + 1].node \in Deps(d, v)
      BY <1>1, <2>1, <3>1, StackIsChain
    <3>3. s[i + 1].node \in S
      BY <3>1
    <3> QED
      BY <3>2, <3>3
  <2> QED
    BY <2>2, <2>3
<1> HIDE DEF S
<1> QED
  BY <1>4, <1>5, <1>6 DEF AcyclicIn

\* A chain of n + 1 tasks of d each of which depends on the next.
ChainIn(d, n) ==
    \E p \in [1..(n + 1) -> Ids(d)] :
        /\ \A i \in 1..n : p[i + 1] \in Deps(d, p[i])
        /\ \A i, j \in 1..(n + 1) : p[i] = p[j] => i = j

\* A call that is too deep: the stack is a chain, and id is one more.
LEMMA TooDeep ==
    ASSUME NEW d, NEW s, NEW c, Searching(d, s, c), Len(s) > 0,
           NEW id \in Ids(d), LooksAt(d, s, id), c[id] = "white"
    PROVE  ChainIn(d, Len(s))
<1>1. PICK n \in Nat \ {0} : n = Len(s)
  BY StackIsChain
<1> DEFINE p == [i \in 1..(n + 1) |-> IF i = n + 1 THEN id ELSE s[i].node]
<1>2. \A i \in 1..n : s[i].node \in Ids(d) /\ c[s[i].node] = "grey"
  BY <1>1, StackIsChain
<1>3. p \in [1..(n + 1) -> Ids(d)]
  BY <1>1, <1>2
<1>4. ASSUME NEW k \in 1..(n + 1)
      PROVE  (k \in 1..n /\ p[k] = s[k].node) \/ (k = n + 1 /\ p[k] = id)
  <2>1. p[k] = IF k = n + 1 THEN id ELSE s[k].node
    OBVIOUS
  <2> HIDE DEF p
  <2> QED
    BY <1>1, <2>1
<1> HIDE DEF p
<1>5. ASSUME NEW i \in 1..n PROVE p[i + 1] \in Deps(d, p[i])
  <2>0. i \in 1..(n + 1) /\ i + 1 \in 1..(n + 1) /\ i # n + 1
    OBVIOUS
  <2>1. CASE i = n
    <3>1. p[i] = s[n].node /\ p[i + 1] = id
      BY <1>4, <2>0, <2>1
    <3> QED
      BY <1>1, <3>1, LooksAtDep
  <2>2. CASE i # n
    <3>1. i \in 1..(n - 1) /\ i + 1 # n + 1
      BY <2>2
    <3>2. p[i] = s[i].node /\ p[i + 1] = s[i + 1].node
      BY <1>4, <2>0, <3>1
    <3>3. \A k \in 1..(n - 1) : s[k + 1].node \in Deps(d, s[k].node)
      BY <1>1, StackIsChain
    <3> QED
      BY <3>1, <3>2, <3>3
  <2> QED
    BY <2>1, <2>2
<1>6. ASSUME NEW i \in 1..(n + 1), NEW j \in 1..(n + 1), p[i] = p[j] PROVE i = j
  <2>1. \A k \in 1..n : s[k].node # id
    BY <1>2
  <2>2. \A k, l \in 1..n : s[k].node = s[l].node => k = l
    BY <1>1 DEF Searching, Stacked, GreyIsStacked
  <2>3. CASE i \in 1..n /\ j \in 1..n
    BY <1>4, <1>6, <2>2, <2>3
  <2>4. CASE ~(i \in 1..n /\ j \in 1..n)
    BY <1>4, <1>6, <2>1, <2>4
  <2> QED
    BY <2>3, <2>4
<1> QED
  BY <1>1, <1>3, <1>5, <1>6 DEF ChainIn

\* A call of visit for id on top of the calls of s.
Called(d, s, t, id) ==
    LET n == Len(s)
    IN  /\ Len(t) = n + 1 /\ t[n + 1].node = id /\ t[n + 1].next = 1
        /\ \A i \in 1..n : t[i].node = s[i].node
        /\ \A i \in 1..(n - 1) : t[i].next = s[i].next
        /\ n > 0 => LooksAt(d, s, id) /\ t[n].next = s[n].next + 1

\* The call keeps the stack right.
LEMMA CallKeepsSearching ==
    ASSUME NEW d, NEW s, NEW c, Searching(d, s, c), NEW id \in Ids(d), c[id] = "white",
           NEW t \in Seq(Frames(d)), Called(d, s, t, id),
           NEW e, e = [c EXCEPT ![id] = "grey"]
    PROVE  Searching(d, t, e)
<1>1. PICK n \in Nat : n = Len(s)
  BY StackIsChain
<1>2. /\ e \in [Ids(d) -> Colors] /\ e[id] = "grey"
      /\ \A x \in Ids(d) \ {id} : e[x] = c[x]
      /\ \A x \in Ids(d) : e[x] = "black" <=> c[x] = "black"
  BY DEF Searching, Colors
<1>3. \A i \in 1..n : /\ s[i].node \in Ids(d) /\ c[s[i].node] = "grey" /\ s[i].node # id
                      /\ s[i].next \in Nat \ {0} /\ Listed(d, s[i].node) \in Seq(Ids(d))
  BY <1>1, StackIsChain
<1>4. /\ Len(t) = n + 1 /\ t[n + 1].node = id /\ t[n + 1].next = 1
      /\ \A i \in 1..n : t[i].node = s[i].node
      /\ \A i \in 1..(n - 1) : t[i].next = s[i].next
  BY <1>1 DEF Called
<1>5. n > 0 => LooksAt(d, s, id) /\ t[n].next = s[n].next + 1
  BY <1>1 DEF Called
<1>6. \A i \in 1..(n + 1) : i \in 1..n \/ i = n + 1
  OBVIOUS
<1>7. n + 1 \in 1..(n + 1) /\ \A i \in 1..n : i \in 1..(n + 1)
  OBVIOUS
<1>8. GreyIsStacked(d, t, e)
  <2>1. /\ \A x \in Ids(d) : c[x] = "grey" <=> \E i \in 1..n : s[i].node = x
        /\ \A i, j \in 1..n : s[i].node = s[j].node => i = j
    BY <1>1 DEF Searching, Stacked, GreyIsStacked
  <2>2. ASSUME NEW x \in Ids(d)
        PROVE  e[x] = "grey" <=> \E i \in 1..(n + 1) : t[i].node = x
    <3>1. CASE x = id
      BY <1>2, <1>4, <1>7, <3>1
    <3>2. CASE x # id
      BY <1>2, <1>4, <1>6, <1>7, <2>1, <3>2
    <3> QED
      BY <3>1, <3>2
  <2>3. ASSUME NEW i \in 1..(n + 1), NEW j \in 1..(n + 1), t[i].node = t[j].node
        PROVE  i = j
    <3>1. t[n + 1].node = id /\ \A k \in 1..n : t[k].node = s[k].node /\ t[k].node # id
      BY <1>3, <1>4
    <3>2. CASE i \in 1..n /\ j \in 1..n
      BY <2>1, <2>3, <3>1, <3>2
    <3>3. CASE i = n + 1
      BY <1>6, <2>3, <3>1, <3>3
    <3>4. CASE j = n + 1
      BY <1>6, <2>3, <3>1, <3>4
    <3> QED
      BY <1>6, <3>2, <3>3, <3>4
  <2> QED
    BY <1>4, <2>2, <2>3 DEF GreyIsStacked
<1>9. ASSUME NEW i \in 1..n PROVE Waits(d, t, i)
  <2>1. CASE i = n
    <3>1. LooksAt(d, s, id) /\ t[i].next - 1 = s[n].next /\ t[i].node = s[n].node
      BY <1>3, <1>4, <1>5, <2>1
    <3> QED
      BY <1>1, <1>4, <2>1, <3>1 DEF Waits, LooksAt
  <2>2. CASE i # n
    <3>1. i \in 1..(n - 1) /\ i + 1 \in 1..n
      BY <2>2
    <3>2. Waits(d, s, i)
      BY <1>1, <3>1 DEF Searching, Stacked
    <3>3. t[i].next = s[i].next /\ t[i].node = s[i].node /\ t[i + 1].node = s[i + 1].node
      BY <1>4, <3>1
    <3> QED
      BY <3>2, <3>3 DEF Waits
  <2> QED
    BY <2>1, <2>2
<1>10. ASSUME NEW i \in 1..(n + 1) PROVE Looked(d, t, e, i)
  <2>1. CASE i = n + 1
    BY <1>4, <2>1 DEF Looked
  <2>2. CASE i \in 1..n
    <3> DEFINE list == Listed(d, s[i].node)
    <3>1. t[i].node = s[i].node /\ list \in Seq(Ids(d)) /\ s[i].next \in Nat
      BY <1>3, <1>4, <2>2
    <3> SUFFICES ASSUME NEW k \in 1..Len(list), k < t[i].next
                 PROVE  e[list[k]] = "black" \/ k = t[i].next - 1
      BY <1>4, <2>2, <3>1 DEF Looked
    <3>2. k < s[i].next => c[list[k]] = "black" \/ (i < n /\ k = s[i].next - 1)
      BY <1>1, <2>2 DEF Searching, Stacked, Looked
    <3>3. list[k] \in Ids(d) /\ k \in Int
      BY <3>1
    <3>4. t[i].next = s[i].next \/ (i = n /\ t[i].next = s[i].next + 1)
      BY <1>4, <1>5, <2>2
    <3> HIDE DEF list
    <3> QED
      BY <1>2, <3>1, <3>2, <3>3, <3>4
  <2> QED
    BY <1>6, <2>1, <2>2
<1>11. Stacked(d, t, e)
  <2>1. (n + 1) - 1 = n
    OBVIOUS
  <2> QED
    BY <1>4, <1>8, <1>9, <1>10, <2>1 DEF Stacked
<1>12. Blackened(d, e)
  <2>1. Black(d, e) = Black(d, c)
    BY <1>2 DEF Black
  <2> QED
    BY <2>1 DEF Blackened, Searching
<1> QED
  BY <1>2, <1>11, <1>12 DEF Searching

\* So does a dependency that is done already.
LEMMA BlackKeepsSearching ==
    ASSUME NEW d, NEW s, NEW c, Searching(d, s, c), Len(s) > 0,
           NEW id \in Ids(d), LooksAt(d, s, id), c[id] = "black",
           NEW t \in Seq(Frames(d)), Advanced(s, t, Len(s))
    PROVE  Searching(d, t, c)
<1>1. PICK n \in Nat \ {0} : n = Len(s)
  BY StackIsChain
<1>2. /\ Len(t) = n /\ \A i \in 1..n : t[i].node = s[i].node
      /\ \A i \in 1..(n - 1) : t[i].next = s[i].next
      /\ t[n].next = s[n].next + 1
  BY <1>1 DEF Advanced
<1>3. GreyIsStacked(d, t, c)
  <2>1. GreyIsStacked(d, s, c)
    BY DEF Searching, Stacked
  <2>2. \A x \in Ids(d) : c[x] = "grey" <=> \E i \in 1..n : s[i].node = x
    BY <1>1, <2>1 DEF GreyIsStacked
  <2>3. \A i, j \in 1..n : s[i].node = s[j].node => i = j
    BY <1>1, <2>1 DEF GreyIsStacked
  <2>4. \A x \in Ids(d) : c[x] = "grey" <=> \E i \in 1..n : t[i].node = x
    BY <1>2, <2>2
  <2>5. \A i, j \in 1..n : t[i].node = t[j].node => i = j
    BY <1>2, <2>3
  <2> QED
    BY <1>2, <2>4, <2>5 DEF GreyIsStacked
<1>4. ASSUME NEW i \in 1..(n - 1) PROVE Waits(d, t, i)
  <2>1. i \in 1..n /\ i + 1 \in 1..n
    OBVIOUS
  <2>2. Waits(d, s, i)
    BY <1>1 DEF Searching, Stacked
  <2> QED
    BY <1>2, <2>1, <2>2 DEF Waits
<1>5. ASSUME NEW i \in 1..n PROVE Looked(d, t, c, i)
  <2> DEFINE list == Listed(d, s[i].node)
  <2>1. t[i].node = s[i].node /\ list \in Seq(Ids(d)) /\ s[i].next \in Nat
    BY <1>1, <1>2, StackIsChain
  <2>2. Looked(d, s, c, i)
    BY <1>1 DEF Searching, Stacked
  <2>3. CASE i = n
    <3>1. list[s[n].next] = id
      BY <1>1, <2>3 DEF LooksAt
    <3>2. \A k \in 1..Len(list) : k < s[n].next + 1 => k < s[n].next \/ k = s[n].next
      BY <2>1, <2>3
    <3>3. \A k \in 1..Len(list) : k < s[n].next => c[list[k]] = "black"
      BY <1>1, <2>2, <2>3 DEF Looked
    <3> QED
      BY <1>2, <2>1, <2>3, <3>1, <3>2, <3>3 DEF Looked
  <2>4. CASE i # n
    <3>1. i \in 1..(n - 1)
      BY <2>4
    <3> QED
      BY <1>1, <1>2, <2>1, <2>2, <3>1 DEF Looked
  <2> QED
    BY <2>3, <2>4
<1> QED
  BY <1>2, <1>3, <1>4, <1>5 DEF Searching, Stacked

\* The last call returns: its node, whose dependencies are all done, is done too.
LEMMA LeaveKeepsSearching ==
    ASSUME NEW d, NEW s, NEW c, Searching(d, s, c), Len(s) > 0,
           s[Len(s)].next > Len(Listed(d, s[Len(s)].node)),
           NEW t \in Seq(Frames(d)), Len(t) = Len(s) - 1, \A i \in 1..(Len(s) - 1) : t[i] = s[i],
           NEW e, e = [c EXCEPT ![s[Len(s)].node] = "black"]
    PROVE  Searching(d, t, e)
<1>1. PICK n \in Nat \ {0} : n = Len(s)
  BY StackIsChain
<1>2. PICK v \in Ids(d) : v = s[n].node
  BY <1>1, StackIsChain
<1>3. /\ \A i \in 1..n : /\ s[i].node \in Ids(d) /\ c[s[i].node] = "grey"
                         /\ s[i].next \in Nat \ {0} /\ Listed(d, s[i].node) \in Seq(Ids(d))
      /\ \A i, j \in 1..n : s[i].node = s[j].node => i = j
      /\ \A x \in Ids(d) : c[x] = "grey" <=> \E i \in 1..n : s[i].node = x
  BY <1>1, StackIsChain DEF Searching, Stacked, GreyIsStacked
<1>4. /\ e \in [Ids(d) -> Colors] /\ e[v] = "black"
      /\ \A x \in Ids(d) \ {v} : e[x] = c[x]
  BY <1>1, <1>2 DEF Searching, Colors
<1>5. c[v] = "grey"
  BY <1>2, <1>3
<1>6. /\ \A i \in 1..n : i \in 1..(n - 1) \/ i = n
      /\ \A i \in 1..(n - 1) : i \in 1..n /\ i # n
      /\ Len(t) = n - 1 /\ \A i \in 1..(n - 1) : t[i] = s[i]
  BY <1>1
<1>7. GreyIsStacked(d, t, e)
  <2>1. ASSUME NEW x \in Ids(d)
        PROVE  e[x] = "grey" <=> \E i \in 1..(n - 1) : t[i].node = x
    <3>1. CASE x = v
      BY <1>2, <1>3, <1>4, <1>6, <3>1
    <3>2. CASE x # v
      <4>1. e[x] = "grey" <=> \E i \in 1..n : s[i].node = x
        BY <1>3, <1>4, <3>2
      <4>2. (\E i \in 1..n : s[i].node = x) <=> \E i \in 1..(n - 1) : s[i].node = x
        BY <1>2, <1>6, <3>2
      <4>3. (\E i \in 1..(n - 1) : s[i].node = x) <=> \E i \in 1..(n - 1) : t[i].node = x
        BY <1>6
      <4> QED
        BY <4>1, <4>2, <4>3
    <3> QED
      BY <3>1, <3>2
  <2>2. \A i, j \in 1..(n - 1) : t[i].node = t[j].node => i = j
    BY <1>3, <1>6
  <2> QED
    BY <1>6, <2>1, <2>2 DEF GreyIsStacked
<1>8. ASSUME NEW i \in 1..((n - 1) - 1) PROVE Waits(d, t, i)
  <2>1. i \in 1..(n - 1) /\ i + 1 \in 1..(n - 1)
    OBVIOUS
  <2>2. Waits(d, s, i)
    BY <1>1, <2>1 DEF Searching, Stacked
  <2> QED
    BY <1>6, <2>1, <2>2 DEF Waits
<1>9. ASSUME NEW i \in 1..(n - 1) PROVE Looked(d, t, e, i)
  <2> DEFINE list == Listed(d, s[i].node)
  <2>1. i \in 1..n /\ t[i] = s[i] /\ list \in Seq(Ids(d)) /\ s[i].next \in Nat
    BY <1>3, <1>6
  <2> SUFFICES ASSUME NEW k \in 1..Len(list), k < s[i].next
               PROVE  e[list[k]] = "black" \/ (i < n - 1 /\ k = s[i].next - 1)
    BY <1>6, <2>1 DEF Looked
  <2>2. c[list[k]] = "black" \/ k = s[i].next - 1
    BY <1>1, <2>1 DEF Searching, Stacked, Looked
  <2>3. list[k] \in Ids(d)
    BY <2>1
  <2>4. CASE c[list[k]] = "black"
    BY <1>4, <2>3, <2>4
  <2>5. CASE k = s[i].next - 1 /\ i < n - 1
    BY <2>5
  <2>6. CASE k = s[i].next - 1 /\ ~(i < n - 1)
    <3>1. i = n - 1 /\ i + 1 = n
      BY <2>6
    <3>2. Waits(d, s, i)
      BY <1>1 DEF Searching, Stacked
    <3>3. list[k] = v
      BY <1>2, <2>6, <3>1, <3>2 DEF Waits
    <3> QED
      BY <1>4, <3>3
  <2> QED
    BY <2>2, <2>4, <2>5, <2>6
<1>10. Stacked(d, t, e)
  BY <1>6, <1>7, <1>8, <1>9 DEF Stacked
<1> DEFINE B == Black(d, c)
<1>11. Black(d, e) = B \cup {v} /\ v \notin B
  BY <1>4, <1>5 DEF Black
<1>12. Deps(d, v) \subseteq B
  <2> DEFINE list == Listed(d, v)
  <2>1. /\ list \in Seq(Ids(d)) /\ Deps(d, v) = {list[k] : k \in 1..Len(list)}
        /\ Deps(d, v) \subseteq Ids(d)
    BY ListedLemma DEF Searching
  <2>2. ASSUME NEW k \in 1..Len(list) PROVE c[list[k]] = "black"
    <3>1. n \in 1..n /\ s[n].next \in Nat /\ s[n].next > Len(list) /\ Len(list) \in Nat
      BY <1>1, <1>2, <1>3, <2>1
    <3>2. k < s[n].next
      BY <3>1
    <3> QED
      BY <1>1, <1>2, <3>1, <3>2 DEF Searching, Stacked, Looked
  <2> HIDE DEF list
  <2> QED
    BY <2>1, <2>2 DEF Black
<1>13. Blackened(d, e)
  <2> HIDE DEF B
  <2>1. (\A id \in B : Deps(d, id) \subseteq B) /\ AcyclicIn(d, B)
    BY DEF B, Searching, Blackened
  <2>2. \A id \in B \cup {v} : Deps(d, id) \subseteq B
    BY <1>12, <2>1
  <2>3. ASSUME NEW S \in SUBSET (B \cup {v}), S # {}
        PROVE  \E id \in S : Deps(d, id) \cap S = {}
    <3>1. CASE S \ {v} = {}
      BY <1>11, <2>2, <2>3, <3>1
    <3>2. CASE S \ {v} # {}
      <4>1. PICK id \in S \ {v} : Deps(d, id) \cap (S \ {v}) = {}
        BY <2>1, <3>2 DEF AcyclicIn
      <4>2. v \notin Deps(d, id)
        BY <1>11, <2>2, <4>1
      <4> QED
        BY <4>1, <4>2
    <3> QED
      BY <3>1, <3>2
  <2>4. AcyclicIn(d, B \cup {v})
    BY <2>3 DEF AcyclicIn
  <2> QED
    BY <1>11, <2>2, <2>4 DEF Blackened
<1> QED
  BY <1>4, <1>10, <1>13 DEF Searching

-----------------------------------------------------------------------------
(* The steps of the loader *)

\* The top call and what it looks at.
LEMMA LookingLemma ==
    ASSUME LInv, Looking
    PROVE  /\ Searching(doc, stack, color) /\ Len(stack) \in Nat \ {0}
           /\ Top = stack[Len(stack)] /\ Top.node \in Ids(doc)
           /\ MoreDeps => /\ NextDep \in Ids(doc) /\ LooksAt(doc, stack, NextDep)
           /\ ~MoreDeps => Top.next > Len(Listed(doc, Top.node))
<1> DEFINE n == Len(stack)
<1>1. Searching(doc, stack, color) /\ stack # <<>> /\ stack \in Seq(Frames(doc))
  BY DEF LInv, Looking, Searching
<1>2. n \in Nat \ {0} /\ n \in 1..n
  BY <1>1
<1>3. /\ Top = stack[n] /\ Top.node \in Ids(doc) /\ Top.next \in Nat \ {0}
      /\ List = Listed(doc, Top.node) /\ List \in Seq(Ids(doc))
  BY <1>1, <1>2, StackIsChain DEF Top, List, Listed
<1>4. MoreDeps => NextDep \in Ids(doc) /\ LooksAt(doc, stack, NextDep)
  <2> SUFFICES ASSUME MoreDeps
               PROVE  NextDep \in Ids(doc) /\ LooksAt(doc, stack, NextDep)
    OBVIOUS
  <2>1. Top.next \in 1..Len(List) /\ List[Top.next] \in Ids(doc)
    BY <1>3 DEF MoreDeps
  <2> QED
    BY <1>3, <2>1 DEF NextDep, LooksAt
<1>5. ~MoreDeps => Top.next > Len(Listed(doc, Top.node))
  BY <1>3 DEF MoreDeps
<1> QED
  BY <1>1, <1>2, <1>3, <1>4, <1>5

\* In the search LInv is the search's own invariant.
LEMMA SearchOn ==
    ASSUME LInv, verdict = "search", UNCHANGED <<doc, verdict>>,
           Searching(doc, stack', color')
    PROVE  LInv'
<1>1. Frame' = Frames(doc) /\ Ids(doc)' = Ids(doc)
  BY DEF Frame, Frames, Ids
<1>2. LoaderTypeOK'
  BY <1>1 DEF LInv, LoaderTypeOK, Searching, Colors
<1>3. AcceptedIsRunnable' /\ RefusedForAReason'
  BY DEF AcceptedIsRunnable, RefusedForAReason
<1> QED
  BY <1>2, <1>3 DEF LInv

\* A step that only gives a verdict, an error or that the document is accepted.
LEMMA VerdictGiven ==
    ASSUME LInv, UNCHANGED <<doc, color, stack>>,
           verdict' \in Errors \cup {"accepted"},
           verdict' = "cycle" => ~AcyclicIn(doc, Ids(doc)),
           verdict' = "recursion" => ChainIn(doc, MaxDepth),
           verdict' = "accepted" => Checked(doc) /\ AcyclicIn(doc, Ids(doc))
    PROVE  LInv'
<1>1. LoaderTypeOK'
  BY DEF LInv, LoaderTypeOK, Frame, Ids
<1>2. AcceptedIsRunnable'
  BY DEF AcceptedIsRunnable, AcyclicDoc, AcyclicIn, Checked, Errors
<1>3. RefusedForAReason'
  BY DEF RefusedForAReason, AcyclicDoc, AcyclicIn, HasChain, ChainIn
<1> QED
  BY <1>1, <1>2, <1>3 DEF LInv, Errors

\* A call of visit, made or refused by the interpreter.
LEMMA VisitStep ==
    ASSUME LInv, verdict = "search", NEW id \in Ids(doc), color[id] = "white",
           NEW below \in Seq(Frames(doc)), Visit(id, below), UNCHANGED doc,
           Len(below) = Len(stack),
           \A i \in 1..Len(stack) : below[i].node = stack[i].node,
           \A i \in 1..(Len(stack) - 1) : below[i].next = stack[i].next,
           Len(stack) > 0 => /\ LooksAt(doc, stack, id)
                             /\ below[Len(stack)].next = stack[Len(stack)].next + 1
    PROVE  LInv'
<1>0. Searching(doc, stack, color)
  BY DEF LInv
<1>1. CASE Len(below) = MaxDepth
  <2>1. verdict' = "recursion" /\ UNCHANGED <<color, stack>>
    BY <1>1 DEF Visit
  <2>2. Len(stack) = MaxDepth /\ Len(stack) > 0
    BY <1>1, SpecAssumption
  <2>3. ChainIn(doc, MaxDepth)
    BY <1>0, <2>2, TooDeep
  <2> QED
    BY <2>1, <2>3, VerdictGiven DEF Errors
<1>2. CASE Len(below) # MaxDepth
  <2> DEFINE frame == [node |-> id, next |-> 1]
             n == Len(stack)
  <2>1. /\ color' = [color EXCEPT ![id] = "grey"] /\ UNCHANGED verdict
        /\ stack' = Append(below, frame)
    BY <1>2 DEF Visit
  <2>2. frame \in Frames(doc) /\ frame.node = id /\ frame.next = 1
    BY DEF Frames
  <2>3. n \in Nat
    BY <1>0, StackIsChain
  <2>4. /\ stack' \in Seq(Frames(doc)) /\ Len(stack') = n + 1 /\ stack'[n + 1] = frame
        /\ \A i \in 1..n : stack'[i] = below[i]
    BY <2>1, <2>2, PushLemma
  <2> HIDE DEF frame, n
  <2>5. \A i \in 1..(n - 1) : i \in 1..n
    BY <2>3
  <2>6. n > 0 => n \in 1..n
    BY <2>3
  <2>7. Called(doc, stack, stack', id)
    BY <2>2, <2>3, <2>4, <2>5, <2>6 DEF Called, n
  <2>8. Searching(doc, stack', color')
    BY <1>0, <2>1, <2>4, <2>7, CallKeepsSearching
  <2> QED
    BY <2>1, <2>8, SearchOn
<1> QED
  BY <1>1, <1>2

\* The search begins.
LEMMA NothingVisited ==
    ASSUME NEW d \in Docs, ~UnknownDep(d), NEW c \in [Ids(d) -> Colors],
           \A id \in Ids(d) : c[id] = "white"
    PROVE  Searching(d, <<>>, c)
<1>1. <<>> \in Seq(Frames(d)) /\ Len(<<>>) = 0
  OBVIOUS
<1>2. 1..0 = {} /\ 1..(0 - 1) = {}
  OBVIOUS
<1>3. Stacked(d, <<>>, c)
  BY <1>1, <1>2 DEF Stacked, GreyIsStacked
<1>4. Black(d, c) = {}
  BY DEF Black
<1>5. Blackened(d, c)
  BY <1>4 DEF Blackened, AcyclicIn
<1> QED
  BY <1>1, <1>3, <1>5 DEF Searching

LEMMA LInvInit == Init => LInv
<1> SUFFICES ASSUME Init PROVE LInv
  OBVIOUS
<1>1. LoaderTypeOK
  BY DEF Init, LoaderTypeOK
<1> QED
  BY <1>1 DEF Init, LInv, AcceptedIsRunnable, RefusedForAReason

\* Every step keeps LInv.
LEMMA LInvStep == LInv /\ [Next]_vars => LInv'
<1> SUFFICES ASSUME LInv, [Next]_vars PROVE LInv'
  OBVIOUS
<1>0. stack \in Seq(Frames(doc)) /\ color \in [Ids(doc) -> Colors] /\ DOMAIN color = Ids(doc)
  BY DEF LInv, LoaderTypeOK, Frame, Frames, Colors
<1>1. CASE Parse
  <2>1. CASE Malformed(doc)
    BY <1>1, <2>1, VerdictGiven DEF Parse, Errors
  <2>2. CASE ~Malformed(doc)
    <3>1. verdict = "parse" /\ verdict' = "validate" /\ UNCHANGED <<doc, color, stack>>
      BY <1>1, <2>2 DEF Parse
    <3>2. LoaderTypeOK'
      BY <3>1 DEF LInv, LoaderTypeOK, Frame, Ids
    <3> QED
      BY <2>2, <3>1, <3>2 DEF LInv, AcceptedIsRunnable, RefusedForAReason
  <2> QED
    BY <2>1, <2>2
<1>2. CASE Validate
  <2>1. CASE Duplicate(doc) \/ UnknownDep(doc) \/ UnknownProvider(doc)
    BY <1>2, <2>1, VerdictGiven DEF Validate, Errors
  <2>2. CASE ~(Duplicate(doc) \/ UnknownDep(doc) \/ UnknownProvider(doc))
    <3>1. verdict = "validate" /\ verdict' = "search" /\ UNCHANGED <<doc, color, stack>>
      BY <1>2, <2>2 DEF Validate
    <3>2. LoaderTypeOK'
      BY <3>1 DEF LInv, LoaderTypeOK, Frame, Ids
    <3>3. Checked(doc) /\ stack = <<>> /\ \A id \in Ids(doc) : color[id] = "white"
      BY <2>2, <3>1 DEF LInv, Checked
    <3>4. Searching(doc, stack, color)
      BY <1>0, <2>2, <3>3, NothingVisited DEF LInv
    <3> QED
      BY <3>1, <3>2, <3>3, <3>4 DEF LInv, AcceptedIsRunnable, RefusedForAReason
  <2> QED
    BY <2>1, <2>2
<1>3. ASSUME NEW id \in DOMAIN color, Start(id) PROVE LInv'
  <2>1. stack = <<>> /\ Len(stack) = 0 /\ verdict = "search" /\ color[id] = "white"
    BY <1>3 DEF Start
  <2>2. Visit(id, stack) /\ UNCHANGED doc
    BY <1>3 DEF Start
  <2>3. /\ \A i \in 1..Len(stack) : stack[i].node = stack[i].node
        /\ \A i \in 1..(Len(stack) - 1) : stack[i].next = stack[i].next
        /\ ~(Len(stack) > 0)
    BY <2>1
  <2> QED
    BY <1>0, <2>1, <2>2, <2>3, VisitStep
<1>4. CASE MeetGrey
  <2>1. Looking /\ MoreDeps /\ color[NextDep] = "grey"
    BY <1>4 DEF MeetGrey
  <2>2. ~AcyclicIn(doc, Ids(doc))
    BY <2>1, LookingLemma, GreyMeansCycle
  <2> QED
    BY <1>4, <2>2, VerdictGiven DEF MeetGrey, Errors
<1>5. CASE MeetWhite
  <2> DEFINE below == Append(Pop, Done(Top))
             n == Len(stack)
  <2>1. Looking /\ MoreDeps /\ color[NextDep] = "white" /\ Visit(NextDep, below) /\ UNCHANGED doc
    BY <1>5 DEF MeetWhite
  <2>2. stack # <<>> /\ verdict = "search" /\ LoaderTypeOK /\ Frame = Frames(doc)
    BY <2>1 DEF Looking, LInv, Frame, Frames
  <2>3. below \in Seq(Frames(doc)) /\ Advanced(stack, below, n)
    BY <2>2, AdvanceLemma
  <2>4. NextDep \in Ids(doc) /\ LooksAt(doc, stack, NextDep)
    BY <2>1, LookingLemma
  <2> HIDE DEF below
  <2>5. /\ Len(below) = n
        /\ \A i \in 1..n : below[i].node = stack[i].node
        /\ \A i \in 1..(n - 1) : below[i].next = stack[i].next
        /\ below[n].next = stack[n].next + 1
    BY <2>3 DEF Advanced
  <2> QED
    BY <2>1, <2>2, <2>3, <2>4, <2>5, VisitStep
<1>6. CASE MeetBlack
  <2>1. Looking /\ MoreDeps /\ color[NextDep] = "black"
    BY <1>6 DEF MeetBlack
  <2>2. stack # <<>> /\ verdict = "search" /\ LoaderTypeOK /\ Frame = Frames(doc)
    BY <2>1 DEF Looking, LInv, Frame, Frames
  <2>3. stack' \in Seq(Frames(doc)) /\ Advanced(stack, stack', Len(stack))
    BY <1>6, <2>2, AdvanceLemma DEF MeetBlack
  <2>4. /\ Searching(doc, stack, color) /\ NextDep \in Ids(doc)
        /\ LooksAt(doc, stack, NextDep) /\ Len(stack) > 0
    BY <2>1, LookingLemma
  <2>5. Searching(doc, stack', color)
    BY <2>1, <2>3, <2>4, BlackKeepsSearching
  <2> QED
    BY <1>6, <2>2, <2>5, SearchOn DEF MeetBlack
<1>7. CASE LeaveNode
  <2> DEFINE n == Len(stack)
  <2>1. Looking /\ ~MoreDeps /\ stack' = Pop /\ color' = [color EXCEPT ![Top.node] = "black"]
    BY <1>7 DEF LeaveNode
  <2>2. /\ Searching(doc, stack, color) /\ n \in Nat \ {0} /\ Top = stack[n]
        /\ stack[n].next > Len(Listed(doc, stack[n].node))
    BY <2>1, LookingLemma
  <2>3. stack # <<>>
    BY <2>1 DEF Looking
  <2>4. /\ stack' \in Seq(Frames(doc)) /\ Len(stack') = n - 1
        /\ \A i \in 1..(n - 1) : stack'[i] = stack[i]
    BY <1>0, <2>1, <2>3, PopLemma DEF Pop
  <2>5. n > 0 /\ color' = [color EXCEPT ![stack[n].node] = "black"]
    BY <2>1, <2>2
  <2>6. Searching(doc, stack', color')
    BY <2>2, <2>4, <2>5, LeaveKeepsSearching
  <2> QED
    BY <1>7, <2>6, SearchOn DEF LeaveNode, Looking
<1>8. CASE Accept
  <2>1. /\ verdict = "search" /\ stack = <<>> /\ verdict' = "accepted"
        /\ UNCHANGED <<doc, color, stack>> /\ \A id \in Ids(doc) : color[id] # "white"
    BY <1>0, <1>8 DEF Accept
  <2>2. Searching(doc, stack, color) /\ Checked(doc)
    BY <2>1 DEF LInv
  <2>3. \A id \in Ids(doc) : color[id] # "grey"
    <3>1. 1..Len(stack) = {}
      BY <2>1
    <3> QED
      BY <2>2, <3>1 DEF Searching, Stacked, GreyIsStacked
  <2>4. Black(doc, color) = Ids(doc)
    BY <1>0, <2>1, <2>3 DEF Black, Colors
  <2>5. AcyclicIn(doc, Ids(doc))
    BY <2>2, <2>4 DEF Searching, Blackened
  <2> QED
    BY <2>1, <2>2, <2>5, VerdictGiven
<1>9. CASE UNCHANGED vars
  <2>1. UNCHANGED <<doc, verdict, color, stack>>
    BY <1>9 DEF vars
  <2>2. LoaderTypeOK'
    BY <2>1 DEF LInv, LoaderTypeOK, Frame, Ids
  <2>3. AcceptedIsRunnable'
    BY <2>1 DEF LInv, AcceptedIsRunnable, AcyclicDoc
  <2>4. RefusedForAReason'
    BY <2>1 DEF LInv, RefusedForAReason, AcyclicDoc, HasChain
  <2> QED
    BY <2>1, <2>2, <2>3, <2>4 DEF LInv
<1> QED
  BY <1>1, <1>2, <1>3, <1>4, <1>5, <1>6, <1>7, <1>8, <1>9 DEF Next, Step, Loaded

LEMMA LInvCorrect == Spec => []LInv
<1> QED
  BY LInvInit, LInvStep, PTL DEF Spec

-----------------------------------------------------------------------------
(* Theorems *)

\* The search for cycles (_assert_acyclic) is right for every document, in
\* whatever order nodes are started and however deep the interpreter lets it go:
\* what is accepted has no cycle and no other fault, what is refused for a cycle
\* has one, and what is refused for its depth has a chain that long.
THEOREM SearchIsSoundCorrect == Spec => []SearchIsSound
<1>1. LInv => SearchInv
  <2> SUFFICES ASSUME LInv, verdict = "search"
               PROVE  /\ {id \in Ids(doc) : color[id] = "grey"} = {stack[i].node : i \in DOMAIN stack}
                      /\ \A i \in 1..(Len(stack) - 1) : stack[i + 1].node \in Deps(doc, stack[i].node)
                      /\ \A id \in Ids(doc) : color[id] = "black" =>
                             \A d \in Deps(doc, id) : color[d] = "black"
    BY DEF SearchInv
  <2>1. Searching(doc, stack, color)
    BY DEF LInv
  <2>2. DOMAIN stack = 1..Len(stack)
    BY DEF LInv, LoaderTypeOK
  <2>3. {id \in Ids(doc) : color[id] = "grey"} = {stack[i].node : i \in 1..Len(stack)}
    <3>1. \A i \in 1..Len(stack) : stack[i].node \in Ids(doc) /\ color[stack[i].node] = "grey"
      BY <2>1, StackIsChain
    <3> QED
      BY <2>1, <3>1 DEF Searching, Stacked, GreyIsStacked
  <2>4. ASSUME NEW id \in Ids(doc), color[id] = "black", NEW d \in Deps(doc, id)
        PROVE  color[d] = "black"
    BY <2>1, <2>4 DEF Searching, Blackened, Black
  <2> QED
    BY <2>1, <2>2, <2>3, <2>4, StackIsChain
<1>2. LInv => SearchIsSound
  BY <1>1 DEF LInv, SearchIsSound
<1> QED
  BY <1>2, LInvCorrect, PTL

\* Two readings of one retry object: none in both, or two that grow alike.
SameBut(p, q) ==
    \/ p = <<>> /\ q = <<>>
    \/ p # <<>> /\ q # <<>> /\ Growth(p[1]) = Growth(q[1])

\* A retry object that says how long to wait and whether with jitter, or none, reads
\* the same but for a backoff without a name.
LEMMA SameRetry ==
    ASSUME NEW r, r.base.form = "absent" => r.base = Absent,
           r.given => r.base # Absent /\ r.jitter # <<>>
    PROVE  SameBut(GoReadRetry(r), ReadRetry(r))
<1>1. CASE ~r.given
  BY <1>1 DEF GoReadRetry, ReadRetry, IsGiven, SameBut
<1>2. CASE r.given
  <2>1. r.base.form # "absent" /\ IsGiven(r)
    BY <1>2 DEF IsGiven, EmptyRetry, RetryObject
  <2>2. ParseDuration(r.base) = <<r.base.ms>> /\ <<r.base.ms>> # <<>>
    BY <2>1 DEF ParseDuration
  <2>3. OrElse(ParseDuration(r.base), 0) = OrElse(ParseDuration(r.base), HalfASecond)
    BY <2>2 DEF OrElse
  <2>4. OrElse(r.jitter, FALSE) = OrElse(r.jitter, TRUE)
    BY <1>2 DEF OrElse
  <2>5. PICK max, base, jitter, b, c :
          /\ GoReadRetry(r) = <<[max |-> max, backoff |-> b, base |-> base, jitter |-> jitter]>>
          /\ ReadRetry(r) = <<[max |-> max, backoff |-> c, base |-> base, jitter |-> jitter]>>
          /\ b = OrElse(r.backoff, "unnamed") /\ c = OrElse(r.backoff, "exponential")
    BY <1>2, <2>1, <2>3, <2>4 DEF GoReadRetry, ReadRetry
  <2>6. b = c \/ (b = "unnamed" /\ c = "exponential")
    BY <2>5 DEF OrElse
  <2>7. Growth(GoReadRetry(r)[1]) = Growth(ReadRetry(r)[1])
    BY <2>5, <2>6 DEF Growth
  <2> QED
    BY <2>5, <2>7 DEF SameBut
<1> QED
  BY <1>1, <1>2

LEMMA SameTimeout == ASSUME NEW t, NEW d PROVE GoTimeout(t, d) = Timeout(t, d)
<1>1. CASE t.timeout.form = "absent"
  BY <1>1 DEF GoTimeout, Timeout, ParseDuration
<1>2. CASE t.timeout.form # "absent"
  <2>1. ParseDuration(t.timeout) = <<t.timeout.ms>> /\ <<t.timeout.ms>> # <<>>
    BY <1>2 DEF ParseDuration
  <2> QED
    BY <1>2, <2>1 DEF GoTimeout, Timeout
<1> QED
  BY <1>1, <1>2

\* Every document that leaves nothing open and that the Python loader accepts
\* (from_dict, validate) the Go engine accepts too (Parse), as the same workflow,
\* whatever mixture of defaults and policies of tasks it has.
THEOREM SameReadingCorrect == Spec => []SameReading
<1>1. LInv => SameReading
  <2> SUFFICES ASSUME LInv, verdict = "accepted", Explicit(doc)
               PROVE  ~GoRefuses(doc) /\ GoWorkflow(doc) = Workflow(doc)
    BY DEF SameReading
  <2>1. ~GoRefuses(doc)
    BY DEF LInv, Checked, Explicit, GoRefuses
  <2>2. \A x \in Durations(doc) : x.form = "absent" => x = Absent
    BY SpecAssumption DEF LInv
  <2>3. SameBut(GoReadRetry(doc.retry), ReadRetry(doc.retry))
    <3>1. doc.retry.base \in Durations(doc)
      BY DEF Durations
    <3>2. doc.retry.given => doc.retry.base # Absent /\ doc.retry.jitter # <<>>
      BY DEF Explicit
    <3> QED
      BY <2>2, <3>1, <3>2, SameRetry
  <2>4. ASSUME NEW i \in DOMAIN doc.tasks
        PROVE  SameBut(GoReadRetry(doc.tasks[i].retry), ReadRetry(doc.tasks[i].retry))
    <3>1. doc.tasks[i].retry.base \in Durations(doc)
      BY DEF Durations
    <3>2. doc.tasks[i].retry.given =>
            doc.tasks[i].retry.base # Absent /\ doc.tasks[i].retry.jitter # <<>>
      BY DEF Explicit
    <3> QED
      BY <2>2, <3>1, <3>2, SameRetry
  <2>5. \A i \in DOMAIN doc.tasks :
          /\ GoTimeout(doc.tasks[i], doc) = Timeout(doc.tasks[i], doc)
          /\ Growth(OrElse(GoReadRetry(doc.tasks[i].retry),
                           OrElse(GoReadRetry(doc.retry), PlainRetry)))
               = Growth(Retry(doc.tasks[i], doc))
    BY <2>3, <2>4, SameTimeout DEF Retry, SameBut, OrElse
  <2>6. (IF Slots(doc) > 0 THEN Slots(doc) ELSE 8) = Slots(doc)
    BY DEF Explicit
  <2>7. GoWorkflow(doc) = Workflow(doc)
    BY <2>5, <2>6 DEF GoWorkflow, Workflow
  <2> QED
    BY <2>1, <2>7
<1> QED
  BY <1>1, LInvCorrect, PTL

-----------------------------------------------------------------------------
(* Least and greatest numbers, and functions defined along an order *)

LessThan == {ss \in Nat \X Nat : ss[1] < ss[2]}

\* Every set of natural numbers has a least one, which is how the proofs below
\* go by induction.
LEMMA LeastNat ==
    ASSUME NEW S, S \subseteq Nat, S # {}
    PROVE  \E x \in S : \A y \in S : x <= y
<1>1. IsWellFoundedOn(LessThan, Nat)
  BY NatLessThanWellFounded DEF OpToRel, LessThan
<1>2. PICK x \in S : \A y \in S : ~(<<y, x>> \in LessThan)
  BY <1>1, WFMin
<1>3. ASSUME NEW y \in S, y < x
      PROVE  FALSE
  <2> DEFINE p == <<y, x>>
  <2>1. p \in Nat \X Nat /\ p[1] = y /\ p[2] = x
    OBVIOUS
  <2> HIDE DEF p
  <2>2. p \in LessThan
    BY <1>3, <2>1 DEF LessThan
  <2> QED
    BY <1>2, <2>2 DEF p
<1> QED
  BY <1>3

LEMMA MinLemma ==
    ASSUME NEW S, S \subseteq Nat, S # {}
    PROVE  Min(S) \in S
BY LeastNat DEF Min

\* A finite set of numbers is bounded.
LEMMA BoundedLemma ==
    ASSUME NEW n \in Nat, NEW f \in [1..n -> Nat]
    PROVE  \E b \in Nat : \A i \in 1..n : f[i] <= b
<1> DEFINE Good(k) == \E b \in Nat : \A i \in 1..k : f[i] <= b
           Bad == {k \in 0..n : ~Good(k)}
<1>1. Good(0)
  OBVIOUS
<1>2. ASSUME NEW k \in 1..n, Good(k - 1)
      PROVE  Good(k)
  <2>1. PICK b \in Nat : \A i \in 1..(k - 1) : f[i] <= b
    BY <1>2
  <2>2. f[k] \in Nat /\ \A i \in 1..k : i \in 1..(k - 1) \/ i = k
    OBVIOUS
  <2>3. \A i \in 1..k : f[i] <= b + f[k]
    <3> TAKE i \in 1..k
    <3>1. f[i] \in Nat
      OBVIOUS
    <3> QED
      BY <2>1, <2>2, <3>1
  <2>4. b + f[k] \in Nat
    BY <2>2
  <2> QED
    BY <2>3, <2>4
<1> HIDE DEF Good
<1>3. CASE Bad = {}
  <2>1. Good(n)
    BY <1>3
  <2> QED
    BY <2>1 DEF Good
<1>4. CASE Bad # {}
  <2>0. Bad \subseteq Nat
    OBVIOUS
  <2>1. PICK k \in Bad : \A j \in Bad : k <= j
    <3> HIDE DEF Bad
    <3> QED
      BY <1>4, <2>0, LeastNat
  <2>2. k # 0 /\ k \in 0..n
    BY <1>1
  <2>3. k - 1 \in 0..n /\ k - 1 \notin Bad
    BY <2>1, <2>2
  <2> QED
    BY <1>2, <2>2, <2>3
<1> QED
  BY <1>3, <1>4

LEMMA MaxLemma ==
    ASSUME NEW S, S \subseteq Nat, S # {}, IsFiniteSet(S)
    PROVE  Max(S) \in S /\ \A y \in S : y <= Max(S)
<1>1. PICK n \in Nat : ExistsSurjection(1..n, S)
  BY FS_NatSurjection
<1>2. PICK f \in [1..n -> S] : \A y \in S : \E i \in 1..n : f[i] = y
  BY <1>1 DEF ExistsSurjection, Surjection
<1> DEFINE Bounds == {b \in Nat : \A y \in S : y <= b}
<1>3. Bounds # {}
  <2>1. PICK b \in Nat : \A i \in 1..n : f[i] <= b
    BY BoundedLemma
  <2> QED
    BY <1>2, <2>1
<1>4. PICK b \in Bounds : \A e \in Bounds : b <= e
  <2>1. Bounds \subseteq Nat
    OBVIOUS
  <2> QED
    BY <1>3, <2>1, LeastNat
<1>5. b \in S
  <2> SUFFICES ASSUME b \notin S
               PROVE  FALSE
    OBVIOUS
  <2>1. PICK y \in S : TRUE
    OBVIOUS
  <2>2. \A e \in S : e < b
    OBVIOUS
  <2>3. b - 1 \in Nat /\ \A e \in S : e <= b - 1
    BY <2>1, <2>2
  <2> QED
    BY <1>4, <2>3
<1>6. \E x \in S : \A y \in S : x >= y
  BY <1>5
<1> QED
  BY <1>6 DEF Max

\* What is followed has no way back: every set of nodes has one that follows none
\* of the set.
NoWayBack(N, after) == \A S \in SUBSET N : S # {} => \E x \in S : after[x] \cap S = {}

\* The rule G of a recursive definition asks for what the node follows only.
AsksBack(N, V, after, G) ==
    \A x \in N : \A f, g \in [N -> V] :
        (\A y \in after[x] : f[y] = g[y]) => G[<<x, f>>] = G[<<x, g>>]

\* The solution of a recursive definition up to the nodes of C.
Solves(f, C, N, V, after, G) ==
    /\ f \in [N -> V] /\ C \subseteq N
    /\ \A x \in C : after[x] \subseteq C /\ f[x] = G[<<x, f>>]

LEMMA SolvesOnce ==
    ASSUME NEW N, NEW V, NEW after, NEW G,
           NoWayBack(N, after), AsksBack(N, V, after, G),
           NEW f, NEW g, NEW C, NEW D,
           Solves(f, C, N, V, after, G), Solves(g, D, N, V, after, G)
    PROVE  \A x \in C \cap D : f[x] = g[x]
<1> DEFINE Bad == {x \in C \cap D : f[x] # g[x]}
<1> SUFFICES ASSUME Bad # {}
             PROVE  FALSE
  OBVIOUS
<1>1. Bad \in SUBSET N
  BY DEF Solves
<1>2. PICK x \in Bad : after[x] \cap Bad = {}
  BY <1>1 DEF NoWayBack
<1>3. \A y \in after[x] : f[y] = g[y]
  BY <1>2 DEF Solves
<1>4. x \in N /\ f \in [N -> V] /\ g \in [N -> V] /\ f[x] = G[<<x, f>>] /\ g[x] = G[<<x, g>>]
  BY DEF Solves
<1>5. G[<<x, f>>] = G[<<x, g>>]
  BY <1>3, <1>4 DEF AsksBack
<1> QED
  BY <1>4, <1>5

\* A recursive definition of values of V, and that it defines a function.
Recursion(N, V, after, G) ==
    /\ NoWayBack(N, after) /\ \A x \in N : after[x] \subseteq N
    /\ V # {} /\ \A x \in N : \A f \in [N -> V] : G[<<x, f>>] \in V
    /\ AsksBack(N, V, after, G)

Defines(N, V, G) == \E f \in [N -> V] : \A x \in N : f[x] = G[<<x, f>>]

LEMMA RecursionLemma ==
    ASSUME NEW N, NEW V, NEW after, NEW G, Recursion(N, V, after, G)
    PROVE  Defines(N, V, G)
<1> DEFINE Solution(f, C) == Solves(f, C, N, V, after, G)
           Value(x, v) == \E f, C : Solution(f, C) /\ x \in C /\ v = f[x]
           Solved == {x \in N : \E v \in V : Value(x, v)}
           h == [x \in N |-> CHOOSE v \in V : x \in Solved => Value(x, v)]
<1>0. NoWayBack(N, after) /\ AsksBack(N, V, after, G)
  BY DEF Recursion
<1>1. h \in [N -> V] /\ \A x \in Solved : Value(x, h[x])
  BY DEF Recursion
<1>2. ASSUME NEW f, NEW C, Solution(f, C), NEW x \in C
      PROVE  x \in Solved /\ h[x] = f[x]
  <2>1. x \in N /\ f[x] \in V /\ Value(x, f[x])
    BY <1>2 DEF Solves
  <2>2. PICK g, D : Solution(g, D) /\ x \in D /\ h[x] = g[x]
    BY <1>1, <2>1
  <2>3. \A y \in C \cap D : f[y] = g[y]
    BY <1>0, <1>2, <2>2, SolvesOnce
  <2> QED
    BY <1>2, <2>1, <2>2, <2>3
<1> HIDE DEF h
<1>3. Solution(h, Solved)
  <2>1. ASSUME NEW x \in Solved
        PROVE  after[x] \subseteq Solved /\ h[x] = G[<<x, h>>]
    <3>1. PICK f, C : Solution(f, C) /\ x \in C /\ h[x] = f[x]
      BY <1>1
    <3>2. after[x] \subseteq C /\ f \in [N -> V] /\ f[x] = G[<<x, f>>]
      BY <3>1 DEF Solves
    <3>3. \A y \in after[x] : y \in Solved /\ h[y] = f[y]
      BY <1>2, <3>1, <3>2
    <3>4. G[<<x, h>>] = G[<<x, f>>]
      BY <1>0, <1>1, <3>2, <3>3 DEF AsksBack
    <3> QED
      BY <3>1, <3>2, <3>3, <3>4
  <2>2. Solved \subseteq N
    OBVIOUS
  <2> HIDE DEF Solved
  <2> QED
    BY <1>1, <2>1, <2>2 DEF Solves
<1>4. ASSUME NEW x \in N, x \notin Solved, after[x] \subseteq Solved
      PROVE  FALSE
  <2> DEFINE v == G[<<x, h>>]
             g == [h EXCEPT ![x] = v]
             C == Solved \cup {x}
  <2>1. v \in V
    BY <1>1 DEF Recursion
  <2>2. g \in [N -> V] /\ g[x] = v /\ \A y \in Solved : g[y] = h[y]
    BY <1>1, <1>4, <2>1
  <2> HIDE DEF g
  <2>3. ASSUME NEW y \in C
        PROVE  after[y] \subseteq C /\ g[y] = G[<<y, g>>]
    <3>1. y \in N /\ after[y] \subseteq Solved /\ g[y] = G[<<y, h>>]
      BY <1>3, <1>4, <2>2 DEF Solves
    <3>2. \A z \in after[y] : g[z] = h[z]
      BY <2>2, <3>1
    <3>3. G[<<y, g>>] = G[<<y, h>>]
      BY <1>0, <1>1, <2>2, <3>1, <3>2 DEF AsksBack
    <3> QED
      BY <3>1, <3>3
  <2>4. Solution(g, C)
    <3>1. C \subseteq N
      OBVIOUS
    <3> HIDE DEF C
    <3> QED
      BY <2>2, <2>3, <3>1 DEF Solves
  <2> QED
    BY <1>2, <1>4, <2>4
<1>5. Solved = N
  <2> SUFFICES ASSUME N \ Solved # {}
               PROVE  FALSE
    OBVIOUS
  <2>1. PICK x \in N \ Solved : after[x] \cap (N \ Solved) = {}
    BY <1>0 DEF NoWayBack
  <2>2. after[x] \subseteq N
    BY DEF Recursion
  <2> QED
    BY <1>4, <2>1, <2>2
<1> HIDE DEF Solved
<1>6. \A x \in N : h[x] = G[<<x, h>>]
  BY <1>3, <1>5 DEF Solves
<1>7. h \in [N -> V]
  BY <1>1
<1> QED
  BY <1>6, <1>7 DEF Defines

-----------------------------------------------------------------------------
(* Runs and what their tasks cost *)

\* A run of a workflow that was accepted.
RunOf(d, sp) ==
    d \in Docs /\ ~UnknownDep(d) /\ AcyclicIn(d, Ids(d)) /\ sp \in Runs(d)

LEMMA FiniteImage ==
    ASSUME NEW S, IsFiniteSet(S), NEW f
    PROVE  IsFiniteSet({f[x] : x \in S})
<1> DEFINE T == {f[x] : x \in S}
           g == [x \in S |-> f[x]]
<1>1. g \in Surjection(S, T)
  BY DEF Surjection
<1> QED
  BY <1>1, FS_Surjection

LEMMA FiniteIds == ASSUME NEW d \in Docs PROVE IsFiniteSet(Ids(d))
<1> DEFINE n == Len(d.tasks)
           f == [i \in 1..n |-> d.tasks[i].id]
<1>1. IsSeq(d.tasks)
  BY SpecAssumption
<1>2. DOMAIN d.tasks = 1..n /\ n \in Nat
  BY <1>1 DEF IsSeq
<1>3. IsFiniteSet(1..n)
  BY <1>2, FS_Interval
<1>4. Ids(d) = {f[i] : i \in 1..n}
  BY <1>2 DEF Ids
<1> HIDE DEF f
<1>5. IsFiniteSet({f[i] : i \in 1..n})
  BY <1>3, FiniteImage
<1> QED
  BY <1>4, <1>5

LEMMA RunFacts ==
    ASSUME NEW d, NEW sp, RunOf(d, sp)
    PROVE  /\ DOMAIN sp = Ids(d) /\ OkTasks(sp) \subseteq Ids(d) /\ None \notin Ids(d)
           /\ IsFiniteSet(Ids(d)) /\ IsFiniteSet(OkTasks(sp))
           /\ \A id \in Ids(d) : /\ IsSpan(sp[id]) /\ sp[id].duration_ms \in Nat
                                 /\ OkDeps(d, sp, id) \subseteq OkTasks(sp)
                                 /\ OkDeps(d, sp, id) \subseteq Deps(d, id)
                                 /\ IsFiniteSet(OkDeps(d, sp, id))
                                 /\ Ok(sp, id) => Deps(d, id) \subseteq OkTasks(sp)
<1>1. d \in Docs /\ ~UnknownDep(d) /\ sp \in [Ids(d) -> Succeeded \cup Unsuccessful]
  BY DEF RunOf, Runs
<1>2. DOMAIN sp = Ids(d) /\ OkTasks(sp) \subseteq Ids(d)
  BY <1>1 DEF OkTasks
<1>3. None \notin Ids(d)
  BY <1>1, ReportAssumption
<1>4. IsFiniteSet(Ids(d)) /\ \A S \in SUBSET Ids(d) : IsFiniteSet(S)
  BY <1>1, FiniteIds, FS_Subset
<1>5. ASSUME NEW id \in Ids(d)
      PROVE  /\ IsSpan(sp[id]) /\ sp[id].duration_ms \in Nat
             /\ OkDeps(d, sp, id) \subseteq OkTasks(sp)
             /\ OkDeps(d, sp, id) \subseteq Deps(d, id)
             /\ Ok(sp, id) => Deps(d, id) \subseteq OkTasks(sp)
  <2>1. sp[id] \in Succeeded \cup Unsuccessful
    BY <1>1
  <2>2. IsSpan(sp[id]) /\ sp[id].duration_ms \in Nat
    BY <2>1, ReportAssumption DEF IsSpan
  <2>3. Deps(d, id) \subseteq Ids(d)
    BY <1>1, ListedLemma
  <2>4. OkDeps(d, sp, id) \subseteq OkTasks(sp) /\ OkDeps(d, sp, id) \subseteq Deps(d, id)
    BY <1>2, <2>3 DEF OkDeps, OkTasks
  <2>5. Ok(sp, id) => OkDeps(d, sp, id) = Deps(d, id)
    BY DEF RunOf, Runs
  <2> QED
    BY <2>2, <2>4, <2>5
<1>6. \A id \in Ids(d) : IsFiniteSet(OkDeps(d, sp, id))
  <2> TAKE id \in Ids(d)
  <2>1. OkDeps(d, sp, id) \in SUBSET Ids(d)
    BY <1>2, <1>5
  <2> QED
    BY <1>4, <2>1
<1> QED
  BY <1>2, <1>3, <1>4, <1>5, <1>6

\* What the dependencies of a task may cost at most, if f says what each costs.
Most(d, sp, f, id) == Max({0} \cup {f[o] : o \in OkDeps(d, sp, id)})

LEMMA MostLemma ==
    ASSUME NEW d, NEW sp, RunOf(d, sp), NEW f, NEW id \in Ids(d),
           \A o \in OkDeps(d, sp, id) : f[o] \in Nat
    PROVE  /\ Most(d, sp, f, id) \in Nat
           /\ \A o \in OkDeps(d, sp, id) : f[o] <= Most(d, sp, f, id)
           /\ \/ Most(d, sp, f, id) = 0
              \/ \E o \in OkDeps(d, sp, id) : f[o] = Most(d, sp, f, id)
<1> DEFINE S == {f[o] : o \in OkDeps(d, sp, id)}
<1>1. IsFiniteSet(S)
  BY RunFacts, FiniteImage
<1>2. IsFiniteSet({0} \cup S)
  BY <1>1, FS_Singleton, FS_Union
<1>3. {0} \cup S \subseteq Nat
  OBVIOUS
<1>4. Max({0} \cup S) \in {0} \cup S /\ \A y \in {0} \cup S : y <= Max({0} \cup S)
  <2> HIDE DEF S
  <2> QED
    BY <1>2, <1>3, MaxLemma
<1> QED
  BY <1>3, <1>4 DEF Most

Own(sp, id) == IF Ok(sp, id) THEN sp[id].duration_ms ELSE 0

LEMMA DepsNoWayBack ==
    ASSUME NEW d, NEW sp, RunOf(d, sp),
           NEW after, \A id \in Ids(d) : after[id] \subseteq Deps(d, id)
    PROVE  NoWayBack(Ids(d), after) /\ \A id \in Ids(d) : after[id] \subseteq Ids(d)
<1>1. \A id \in Ids(d) : Deps(d, id) \subseteq Ids(d)
  BY ListedLemma DEF RunOf
<1>2. \A S \in SUBSET Ids(d) : S # {} => \E id \in S : Deps(d, id) \cap S = {}
  BY DEF RunOf, AcyclicIn
<1> QED
  BY <1>1, <1>2 DEF NoWayBack

\* The recursion of cost ends: what a task costs is what it took, and what the
\* dearest of its dependencies costs.
LEMMA CostLemma ==
    ASSUME NEW d, NEW sp, RunOf(d, sp)
    PROVE  \A id \in Ids(d) :
               /\ Cost(d, sp)[id] \in Nat
               /\ Cost(d, sp)[id] = Own(sp, id) + Most(d, sp, Cost(d, sp), id)
<1> DEFINE N == Ids(d)
           after == [id \in N |-> OkDeps(d, sp, id)]
           Rule(f, id) == Own(sp, id) + Most(d, sp, f, id)
           G == [q \in N \X [N -> Nat] |-> Rule(q[2], q[1])]
<1>1. \A id \in N : after[id] \subseteq N /\ Own(sp, id) \in Nat
  BY RunFacts DEF Own
<1>2. NoWayBack(N, after)
  BY RunFacts, DepsNoWayBack
<1>3. ASSUME NEW id \in N, NEW f \in [N -> Nat]
      PROVE  G[<<id, f>>] = Rule(f, id) /\ Rule(f, id) \in Nat
  <2>1. Most(d, sp, f, id) \in Nat
    BY <1>1, MostLemma
  <2> QED
    BY <1>1, <2>1
<1>4. ASSUME NEW id \in N, NEW f \in [N -> Nat], NEW g \in [N -> Nat],
             \A o \in after[id] : f[o] = g[o]
      PROVE  G[<<id, f>>] = G[<<id, g>>]
  <2>1. {f[o] : o \in OkDeps(d, sp, id)} = {g[o] : o \in OkDeps(d, sp, id)}
    BY <1>4
  <2>2. Most(d, sp, f, id) = Most(d, sp, g, id)
    BY <2>1 DEF Most
  <2> QED
    BY <1>3, <2>2
<1>5. Defines(N, Nat, G)
  <2>1. \A id \in N : \A f \in [N -> Nat] : G[<<id, f>>] \in Nat
    BY <1>3
  <2> HIDE DEF G, after, N
  <2>2. AsksBack(N, Nat, after, G)
    BY <1>4 DEF AsksBack
  <2>3. Recursion(N, Nat, after, G)
    BY <1>1, <1>2, <2>1, <2>2 DEF Recursion
  <2> QED
    BY <2>3, RecursionLemma
<1>6. PICK f \in [N -> Nat] : \A id \in N : f[id] = Rule(f, id)
  BY <1>3, <1>5 DEF Defines
<1>7. f = [id \in DOMAIN sp |-> (IF Ok(sp, id) THEN sp[id].duration_ms ELSE 0)
                                  + Max({0} \cup {f[o] : o \in OkDeps(d, sp, id)})]
  BY <1>6, RunFacts DEF Own, Most
<1> DEFINE c == Cost(d, sp)
<1>8. c = [id \in DOMAIN sp |-> (IF Ok(sp, id) THEN sp[id].duration_ms ELSE 0)
                                  + Max({0} \cup {c[o] : o \in OkDeps(d, sp, id)})]
  BY <1>7 DEF Cost
<1> HIDE DEF c
<1>9. \A id \in N : c[id] = Rule(c, id)
  BY <1>8, RunFacts DEF Own, Most
<1> DEFINE Bad == {id \in N : c[id] \notin Nat}
<1>10. CASE Bad # {}
  <2>1. PICK id \in Bad : after[id] \cap Bad = {}
    BY <1>2, <1>10 DEF NoWayBack
  <2>2. \A o \in OkDeps(d, sp, id) : c[o] \in Nat
    BY <1>1, <2>1
  <2>3. Most(d, sp, c, id) \in Nat
    BY <2>2, MostLemma
  <2> QED
    BY <1>1, <1>9, <2>1, <2>3
<1> QED
  BY <1>9, <1>10 DEF c

-----------------------------------------------------------------------------
(* What the search for the path follows *)

LEMMA FirstListedLemma ==
    ASSUME NEW d \in Docs, ~UnknownDep(d), NEW id \in Ids(d),
           NEW among, among # {}, among \subseteq Deps(d, id)
    PROVE  FirstListed(d, id, among) \in among
<1> DEFINE list == Listed(d, id)
           S == {i \in DOMAIN list : list[i] \in among}
<1>1. list \in Seq(Ids(d)) /\ Deps(d, id) = {list[k] : k \in 1..Len(list)}
  BY ListedLemma
<1>2. DOMAIN list = 1..Len(list) /\ Len(list) \in Nat
  BY <1>1
<1>3. S \subseteq Nat /\ S # {}
  BY <1>1, <1>2
<1>4. Min(S) \in S
  <2> HIDE DEF S
  <2> QED
    BY <1>3, MinLemma
<1> QED
  BY <1>4 DEF FirstListed, Listed

\* Prev follows a dependency that costs most, or none if that is nothing.
LEMMA PrevLemma ==
    ASSUME NEW d, NEW sp, RunOf(d, sp), NEW id \in Ids(d)
    PROVE  LET c == Cost(d, sp)
           IN  \/ Prev(d, sp, id) = None /\ Most(d, sp, c, id) = 0
               \/ /\ Prev(d, sp, id) \in OkDeps(d, sp, id)
                  /\ c[Prev(d, sp, id)] = Most(d, sp, c, id)
<1> DEFINE c == Cost(d, sp)
           most == Most(d, sp, c, id)
           dearest == {o \in OkDeps(d, sp, id) : c[o] = most}
<1>0. d \in Docs /\ ~UnknownDep(d)
  BY DEF RunOf
<1>1. OkDeps(d, sp, id) \subseteq Ids(d) /\ OkDeps(d, sp, id) \subseteq Deps(d, id)
  BY RunFacts
<1>2. \A o \in OkDeps(d, sp, id) : c[o] \in Nat
  BY <1>1, CostLemma
<1>3. most = 0 \/ dearest # {}
  BY <1>2, MostLemma
<1>4. Prev(d, sp, id) = IF most = 0 THEN None ELSE FirstListed(d, id, dearest)
  BY DEF Prev, Most
<1>5. CASE most = 0
  BY <1>4, <1>5
<1>6. CASE most # 0
  <2>1. dearest # {} /\ dearest \subseteq Deps(d, id)
    BY <1>1, <1>3, <1>6
  <2>2. FirstListed(d, id, dearest) \in dearest
    <3> HIDE DEF dearest
    <3> QED
      BY <1>0, <2>1, FirstListedLemma
  <2> QED
    BY <1>4, <1>6, <2>2
<1> QED
  BY <1>5, <1>6

\* If every task took some time the two engines follow the same dependency.
LEMMA SamePrev ==
    ASSUME NEW d, NEW sp, RunOf(d, sp), \A o \in OkTasks(sp) : sp[o].duration_ms > 0,
           NEW id \in Ids(d)
    PROVE  GoPrev(d, sp, id) = Prev(d, sp, id)
<1> DEFINE c == Cost(d, sp)
           S == {c[o] : o \in OkDeps(d, sp, id)}
<1>1. OkDeps(d, sp, id) \subseteq OkTasks(sp) /\ OkDeps(d, sp, id) \subseteq Ids(d)
  BY RunFacts
<1>2. \A o \in OkDeps(d, sp, id) : c[o] \in Nat /\ c[o] > 0
  <2> TAKE o \in OkDeps(d, sp, id)
  <2>1. c[o] \in Nat /\ c[o] = Own(sp, o) + Most(d, sp, c, o)
    BY <1>1, CostLemma
  <2>2. Own(sp, o) \in Nat /\ Own(sp, o) > 0
    BY <1>1, RunFacts DEF Own, OkTasks
  <2>3. Most(d, sp, c, o) \in Nat
    <3>1. \A e \in OkDeps(d, sp, o) : c[e] \in Nat
      BY <1>1, RunFacts, CostLemma
    <3> QED
      BY <1>1, <3>1, MostLemma
  <2> QED
    BY <2>1, <2>2, <2>3
<1>3. CASE OkDeps(d, sp, id) = {}
  <2>1. Most(d, sp, c, id) = 0
    BY <1>2, <1>3, MostLemma
  <2>2. Prev(d, sp, id) = None
    BY <2>1 DEF Prev, Most
  <2> QED
    BY <1>3, <2>2 DEF GoPrev
<1>4. CASE OkDeps(d, sp, id) # {}
  <2> DEFINE most == Most(d, sp, c, id)
  <2>1. most \in Nat /\ (\A x \in S : x <= most) /\ (most = 0 \/ most \in S)
    BY <1>2, MostLemma
  <2>2. S # {} /\ \A x \in S : x \in Nat /\ x > 0
    BY <1>2, <1>4
  <2>3. most # 0 /\ most \in S
    BY <2>1, <2>2
  <2>4. Max(S) = most
    <3> HIDE DEF S, most
    <3>1. \A x \in S : (\A y \in S : x >= y) => x = most
      BY <2>1, <2>2, <2>3
    <3>2. \A y \in S : most >= y
      BY <2>1, <2>2, <2>3
    <3> QED
      BY <2>3, <3>1, <3>2 DEF Max
  <2>5. GoPrev(d, sp, id) = FirstListed(d, id, {o \in OkDeps(d, sp, id) : c[o] = most})
    BY <1>4, <2>4 DEF GoPrev
  <2> QED
    BY <2>3, <2>5 DEF Prev, Most
<1> QED
  BY <1>3, <1>4

-----------------------------------------------------------------------------
(* Chains *)

\* A chain of n tasks.
Linked(d, p, n) == \A i \in 1..(n - 1) : p[i] \in Deps(d, p[i + 1])

\* No chain comes to a task twice.
LEMMA NoRepeat ==
    ASSUME NEW d, AcyclicIn(d, Ids(d)), NEW n \in Nat, NEW p \in [1..n -> Ids(d)],
           Linked(d, p, n), NEW i \in 1..n, NEW j \in 1..n, i < j
    PROVE  p[i] # p[j]
<1> SUFFICES ASSUME p[i] = p[j]
             PROVE  FALSE
  OBVIOUS
<1> DEFINE S == {p[k] : k \in (i + 1)..j}
<1>1. S \in SUBSET Ids(d) /\ S # {}
  <2>1. j \in (i + 1)..j /\ \A k \in (i + 1)..j : k \in 1..n
    OBVIOUS
  <2> QED
    BY <2>1
<1>2. PICK k \in (i + 1)..j : Deps(d, p[k]) \cap S = {}
  <2>1. PICK x \in S : Deps(d, x) \cap S = {}
    <3> HIDE DEF S
    <3> QED
      BY <1>1 DEF AcyclicIn
  <2>2. PICK k \in (i + 1)..j : x = p[k]
    OBVIOUS
  <2> QED
    BY <2>1, <2>2
<1>3. k - 1 \in 1..(n - 1) /\ (k - 1) + 1 = k
  OBVIOUS
<1>4. p[k - 1] \in Deps(d, p[k])
  BY <1>3 DEF Linked
<1>5. p[k - 1] \in S
  <2>1. CASE k = i + 1
    <3>1. p[k - 1] = p[j] /\ j \in (i + 1)..j
      BY <2>1
    <3> QED
      BY <3>1
  <2>2. CASE k # i + 1
    <3>1. k - 1 \in (i + 1)..j
      BY <2>2
    <3> QED
      BY <3>1
  <2> QED
    BY <2>1, <2>2
<1> QED
  BY <1>2, <1>4, <1>5

Took(sp, S) == Cardinality(Milliseconds(sp, S))

\* One more task takes at most its own time longer, and exactly that if it is new.
LEMMA TookLemma ==
    ASSUME NEW sp, NEW S, IsFiniteSet(Milliseconds(sp, S)),
           NEW id, sp[id].duration_ms \in Nat
    PROVE  /\ IsFiniteSet(Milliseconds(sp, S \cup {id}))
           /\ Took(sp, S) \in Nat
           /\ Took(sp, S \cup {id}) \in Nat
           /\ Took(sp, S \cup {id}) <= Took(sp, S) + sp[id].duration_ms
           /\ id \notin S => Took(sp, S \cup {id}) = Took(sp, S) + sp[id].duration_ms
<1> DEFINE A == Milliseconds(sp, S)
           m == sp[id].duration_ms
           B == {id} \X (1..m)
<1>1. Milliseconds(sp, S \cup {id}) = A \cup B
  BY DEF Milliseconds
<1>2. IsFiniteSet(B) /\ Cardinality(B) = m
  <2>1. IsFiniteSet({id}) /\ Cardinality({id}) = 1
    BY FS_Singleton
  <2>2. IsFiniteSet(1..m) /\ Cardinality(1..m) = m
    <3>1. m \in Nat /\ m \in Int /\ 1 \in Int
      OBVIOUS
    <3> HIDE DEF m
    <3>2. Cardinality(1..m) = IF 1 > m THEN 0 ELSE m - 1 + 1
      BY <3>1, FS_Interval
    <3>3. IsFiniteSet(1..m)
      BY <3>1, FS_Interval
    <3> QED
      BY <3>1, <3>2, <3>3
  <2>3. IsFiniteSet(B) /\ Cardinality(B) = Cardinality({id}) * Cardinality(1..m)
    BY <2>1, <2>2, FS_Product
  <2> QED
    BY <2>1, <2>2, <2>3
<1>3. id \notin S => A \cap B = {}
  BY DEF Milliseconds
<1> HIDE DEF A, B
<1>4. /\ IsFiniteSet(A \cup B)
      /\ Cardinality(A \cup B) = Cardinality(A) + Cardinality(B) - Cardinality(A \cap B)
  BY <1>2, FS_Union DEF A
<1>5. IsFiniteSet(A \cap B) /\ Cardinality(A) \in Nat /\ Cardinality(A \cap B) \in Nat
  BY <1>2, FS_Intersection, FS_CardinalityType DEF A
<1>6. id \notin S => Cardinality(A \cap B) = 0
  BY <1>3, FS_EmptySet
<1>7. Took(sp, S) = Cardinality(A) /\ Took(sp, S \cup {id}) = Cardinality(A \cup B)
  BY <1>1 DEF A, Took
<1>8. m \in Nat /\ Cardinality(B) = m /\ IsFiniteSet(Milliseconds(sp, S \cup {id}))
  BY <1>1, <1>2, <1>4
<1> HIDE DEF m
<1>9. /\ Cardinality(A \cup B) \in Nat /\ Cardinality(A \cup B) <= Cardinality(A) + m
      /\ id \notin S => Cardinality(A \cup B) = Cardinality(A) + m
  <2>1. Cardinality(A \cup B) \in Nat
    BY <1>4, FS_CardinalityType
  <2> QED
    BY <1>4, <1>5, <1>6, <1>8, <2>1
<1> QED
  BY <1>5, <1>7, <1>8, <1>9 DEF m

LEMMA TookNothing ==
    ASSUME NEW sp
    PROVE  IsFiniteSet(Milliseconds(sp, {})) /\ Took(sp, {}) = 0
<1>1. Milliseconds(sp, {}) = {}
  BY DEF Milliseconds
<1> QED
  BY <1>1, FS_EmptySet DEF Took

\* No chain of tasks that succeeded takes longer than its last task costs.
LEMMA ChainCost ==
    ASSUME NEW d, NEW sp, RunOf(d, sp)
    PROVE  \A n \in Nat \ {0} : \A p \in [1..n -> OkTasks(sp)] :
               Linked(d, p, n) => /\ IsFiniteSet(Milliseconds(sp, {p[i] : i \in 1..n}))
                                  /\ Took(sp, {p[i] : i \in 1..n}) <= Cost(d, sp)[p[n]]
<1> DEFINE c == Cost(d, sp)
           Good(p, n) == /\ IsFiniteSet(Milliseconds(sp, {p[i] : i \in 1..n}))
                         /\ Took(sp, {p[i] : i \in 1..n}) <= c[p[n]]
           Wrong(id) == \E n \in Nat \ {0} : \E p \in [1..n -> OkTasks(sp)] :
                            Linked(d, p, n) /\ p[n] = id /\ ~Good(p, n)
           Bad == {id \in Ids(d) : Wrong(id)}
<1>0. OkTasks(sp) \subseteq Ids(d)
  BY RunFacts
<1>1. CASE Bad # {}
  <2>1. PICK id \in Bad : Deps(d, id) \cap Bad = {}
    <3>1. Bad \in SUBSET Ids(d)
      OBVIOUS
    <3> QED
      BY <1>1, <3>1 DEF RunOf, AcyclicIn
  <2>0. PICK n \in Nat \ {0} : \E p \in [1..n -> OkTasks(sp)] :
            Linked(d, p, n) /\ p[n] = id /\ ~Good(p, n)
    BY <2>1
  <2>2. PICK p \in [1..n -> OkTasks(sp)] : Linked(d, p, n) /\ p[n] = id /\ ~Good(p, n)
    BY <2>0
  <2>3. id \in Ids(d) /\ id \in OkTasks(sp)
    BY <2>2
  <2>4. /\ sp[id].duration_ms \in Nat /\ Own(sp, id) = sp[id].duration_ms
        /\ OkDeps(d, sp, id) \subseteq Ids(d) /\ Deps(d, id) \subseteq OkTasks(sp)
    BY <2>3, RunFacts DEF Own, OkTasks
  <2>5. c[id] \in Nat /\ c[id] = sp[id].duration_ms + Most(d, sp, c, id)
    BY <2>3, <2>4, CostLemma
  <2>6. /\ Most(d, sp, c, id) \in Nat
        /\ \A o \in OkDeps(d, sp, id) : c[o] \in Nat /\ c[o] <= Most(d, sp, c, id)
    BY <2>3, <2>4, CostLemma, MostLemma
  <2>7. CASE n = 1
    <3>1. {p[i] : i \in 1..n} = {} \cup {id}
      BY <2>2, <2>7
    <3>2. /\ IsFiniteSet(Milliseconds(sp, {} \cup {id}))
          /\ Took(sp, {} \cup {id}) \in Nat
          /\ Took(sp, {} \cup {id}) <= 0 + sp[id].duration_ms
      BY <2>4, TookNothing, TookLemma
    <3>3. Took(sp, {} \cup {id}) <= c[id]
      BY <2>4, <2>5, <2>6, <3>2
    <3>4. Good(p, n)
      BY <2>2, <3>1, <3>2, <3>3
    <3> QED
      BY <2>2, <3>4
  <2>8. CASE n # 1
    <3> DEFINE m == n - 1
               q == [i \in 1..m |-> p[i]]
               S == {q[i] : i \in 1..m}
               o == q[m]
    <3>1. m \in Nat \ {0} /\ q \in [1..m -> OkTasks(sp)] /\ m + 1 = n /\ o = p[m]
      BY <2>8
    <3>2. Linked(d, q, m)
      BY <2>2, <3>1 DEF Linked
    <3>3. o \in Deps(d, id)
      BY <2>2, <3>1 DEF Linked
    <3>4. o \in OkTasks(sp) /\ o \in OkDeps(d, sp, id) /\ o \in Ids(d)
      BY <2>4, <3>3, <1>0 DEF OkDeps, OkTasks
    <3>5. o \notin Bad
      BY <2>1, <3>3
    <3>6. {p[i] : i \in 1..n} = S \cup {id}
      <4>1. \A i \in 1..n : i \in 1..m \/ i = n
        BY <3>1
      <4>2. \A i \in 1..m : q[i] = p[i] /\ i \in 1..n
        BY <3>1
      <4>3. n \in 1..n
        OBVIOUS
      <4> HIDE DEF m, q
      <4> QED
        BY <2>2, <4>1, <4>2, <4>3
    <3> HIDE DEF Good, m, q
    <3>7. Good(q, m)
      BY <3>1, <3>2, <3>4, <3>5
    <3>8. IsFiniteSet(Milliseconds(sp, S)) /\ Took(sp, S) <= c[o]
      BY <3>7 DEF Good
    <3> HIDE DEF S
    <3>9. /\ IsFiniteSet(Milliseconds(sp, S \cup {id}))
          /\ Took(sp, S) \in Nat /\ Took(sp, S \cup {id}) \in Nat
          /\ Took(sp, S \cup {id}) <= Took(sp, S) + sp[id].duration_ms
      BY <2>4, <3>8, TookLemma
    <3>10. c[o] \in Nat /\ c[o] <= Most(d, sp, c, id)
      BY <2>6, <3>4
    <3> HIDE DEF o, c
    <3>11. Took(sp, S \cup {id}) <= c[id]
      BY <2>4, <2>5, <2>6, <3>8, <3>9, <3>10
    <3>12. Good(p, n)
      BY <2>2, <3>6, <3>9, <3>11 DEF Good
    <3> QED
      BY <2>2, <3>12
  <2> QED
    BY <2>7, <2>8
<1>2. CASE Bad = {}
  <2> TAKE n \in Nat \ {0}
  <2> TAKE p \in [1..n -> OkTasks(sp)]
  <2> HAVE Linked(d, p, n)
  <2>1. p[n] \in Ids(d)
    BY <1>0
  <2>2. ~Wrong(p[n])
    BY <1>2, <2>1
  <2> QED
    BY <2>2
<1> QED
  BY <1>1, <1>2

\* The recursion from the end of the path back ends, too.
LEMMA WalkLemma ==
    ASSUME NEW d, NEW sp, RunOf(d, sp), NEW prev, DOMAIN prev = Ids(d),
           \A id \in Ids(d) : prev[id] = None \/ prev[id] \in Deps(d, id)
    PROVE  \A id \in Ids(d) :
               Chain(prev, id) =
                   Append(IF prev[id] = None THEN <<>> ELSE Chain(prev, prev[id]), id)
<1> DEFINE N == Ids(d)
           after == [id \in N |-> {prev[id]} \ {None}]
           Rule(f, id) == Append(IF prev[id] = None THEN <<>> ELSE f[prev[id]], id)
           G == [q \in N \X [N -> Seq(N)] |-> Rule(q[2], q[1])]
<1>1. NoWayBack(N, after) /\ \A id \in N : after[id] \subseteq N
  BY DepsNoWayBack
<1>2. \A id \in N : prev[id] # None => after[id] = {prev[id]} /\ prev[id] \in N
  BY <1>1
<1>3. ASSUME NEW id \in N, NEW f \in [N -> Seq(N)]
      PROVE  G[<<id, f>>] = Rule(f, id) /\ Rule(f, id) \in Seq(N)
  <2>1. (IF prev[id] = None THEN <<>> ELSE f[prev[id]]) \in Seq(N)
    BY <1>2
  <2>2. Rule(f, id) \in Seq(N)
    <3> HIDE DEF N
    <3> QED
      BY <2>1
  <2>3. G[<<id, f>>] = Rule(f, id)
    OBVIOUS
  <2> QED
    BY <2>2, <2>3
<1>4. ASSUME NEW id \in N, NEW f \in [N -> Seq(N)], NEW g \in [N -> Seq(N)],
             \A o \in after[id] : f[o] = g[o]
      PROVE  G[<<id, f>>] = G[<<id, g>>]
  <2>1. Rule(f, id) = Rule(g, id)
    BY <1>2, <1>4
  <2> QED
    BY <1>3, <2>1
<1>5. Defines(N, Seq(N), G)
  <2>1. \A id \in N : \A f \in [N -> Seq(N)] : G[<<id, f>>] \in Seq(N)
    BY <1>3
  <2>2. <<>> \in Seq(N)
    OBVIOUS
  <2> HIDE DEF G, after, N
  <2>3. AsksBack(N, Seq(N), after, G)
    BY <1>4 DEF AsksBack
  <2>4. Recursion(N, Seq(N), after, G)
    BY <1>1, <2>1, <2>2, <2>3 DEF Recursion
  <2> QED
    BY <2>4, RecursionLemma
<1>6. PICK f \in [N -> Seq(N)] : \A id \in N : f[id] = Rule(f, id)
  BY <1>3, <1>5 DEF Defines
<1> DEFINE walk == CHOOSE w : w = [id \in DOMAIN prev |-> Rule(w, id)]
<1>7. walk = [id \in DOMAIN prev |-> Rule(walk, id)]
  <2>1. f = [id \in DOMAIN prev |-> Rule(f, id)]
    BY <1>6
  <2> QED
    BY <2>1
<1>8. \A id : Chain(prev, id) = walk[id]
  BY DEF Chain
<1> HIDE DEF walk
<1> QED
  BY <1>7, <1>8

PyPrev(d, sp) == [id \in DOMAIN sp |-> Prev(d, sp, id)]

\* What a path must be: a chain of tasks that succeeded and ends with the task,
\* and took what the task costs.
PathTo(d, sp, id, w) ==
    /\ w \in Seq(OkTasks(sp)) /\ w # <<>> /\ w[Len(w)] = id
    /\ Linked(d, w, Len(w))
    /\ IsFiniteSet(Milliseconds(sp, {w[i] : i \in 1..Len(w)}))
    /\ Took(sp, {w[i] : i \in 1..Len(w)}) = Cost(d, sp)[id]

\* A path of its own.
LEMMA PathAlone ==
    ASSUME NEW d, NEW sp, RunOf(d, sp), NEW id \in OkTasks(sp),
           Cost(d, sp)[id] = sp[id].duration_ms
    PROVE  PathTo(d, sp, id, <<id>>)
<1> DEFINE w == <<id>>
<1>1. w \in Seq(OkTasks(sp)) /\ w # <<>> /\ Len(w) = 1 /\ w[1] = id
  OBVIOUS
<1>2. {w[i] : i \in 1..1} = {} \cup {id}
  BY <1>1
<1>3. sp[id].duration_ms \in Nat
  BY RunFacts
<1>4. /\ IsFiniteSet(Milliseconds(sp, {} \cup {id}))
      /\ Took(sp, {} \cup {id}) = 0 + sp[id].duration_ms
  <2>1. id \notin {} /\ IsFiniteSet(Milliseconds(sp, {})) /\ Took(sp, {}) = 0
    BY TookNothing
  <2> QED
    BY <1>3, <2>1, TookLemma
<1>5. Linked(d, w, 1)
  BY DEF Linked
<1> HIDE DEF w
<1>6. Took(sp, {w[i] : i \in 1..1}) = Cost(d, sp)[id]
  BY <1>2, <1>3, <1>4
<1> QED
  BY <1>1, <1>2, <1>4, <1>5, <1>6 DEF PathTo, w

\* A path to a dependency, continued.
LEMMA PathOn ==
    ASSUME NEW d, NEW sp, RunOf(d, sp), NEW id \in OkTasks(sp),
           NEW o \in Deps(d, id), NEW w, PathTo(d, sp, o, w),
           Cost(d, sp)[o] \in Nat,
           Cost(d, sp)[id] = sp[id].duration_ms + Cost(d, sp)[o]
    PROVE  PathTo(d, sp, id, Append(w, id))
<1> DEFINE n == Len(w)
           v == Append(w, id)
           S == {w[i] : i \in 1..n}
<1>0. OkTasks(sp) \subseteq Ids(d) /\ sp[id].duration_ms \in Nat /\ AcyclicIn(d, Ids(d))
  BY RunFacts DEF RunOf
<1>1. w \in Seq(OkTasks(sp)) /\ n \in Nat \ {0} /\ w[n] = o
  BY DEF PathTo
<1>2. /\ v \in Seq(OkTasks(sp)) /\ v # <<>> /\ Len(v) = n + 1 /\ v[n + 1] = id
      /\ \A i \in 1..n : v[i] = w[i]
  BY <1>1
<1>3. \A i \in 1..(n + 1) : i \in 1..n \/ i = n + 1
  BY <1>1
<1>4. n + 1 \in 1..(n + 1) /\ n \in 1..n /\ \A i \in 1..n : i \in 1..(n + 1)
  BY <1>1
<1>5. Linked(d, w, n)
  BY DEF PathTo
<1>6. Linked(d, v, n + 1)
  <2> SUFFICES ASSUME NEW i \in 1..n
               PROVE  v[i] \in Deps(d, v[i + 1])
    BY <1>1 DEF Linked
  <2>1. CASE i = n
    BY <1>1, <1>2, <2>1
  <2>2. CASE i # n
    <3>1. i \in 1..(n - 1) /\ i + 1 \in 1..n
      BY <1>1, <2>2
    <3>2. w[i] \in Deps(d, w[i + 1])
      BY <1>5, <3>1 DEF Linked
    <3> QED
      BY <1>2, <3>1, <3>2
  <2> QED
    BY <2>1, <2>2
<1>7. id \notin S
  <2> SUFFICES ASSUME NEW i \in 1..n, w[i] = id
               PROVE  FALSE
    OBVIOUS
  <2>1. PICK m \in Nat : m = n + 1
    BY <1>1
  <2>2. v \in [1..m -> Ids(d)]
    <3> HIDE DEF v, n
    <3>1. v \in [1..Len(v) -> OkTasks(sp)] /\ Len(v) = m
      BY <1>2, <2>1
    <3> QED
      BY <1>0, <3>1
  <2>3. i \in 1..m /\ m \in 1..m /\ i < m /\ v[i] = v[m]
    BY <1>1, <1>2, <2>1
  <2>4. Linked(d, v, m)
    BY <1>6, <2>1
  <2> HIDE DEF v, n
  <2> QED
    BY <1>0, <2>2, <2>3, <2>4, NoRepeat
<1>8. {v[i] : i \in 1..(n + 1)} = S \cup {id}
  <2> HIDE DEF v, n
  <2> QED
    BY <1>2, <1>3, <1>4
<1>9. IsFiniteSet(Milliseconds(sp, S)) /\ Took(sp, S) = Cost(d, sp)[o]
  BY DEF PathTo
<1> HIDE DEF S
<1>10. /\ IsFiniteSet(Milliseconds(sp, S \cup {id}))
       /\ Took(sp, S \cup {id}) = Took(sp, S) + sp[id].duration_ms
  BY <1>0, <1>7, <1>9, TookLemma
<1>11. Took(sp, S \cup {id}) = Cost(d, sp)[id]
  BY <1>0, <1>9, <1>10
<1> HIDE DEF v, n
<1> QED
  BY <1>2, <1>6, <1>8, <1>10, <1>11 DEF PathTo, v

\* Chain walks back along what Prev follows, and so finds a path that takes what
\* its end costs.
LEMMA ChainIsPath ==
    ASSUME NEW d, NEW sp, RunOf(d, sp)
    PROVE  \A id \in OkTasks(sp) : PathTo(d, sp, id, Chain(PyPrev(d, sp), id))
<1> DEFINE prev == PyPrev(d, sp)
           c == Cost(d, sp)
           Good(id) == PathTo(d, sp, id, Chain(prev, id))
           Bad == {id \in OkTasks(sp) : ~Good(id)}
<1>0. OkTasks(sp) \subseteq Ids(d) /\ DOMAIN sp = Ids(d) /\ None \notin Ids(d)
  BY RunFacts
<1>1. DOMAIN prev = Ids(d) /\ \A id \in Ids(d) : prev[id] = Prev(d, sp, id)
  BY <1>0 DEF PyPrev
<1> HIDE DEF prev
<1>2. \A id \in Ids(d) :
        \/ prev[id] = None /\ Most(d, sp, c, id) = 0
        \/ prev[id] \in OkDeps(d, sp, id) /\ c[prev[id]] = Most(d, sp, c, id)
  BY <1>1, PrevLemma
<1>3. \A id \in Ids(d) : prev[id] = None \/ prev[id] \in Deps(d, id)
  BY <1>2, RunFacts
<1>4. \A id \in Ids(d) :
        Chain(prev, id) = Append(IF prev[id] = None THEN <<>> ELSE Chain(prev, prev[id]), id)
  BY <1>1, <1>3, WalkLemma
<1> SUFFICES ASSUME Bad # {}
             PROVE  FALSE
  BY DEF prev
<1>5. PICK id \in Bad : Deps(d, id) \cap Bad = {}
  <2>1. Bad \in SUBSET Ids(d)
    BY <1>0
  <2> QED
    BY <2>1 DEF RunOf, AcyclicIn
<1>6. id \in OkTasks(sp) /\ id \in Ids(d) /\ ~Good(id)
  BY <1>0, <1>5
<1>7. /\ c[id] = sp[id].duration_ms + Most(d, sp, c, id) /\ sp[id].duration_ms \in Nat
  BY <1>6, CostLemma, RunFacts DEF Own, OkTasks
<1>8. CASE prev[id] = None /\ Most(d, sp, c, id) = 0
  <2>1. Chain(prev, id) = <<id>>
    <3>1. Chain(prev, id) = Append(<<>>, id)
      BY <1>4, <1>6, <1>8
    <3>2. Append(<<>>, id) = <<id>>
      OBVIOUS
    <3> QED
      BY <3>1, <3>2
  <2>2. c[id] = sp[id].duration_ms
    BY <1>7, <1>8
  <2> QED
    BY <1>6, <2>1, <2>2, PathAlone
<1>9. CASE prev[id] \in OkDeps(d, sp, id) /\ c[prev[id]] = Most(d, sp, c, id)
  <2> DEFINE o == prev[id]
  <2>1. o \in OkTasks(sp) /\ o \in Deps(d, id) /\ o \in Ids(d) /\ o # None
    BY <1>0, <1>6, <1>9, RunFacts
  <2>2. Good(o)
    BY <1>5, <2>1
  <2>3. Chain(prev, id) = Append(Chain(prev, o), id)
    BY <1>4, <1>6, <2>1
  <2>4. c[o] \in Nat /\ c[id] = sp[id].duration_ms + c[o]
    BY <1>7, <1>9, <2>1, CostLemma
  <2> HIDE DEF o
  <2>5. PathTo(d, sp, id, Append(Chain(prev, o), id))
    BY <1>6, <2>1, <2>2, <2>4, PathOn
  <2> QED
    BY <1>6, <2>3, <2>5
<1> QED
  BY <1>2, <1>6, <1>8, <1>9

\* Any end of a critical path costs no less than any other task.
LEMMA DearestExists ==
    ASSUME NEW d, NEW sp, RunOf(d, sp), OkTasks(sp) # {}
    PROVE  \E id \in OkTasks(sp) : \A o \in OkTasks(sp) : Cost(d, sp)[o] <= Cost(d, sp)[id]
<1> DEFINE c == Cost(d, sp)
           S == {c[o] : o \in OkTasks(sp)}
<1>1. IsFiniteSet(S)
  BY RunFacts, FiniteImage
<1>2. S \subseteq Nat /\ S # {}
  BY RunFacts, CostLemma
<1>3. Max(S) \in S /\ \A y \in S : y <= Max(S)
  <2> HIDE DEF S
  <2> QED
    BY <1>1, <1>2, MaxLemma
<1> QED
  BY <1>3

\* If every task took some time, what costs most is a sink.
LEMMA SameDearest ==
    ASSUME NEW d, NEW sp, RunOf(d, sp), \A o \in OkTasks(sp) : sp[o].duration_ms > 0,
           OkTasks(sp) # {}
    PROVE  Dearest(d, sp, Sinks(d, sp)) = Dearest(d, sp, OkTasks(sp))
<1> DEFINE c == Cost(d, sp)
           K == OkTasks(sp)
<1>0. K \subseteq Ids(d)
  BY RunFacts
<1>1. \A id \in K : c[id] \in Nat
  BY <1>0, CostLemma
<1>2. ASSUME NEW o \in K, NEW id \in K, id \in Deps(d, o)
      PROVE  c[id] < c[o]
  <2>1. OkDeps(d, sp, o) \subseteq Ids(d) /\ id \in OkDeps(d, sp, o)
    BY <1>0, <1>2, RunFacts DEF OkDeps, OkTasks
  <2>2. c[id] <= Most(d, sp, c, o) /\ Most(d, sp, c, o) \in Nat
    BY <1>0, <2>1, CostLemma, MostLemma
  <2>3. c[o] = sp[o].duration_ms + Most(d, sp, c, o) /\ sp[o].duration_ms \in Nat
    BY <1>0, CostLemma, RunFacts DEF Own, OkTasks
  <2>4. sp[o].duration_ms > 0
    OBVIOUS
  <2> QED
    BY <1>1, <2>2, <2>3, <2>4
<1>3. ASSUME NEW id \in K, \A o \in K : c[o] <= c[id]
      PROVE  id \in Sinks(d, sp)
  <2> SUFFICES ASSUME NEW o \in K, id \in Deps(d, o)
               PROVE  FALSE
    BY DEF Sinks
  <2>1. c[id] < c[o] /\ c[o] <= c[id]
    BY <1>2, <1>3
  <2> QED
    BY <1>1, <2>1
<1>4. Sinks(d, sp) \subseteq K
  BY DEF Sinks
<1>5. PICK top \in K : \A o \in K : c[o] <= c[top]
  BY DearestExists
<1>6. top \in Sinks(d, sp)
  BY <1>3, <1>5
<1>7. ASSUME NEW id \in Dearest(d, sp, Sinks(d, sp))
      PROVE  id \in Dearest(d, sp, K)
  <2>1. id \in Sinks(d, sp) /\ id \in K /\ c[top] <= c[id]
    BY <1>4, <1>6 DEF Dearest
  <2>2. \A o \in K : c[o] <= c[id]
    BY <1>1, <1>5, <2>1
  <2> QED
    BY <2>1, <2>2 DEF Dearest
<1>8. ASSUME NEW id \in Dearest(d, sp, K)
      PROVE  id \in Dearest(d, sp, Sinks(d, sp))
  <2>1. id \in K /\ \A o \in K : c[o] <= c[id]
    BY DEF Dearest
  <2>2. id \in Sinks(d, sp)
    BY <1>3, <2>1
  <2> QED
    BY <1>4, <2>1, <2>2 DEF Dearest
<1> QED
  BY <1>7, <1>8

LEMMA SameCriticalPaths ==
    ASSUME NEW d, NEW sp, RunOf(d, sp), \A o \in OkTasks(sp) : sp[o].duration_ms > 0
    PROVE  CriticalPaths(d, sp) = GoCriticalPaths(d, sp)
<1>1. CASE OkTasks(sp) = {}
  BY <1>1 DEF CriticalPaths, GoCriticalPaths
<1>2. CASE OkTasks(sp) # {}
  <2>1. Dearest(d, sp, Sinks(d, sp)) = Dearest(d, sp, OkTasks(sp))
    BY <1>2, SameDearest
  <2>2. \A id \in DOMAIN sp : Prev(d, sp, id) = GoPrev(d, sp, id)
    BY RunFacts, SamePrev
  <2>3. [id \in DOMAIN sp |-> Prev(d, sp, id)] = [id \in DOMAIN sp |-> GoPrev(d, sp, id)]
    BY <2>2
  <2> QED
    BY <1>2, <2>1, <2>3 DEF CriticalPaths, GoCriticalPaths
<1> QED
  BY <1>1, <1>2

-----------------------------------------------------------------------------
(* The report *)

\* What the report says of a run was computed from that run.
RInv ==
    Reported =>
        /\ verdict = "accepted" /\ RunOf(doc, spans)
        /\ path \in CriticalPaths(doc, spans)
        /\ output = RunOutput(doc, spans)
        /\ reread = [id \in DOMAIN spans |-> SpanFromDict(SpanDict(spans[id]))]

LEMMA RInvPath == RInv => PathIsCritical
<1> SUFFICES ASSUME RInv, Reported
             PROVE  PathIsCritical
  BY DEF PathIsCritical, PathIsAChain, PathIsLongest, SamePaths
<1> DEFINE c == Cost(doc, spans)
           K == OkTasks(spans)
<1>1. RunOf(doc, spans) /\ path \in CriticalPaths(doc, spans)
  BY DEF RInv
<1>2. K \subseteq Ids(doc) /\ \A id \in K : c[id] \in Nat
  BY <1>1, RunFacts, CostLemma
<1>3. CASE K = {}
  <2>1. path = <<>>
    BY <1>1, <1>3 DEF CriticalPaths
  <2>2. PathIsAChain
    BY <1>3, <2>1 DEF PathIsAChain, IsChain
  <2>3. Chains = {}
    <3>1. ASSUME NEW n \in 1..Cardinality(K)
          PROVE  FALSE
      BY <1>3, FS_EmptySet
    <3> QED
      BY <3>1 DEF Chains
  <2>4. PathIsLongest
    BY <2>3 DEF PathIsLongest
  <2>5. SamePaths
    BY <1>1, SameCriticalPaths DEF SamePaths
  <2> QED
    BY <2>2, <2>4, <2>5 DEF PathIsCritical
<1>4. CASE K # {}
  <2>1. PICK end \in Dearest(doc, spans, K) : path = Chain(PyPrev(doc, spans), end)
    BY <1>1, <1>4 DEF CriticalPaths, PyPrev
  <2>2. end \in K /\ \A o \in K : c[o] <= c[end]
    BY DEF Dearest
  <2>3. PathTo(doc, spans, end, path)
    BY <1>1, <2>1, <2>2, ChainIsPath
  <2>4. PICK n \in Nat \ {0} : n = Len(path)
    BY <2>3 DEF PathTo
  <2>5. path \in [1..n -> K] /\ DOMAIN path = 1..n /\ path # <<>>
    BY <2>3, <2>4 DEF PathTo
  <2>6. PathIsAChain
    <3>1. \A i \in DOMAIN path : Ok(spans, path[i])
      BY <2>5 DEF OkTasks
    <3>2. \A i \in 1..(n - 1) : path[i] \in Deps(doc, path[i + 1])
      BY <2>3, <2>4 DEF PathTo, Linked
    <3> QED
      BY <1>4, <2>4, <2>5, <3>1, <3>2 DEF PathIsAChain, IsChain
  <2>7. Duration(path) = c[end]
    BY <2>3, <2>4, <2>5 DEF PathTo, Took, Duration
  <2>8. ASSUME NEW p \in Chains
        PROVE  Duration(p) <= Duration(path)
    <3>1. PICK n1 \in 1..Cardinality(K) : p \in [1..n1 -> K] /\ IsChain(p)
      BY DEF Chains
    <3>2. Cardinality(K) \in Nat
      BY <1>1, RunFacts, FS_CardinalityType
    <3>3. n1 \in Nat \ {0} /\ DOMAIN p = 1..n1 /\ n1 \in 1..n1
      BY <3>1, <3>2
    <3>4. Len(p) = n1
      BY <3>1, <3>3
    <3>5. Linked(doc, p, n1)
      BY <3>1, <3>4 DEF IsChain, Linked
    <3>6. /\ IsFiniteSet(Milliseconds(spans, {p[i] : i \in 1..n1}))
          /\ Took(spans, {p[i] : i \in 1..n1}) <= c[p[n1]]
      BY <1>1, <3>1, <3>3, <3>5, ChainCost
    <3>7. c[p[n1]] \in Nat /\ c[p[n1]] <= c[end] /\ c[end] \in Nat
      BY <1>2, <2>2, <3>1, <3>3
    <3>8. Duration(p) <= c[p[n1]] /\ Duration(p) \in Nat
      <4>1. Duration(p) = Took(spans, {p[i] : i \in 1..n1})
        BY <3>3 DEF Duration, Took
      <4> QED
        BY <3>6, <4>1, FS_CardinalityType DEF Took
    <3> QED
      BY <2>7, <3>7, <3>8
  <2>9. SamePaths
    BY <1>1, SameCriticalPaths DEF SamePaths
  <2> QED
    BY <2>6, <2>8, <2>9 DEF PathIsCritical, PathIsLongest
<1> QED
  BY <1>3, <1>4

-----------------------------------------------------------------------------
(* References *)

NodeRule(f, k, p, scope) == IF k = 0 THEN scope ELSE Field(f[k - 1], p[k])

LEMMA NodesExist ==
    ASSUME NEW p, Len(p) \in Nat, NEW scope
    PROVE  \E f : f = [k \in 0..Len(p) |-> NodeRule(f, k, p, scope)]
<1> DEFINE n == Len(p)
           Good(k) == \E f : f = [i \in 0..k |-> NodeRule(f, i, p, scope)]
           Bad == {k \in 0..n : ~Good(k)}
<1>1. Good(0)
  <2> DEFINE f == [i \in 0..0 |-> scope]
  <2>1. f = [i \in 0..0 |-> NodeRule(f, i, p, scope)]
    BY DEF NodeRule
  <2> QED
    BY <2>1
<1>2. ASSUME NEW k \in 0..n, k # 0, Good(k - 1)
      PROVE  Good(k)
  <2>1. PICK f : f = [i \in 0..(k - 1) |-> NodeRule(f, i, p, scope)]
    BY <1>2
  <2> DEFINE g == [i \in 0..k |-> IF i = k THEN Field(f[k - 1], p[k]) ELSE f[i]]
  <2>2. \A i \in 0..k : i = k \/ i \in 0..(k - 1)
    OBVIOUS
  <2>3. ASSUME NEW i \in 0..k
        PROVE  g[i] = NodeRule(g, i, p, scope)
    <3>1. CASE i = 0
      <4>1. g[i] = f[i] /\ i \in 0..(k - 1)
        BY <1>2, <3>1
      <4> QED
        BY <2>1, <3>1, <4>1 DEF NodeRule
    <3>2. CASE i # 0
      <4>1. i - 1 \in 0..k /\ i - 1 # k /\ i - 1 \in 0..(k - 1)
        BY <3>2
      <4>2. g[i - 1] = f[i - 1]
        BY <4>1
      <4>3. g[i] = Field(f[i - 1], p[i])
        <5>1. CASE i = k
          BY <5>1
        <5>2. CASE i # k
          <6>1. i \in 0..(k - 1) /\ g[i] = f[i]
            BY <2>2, <5>2
          <6> QED
            BY <2>1, <3>2, <6>1 DEF NodeRule
        <5> QED
          BY <5>1, <5>2
      <4> QED
        BY <3>2, <4>2, <4>3 DEF NodeRule
    <3> QED
      BY <3>1, <3>2
  <2>4. g = [i \in 0..k |-> g[i]]
    OBVIOUS
  <2> HIDE DEF g
  <2>5. g = [i \in 0..k |-> NodeRule(g, i, p, scope)]
    BY <2>3, <2>4
  <2> QED
    BY <2>5
<1> HIDE DEF Good
<1>3. CASE Bad = {}
  <2>1. Good(n)
    BY <1>3
  <2> QED
    BY <2>1 DEF Good
<1>4. CASE Bad # {}
  <2>0. Bad \subseteq Nat
    OBVIOUS
  <2>1. PICK k \in Bad : \A j \in Bad : k <= j
    <3> HIDE DEF Bad
    <3> QED
      BY <1>4, <2>0, LeastNat
  <2>2. k # 0 /\ k \in 0..n
    BY <1>1
  <2>3. k - 1 \in 0..n /\ k - 1 \notin Bad
    BY <2>1, <2>2
  <2> QED
    BY <1>2, <2>2, <2>3
<1> QED
  BY <1>3, <1>4

\* Lookup goes from the scope down, one name after the other.
LEMMA LookupLemma ==
    ASSUME NEW p, Len(p) \in Nat, NEW scope
    PROVE  \E f : /\ Lookup(p, scope) = f[Len(p)]
                  /\ f[0] = scope
                  /\ \A k \in 1..Len(p) : f[k] = Field(f[k - 1], p[k])
<1> DEFINE f == CHOOSE g : g = [k \in 0..Len(p) |-> NodeRule(g, k, p, scope)]
<1>1. f = [k \in 0..Len(p) |-> NodeRule(f, k, p, scope)]
  BY NodesExist
<1>2. Lookup(p, scope) = f[Len(p)]
  BY DEF Lookup, NodeRule
<1> HIDE DEF f
<1>3. \A k \in 1..Len(p) : k \in 0..Len(p) /\ k # 0
  OBVIOUS
<1> QED
  BY <1>1, <1>2, <1>3 DEF NodeRule

\* Missing is no value.
Opt(x) == IF x = Missing THEN <<>> ELSE <<x>>

TaskObject(sp, id) == Object([field \in {"output"} |-> Outputs(sp)[id]])
Nodes(sp) == Values \cup {Missing} \cup {TaskObject(sp, id) : id \in OkTasks(sp)}

LEMMA OutputsAreValues ==
    ASSUME NEW d, NEW sp, RunOf(d, sp)
    PROVE  DOMAIN Outputs(sp) = OkTasks(sp) /\ \A id \in OkTasks(sp) : Outputs(sp)[id] \in Values
<1> SUFFICES ASSUME NEW id \in OkTasks(sp)
             PROVE  Outputs(sp)[id] \in Values
  BY DEF Outputs
<1>1. sp[id].output = <<>> \/ \E v \in Values : sp[id].output = <<v>>
  BY RunFacts DEF IsSpan
<1> QED
  BY <1>1, ReportAssumption DEF Outputs

LEMMA FieldLemma ==
    ASSUME NEW d, NEW sp, RunOf(d, sp), NEW v \in Nodes(sp), NEW name
    PROVE  /\ Field(v, name) \in Nodes(sp)
           /\ Opt(Field(v, name)) = Part(Opt(v), name)
<1> DEFINE has == v.kind = "object" /\ name \in DOMAIN v.at
<1>1. has => v # Missing /\ v.at[name] \in Values
  <2>1. CASE v \in Values
    BY <2>1, ReportAssumption
  <2>2. CASE v = Missing
    BY <2>2 DEF Missing
  <2>3. CASE \E id \in OkTasks(sp) : v = TaskObject(sp, id)
    <3>1. PICK id \in OkTasks(sp) : v = TaskObject(sp, id)
      BY <2>3
    <3>2. v.kind = "object" /\ v.at = [field \in {"output"} |-> Outputs(sp)[id]]
      BY <3>1 DEF TaskObject, Object
    <3>3. Missing.kind = "missing"
      BY DEF Missing
    <3> QED
      BY <3>2, <3>3, OutputsAreValues
  <2> QED
    BY <2>1, <2>2, <2>3 DEF Nodes
<1>2. CASE has
  <2>1. Field(v, name) = v.at[name] /\ v.at[name] # Missing /\ Opt(v) = <<v>>
    BY <1>1, <1>2, ReportAssumption DEF Field, Opt
  <2>2. Part(<<v>>, name) = <<v.at[name]>>
    BY <1>2 DEF Part
  <2> QED
    BY <1>1, <1>2, <2>1, <2>2 DEF Nodes, Opt
<1>3. CASE ~has
  <2>1. Field(v, name) = Missing
    BY <1>3 DEF Field
  <2>2. Part(Opt(v), name) = <<>>
    BY <1>3 DEF Part, Opt
  <2> QED
    BY <2>1, <2>2 DEF Nodes, Opt
<1> QED
  BY <1>2, <1>3

LEMMA ScopeLemma ==
    ASSUME NEW d, NEW sp, RunOf(d, sp), NEW name
    PROVE  LET v == Field(Scope(Inputs, Outputs(sp)), name)
           IN  /\ v \in Nodes(sp)
               /\ Opt(v) = IF name \in OkTasks(sp) THEN <<TaskObject(sp, name)>>
                           ELSE IF name = "input" THEN <<Inputs>> ELSE <<>>
<1> DEFINE scope == Scope(Inputs, Outputs(sp))
           names == OkTasks(sp) \cup {"input"}
           at == [x \in names |-> IF x \in OkTasks(sp) THEN TaskObject(sp, x) ELSE Inputs]
<1>1. DOMAIN Outputs(sp) = OkTasks(sp)
  BY OutputsAreValues
<1>2. scope = Object(at)
  BY <1>1 DEF Scope, TaskObject
<1>3. Field(scope, name) = IF name \in names THEN at[name] ELSE Missing
  BY <1>2 DEF Field, Object
<1>4. \A id : TaskObject(sp, id) # Missing
  <2>1. Missing.kind = "missing" /\ \A id : TaskObject(sp, id).kind = "object"
    BY DEF Missing, TaskObject, Object
  <2> QED
    BY <2>1
<1>5. Inputs \in Values /\ Inputs # Missing
  BY ReportAssumption
<1> QED
  BY <1>3, <1>4, <1>5 DEF Nodes, Opt

GivenRule(g, k, sp, p) ==
    IF k > 1 THEN Part(g[k - 1], p[k])
    ELSE IF p[1] \in OkTasks(sp) THEN <<TaskObject(sp, p[1])>>
    ELSE IF p[1] = "input" THEN <<Inputs>> ELSE <<>>

\* Looking a reference up finds what it names in the run, and Missing if it names
\* nothing.
LEMMA GivenLemma ==
    ASSUME NEW d, NEW sp, RunOf(d, sp), NEW p, Len(p) \in Nat \ {0}
    PROVE  Given(sp, p) = Opt(Lookup(p, Scope(Inputs, Outputs(sp))))
<1> DEFINE n == Len(p)
           scope == Scope(Inputs, Outputs(sp))
           g == CHOOSE h : h = [k \in 1..n |-> GivenRule(h, k, sp, p)]
<1>1. PICK f : /\ Lookup(p, scope) = f[n] /\ f[0] = scope
               /\ \A k \in 1..n : f[k] = Field(f[k - 1], p[k])
  BY LookupLemma
<1> DEFINE Good(k) == f[k] \in Nodes(sp) /\ Opt(f[k]) = GivenRule([i \in 1..n |-> Opt(f[i])], k, sp, p)
<1>2. f[1] \in Nodes(sp) /\ Opt(f[1]) = GivenRule([i \in 1..n |-> Opt(f[i])], 1, sp, p)
  <2>1. 1 \in 1..n /\ 1 - 1 = 0
    OBVIOUS
  <2>2. f[1] = Field(scope, p[1])
    BY <1>1, <2>1
  <2> QED
    BY <2>2, ScopeLemma DEF GivenRule
<1>3. ASSUME NEW k \in 1..n, k # 1, f[k - 1] \in Nodes(sp)
      PROVE  f[k] \in Nodes(sp) /\ Opt(f[k]) = GivenRule([i \in 1..n |-> Opt(f[i])], k, sp, p)
  <2>1. k - 1 \in 1..n /\ k > 1
    BY <1>3
  <2>2. f[k] = Field(f[k - 1], p[k])
    BY <1>1
  <2>3. f[k] \in Nodes(sp) /\ Opt(f[k]) = Part(Opt(f[k - 1]), p[k])
    BY <1>3, <2>2, FieldLemma
  <2> QED
    BY <2>1, <2>3 DEF GivenRule
<1>4. \A k \in 1..n : Good(k)
  <2> DEFINE Bad == {k \in 1..n : ~Good(k)}
  <2> SUFFICES ASSUME Bad # {}
               PROVE  FALSE
    OBVIOUS
  <2>0. Bad \subseteq Nat
    OBVIOUS
  <2>1. PICK k \in Bad : \A j \in Bad : k <= j
    <3> HIDE DEF Bad
    <3> QED
      BY <2>0, LeastNat
  <2>2. CASE k = 1
    BY <1>2, <2>1, <2>2
  <2>3. CASE k # 1
    <3>1. k \in 1..n /\ k - 1 \in 1..n /\ k - 1 \notin Bad
      BY <2>1, <2>3
    <3>2. f[k - 1] \in Nodes(sp)
      BY <3>1
    <3>3. Good(k)
      BY <1>3, <2>3, <3>1, <3>2
    <3> QED
      BY <2>1, <3>3
  <2> QED
    BY <2>2, <2>3
<1> DEFINE o == [i \in 1..n |-> Opt(f[i])]
<1>5. o = [k \in 1..n |-> GivenRule(o, k, sp, p)]
  <2>1. \A k \in 1..n : Opt(f[k]) = GivenRule(o, k, sp, p)
    BY <1>4
  <2> QED
    BY <2>1
<1>6. g = [k \in 1..n |-> GivenRule(g, k, sp, p)]
  <2> HIDE DEF o
  <2> QED
    BY <1>5
<1>7. Given(sp, p) = g[n]
  BY DEF Given, GivenRule, TaskObject
<1> HIDE DEF g
<1>8. \A k \in 1..n : g[k] = Opt(f[k])
  <2> DEFINE Bad == {k \in 1..n : g[k] # Opt(f[k])}
  <2> SUFFICES ASSUME Bad # {}
               PROVE  FALSE
    OBVIOUS
  <2>0. Bad \subseteq Nat
    OBVIOUS
  <2>1. PICK k \in Bad : \A j \in Bad : k <= j
    <3> HIDE DEF Bad
    <3> QED
      BY <2>0, LeastNat
  <2>2. g[k] = GivenRule(g, k, sp, p) /\ Opt(f[k]) = GivenRule(o, k, sp, p)
    BY <1>4, <1>6, <2>1
  <2>3. CASE k = 1
    BY <2>1, <2>2, <2>3 DEF GivenRule
  <2>4. CASE k # 1
    <3>1. k - 1 \in 1..n /\ k - 1 \notin Bad /\ k > 1
      BY <2>1, <2>4
    <3>2. g[k - 1] = o[k - 1]
      BY <3>1
    <3> QED
      BY <2>1, <2>2, <3>1, <3>2 DEF GivenRule
  <2> QED
    BY <2>3, <2>4
<1>9. n \in 1..n
  OBVIOUS
<1> QED
  BY <1>1, <1>7, <1>8, <1>9

\* What run makes of the output of a workflow.
LEMMA RunOutputLemma == RInv => OutputIsOfThisRun
<1> SUFFICES ASSUME RInv, Reported, doc.output # <<>>, ~RunFailed(spans)
             PROVE  LET template == doc.output[1]
                        refs == template.paths
                    IN  output = IF \E i \in DOMAIN refs : Given(spans, refs[i]) = <<>> THEN <<>>
                                 ELSE IF template.form = "literal" THEN <<template.v>>
                                 ELSE IF template.form = "exact" THEN Given(spans, refs[1])
                                 ELSE <<TextOf([i \in DOMAIN refs |-> Given(spans, refs[i])[1]])>>
  BY DEF OutputIsOfThisRun
<1> DEFINE template == doc.output[1]
           refs == template.paths
           scope == Scope(Inputs, Outputs(spans))
           values == [i \in DOMAIN refs |-> Lookup(refs[i], scope)]
           v == Resolve(template, scope)
<1>1. RunOf(doc, spans) /\ output = RunOutput(doc, spans)
  BY DEF RInv
<1>2. IsTemplate(template, Values)
  BY <1>1, ReportAssumption DEF RunOf
<1>3. \A i \in DOMAIN refs : Len(refs[i]) \in Nat \ {0}
  BY <1>2 DEF IsTemplate
<1>4. \A i \in DOMAIN refs : Given(spans, refs[i]) = Opt(values[i])
  BY <1>1, <1>3, GivenLemma
<1>5. output = IF v = Missing THEN <<>> ELSE <<v>>
  BY <1>1 DEF RunOutput
<1>6. v = IF \E i \in DOMAIN refs : values[i] = Missing THEN Missing
          ELSE IF template.form = "literal" THEN template.v
          ELSE IF template.form = "exact" THEN values[1]
          ELSE TextOf(values)
  BY DEF Resolve
<1>7. CASE \E i \in DOMAIN refs : values[i] = Missing
  <2>1. \E i \in DOMAIN refs : Given(spans, refs[i]) = <<>>
    BY <1>4, <1>7 DEF Opt
  <2>2. output = <<>>
    BY <1>5, <1>6, <1>7
  <2> QED
    BY <2>1, <2>2
<1>8. CASE ~\E i \in DOMAIN refs : values[i] = Missing
  <2>1. \A i \in DOMAIN refs : Given(spans, refs[i]) = <<values[i]>> /\ <<values[i]>> # <<>>
    BY <1>4, <1>8 DEF Opt
  <2>2. ~\E i \in DOMAIN refs : Given(spans, refs[i]) = <<>>
    BY <2>1
  <2>3. CASE template.form = "literal"
    <3>1. template = Literal(template.v) /\ template.v \in Values
      BY <1>2, <2>3 DEF IsTemplate, Exactly, Inline
    <3>2. v = template.v /\ v # Missing
      BY <1>6, <1>8, <2>3, <3>1, ReportAssumption
    <3> QED
      BY <1>5, <2>2, <2>3, <3>2
  <2>4. CASE template.form = "exact"
    <3>1. template = Exactly(template.paths[1])
      BY <1>2, <2>4 DEF IsTemplate, Literal, Inline
    <3>2. 1 \in DOMAIN refs
      BY <3>1 DEF Exactly
    <3>3. v = values[1] /\ v # Missing
      BY <1>6, <1>8, <2>4, <3>2
    <3> QED
      BY <1>5, <2>1, <2>2, <2>4, <3>2, <3>3
  <2>5. CASE template.form # "literal" /\ template.form # "exact"
    <3>1. values = [i \in DOMAIN refs |-> Given(spans, refs[i])[1]]
      <4>1. ASSUME NEW i \in DOMAIN refs
            PROVE  Given(spans, refs[i])[1] = values[i]
        <5>1. \A x : <<x>>[1] = x
          OBVIOUS
        <5>2. Given(spans, refs[i]) = <<values[i]>>
          BY <2>1
        <5> HIDE DEF values
        <5> QED
          BY <5>1, <5>2
      <4> QED
        BY <4>1
    <3>2. v = TextOf(values)
      BY <1>6, <1>8, <2>5
    <3>3. v # Missing
      <4>1. v.kind = "text" /\ Missing.kind = "missing"
        BY <3>2 DEF TextOf, Missing
      <4> QED
        BY <4>1
    <3> HIDE DEF v, values
    <3> QED
      BY <1>5, <2>2, <2>5, <3>1, <3>2, <3>3
  <2> QED
    BY <2>3, <2>4, <2>5
<1> QED
  BY <1>7, <1>8

\* What to_dict writes of a span from_dict reads.
LEMMA SpanReadsBack ==
    ASSUME NEW s, IsSpan(s)
    PROVE  SpanFromDict(SpanDict(s)) = [s EXCEPT !.output = <<>>]
<1> DEFINE dict == SpanDict(s)
           Written(key) == key \in SpanKeys(s)
<1>1. DOMAIN dict = SpanKeys(s) /\ \A key \in SpanKeys(s) : dict[key] = s[key]
  BY DEF SpanDict
<1>2. /\ "status" \in SpanKeys(s) /\ "duration_ms" \in SpanKeys(s) /\ "attempts" \in SpanKeys(s)
      /\ "llm" \in SpanKeys(s) <=> s.llm # <<>>
      /\ "decisions" \in SpanKeys(s) <=> s.decisions # <<>>
      /\ "error" \in SpanKeys(s) <=> s.error # <<>>
  BY DEF SpanKeys
<1> HIDE DEF dict
<1>3. SpanFromDict(dict) =
        Span(s.status, s.duration_ms, s.attempts, s.llm, s.decisions, s.error, <<>>)
  BY <1>1, <1>2 DEF SpanFromDict, GetOr
<1>4. [s EXCEPT !.output = <<>>] =
        Span(s.status, s.duration_ms, s.attempts, s.llm, s.decisions, s.error, <<>>)
  BY DEF IsSpan, Span
<1> QED
  BY <1>3, <1>4 DEF dict

LEMMA RInvReport == RInv => ReportIsTrue
<1>1. RInv => ReportReadsBack
  <2> SUFFICES ASSUME RInv, Reported
               PROVE  reread = [id \in DOMAIN spans |-> [spans[id] EXCEPT !.output = <<>>]]
    BY DEF ReportReadsBack
  <2>1. \A id \in DOMAIN spans : IsSpan(spans[id])
    BY RunFacts DEF RInv
  <2> QED
    BY <2>1, SpanReadsBack DEF RInv
<1> QED
  BY <1>1, RunOutputLemma DEF ReportIsTrue

LEMMA RInvStep == LInv /\ RInv /\ [ReportNext]_<<vars, reportVars>> => RInv'
<1> SUFFICES ASSUME LInv, RInv, [ReportNext]_<<vars, reportVars>>
             PROVE  RInv'
  OBVIOUS
<1>1. CASE UNCHANGED reportVars /\ (Next \/ UNCHANGED vars)
  <2>1. UNCHANGED <<spans, path, output, reread>>
    BY <1>1 DEF reportVars
  <2>2. verdict = "accepted" => UNCHANGED <<doc, verdict>>
    BY <1>1 DEF vars, Next, Step, Loaded, Parse, Validate, Start, MeetGrey, MeetWhite,
                MeetBlack, LeaveNode, Accept, Looking
  <2> QED
    BY <2>1, <2>2 DEF RInv, Reported
<1>2. CASE MakeReport
  <2>1. UNCHANGED <<doc, verdict>> /\ verdict = "accepted"
    BY <1>2 DEF MakeReport, vars
  <2>2. doc \in Docs /\ ~UnknownDep(doc) /\ AcyclicIn(doc, Ids(doc))
    BY <2>1 DEF LInv, AcceptedIsRunnable, AcyclicDoc, AcyclicIn
  <2>3. RunOf(doc', spans')
    BY <1>2, <2>1, <2>2 DEF RunOf, MakeReport
  <2> QED
    BY <1>2, <2>1, <2>3 DEF RInv, MakeReport
<1> QED
  BY <1>1, <1>2 DEF ReportNext, vars, reportVars

\* Making a report changes nothing of loading.
LEMMA ReportLoads == ReportSpec => Spec
<1>1. ReportInit => Init
  BY DEF ReportInit
<1>2. [ReportNext]_<<vars, reportVars>> => [Next]_vars
  BY DEF ReportNext, MakeReport
<1> QED
  BY <1>1, <1>2, PTL DEF ReportSpec, Spec

LEMMA RInvCorrect == ReportSpec => []RInv
<1>1. ReportInit => RInv
  BY DEF ReportInit, RInv, Reported
<1>2. ReportSpec => []LInv
  BY ReportLoads, LInvCorrect, PTL
<1> QED
  BY <1>1, <1>2, RInvStep, PTL DEF ReportSpec

\* compute_critical_path is right for every workflow and every way its run may go:
\* the path is a chain of tasks that succeeded, in their order, no chain took
\* longer, and the Go engine's CriticalPath names the same ones.
THEOREM PathIsCriticalCorrect == ReportSpec => []PathIsCritical
<1> QED
  BY RInvCorrect, RInvPath, PTL

\* The output of every run is what its template says of that run, however deep the
\* references go (resolve_template), and a report that is written and read back
\* (to_dict, from_dict) has the same spans.
THEOREM ReportIsTrueCorrect == ReportSpec => []ReportIsTrue
<1> QED
  BY RInvCorrect, RInvReport, PTL

-----------------------------------------------------------------------------
(* What the engines assume of their task graph *)

Graph == INSTANCE TaskGraph WITH
    Tasks <- Ids(doc), DependsOn <- [id \in Ids(doc) |-> Listed(doc, id)]

\* Both engines run what the loader accepts (Workflow.validate), and what they are
\* proved correct for, a finite graph of known tasks without a cycle, is what it
\* accepts: the assumption of TaskGraph is met.
GraphOfAccepted ==
    verdict = "accepted" /\ doc.tasks # <<>> =>
        /\ IsFiniteSet(Ids(doc)) /\ Ids(doc) # {}
        /\ [id \in Ids(doc) |-> Listed(doc, id)] \in [Ids(doc) -> Seq(Ids(doc))]
        /\ Graph!Acyclic

\* Loading a document (from_dict, validate) gives the engines the graph they assume.
THEOREM GraphOfAcceptedCorrect == ReportSpec => []GraphOfAccepted
<1>1. LInv => GraphOfAccepted
  <2> SUFFICES ASSUME LInv, verdict = "accepted", doc.tasks # <<>>
               PROVE  /\ IsFiniteSet(Ids(doc)) /\ Ids(doc) # {}
                      /\ [id \in Ids(doc) |-> Listed(doc, id)] \in [Ids(doc) -> Seq(Ids(doc))]
                      /\ Graph!Acyclic
    BY DEF GraphOfAccepted
  <2>1. doc \in Docs /\ ~UnknownDep(doc) /\ AcyclicDoc
    BY DEF LInv, AcceptedIsRunnable
  <2>2. IsFiniteSet(Ids(doc))
    BY <2>1, FiniteIds
  <2>3. Ids(doc) # {}
    <3>1. doc.tasks \in Seq({doc.tasks[i] : i \in DOMAIN doc.tasks})
      BY <2>1, SpecAssumption DEF IsSeq
    <3>2. PICK i : i \in DOMAIN doc.tasks
      BY <3>1
    <3> QED
      BY <3>2 DEF Ids
  <2>4. ASSUME NEW id \in Ids(doc)
        PROVE  Listed(doc, id) \in Seq(Ids(doc)) /\ Graph!Deps(id) = Deps(doc, id)
    <3>1. Listed(doc, id) \in Seq(Ids(doc))
      BY <2>1, ListedLemma
    <3> QED
      BY <3>1 DEF Graph!Deps, Deps, Entries, Listed
  <2>5. Graph!Acyclic
    <3> SUFFICES ASSUME NEW S \in SUBSET Ids(doc), S # {}
                 PROVE  \E t \in S : Graph!Deps(t) \cap S = {}
      BY DEF Graph!Acyclic
    <3>1. PICK t \in S : Deps(doc, t) \cap S = {}
      BY <2>1 DEF AcyclicDoc
    <3> QED
      BY <2>4, <3>1
  <2> QED
    BY <2>2, <2>3, <2>4, <2>5
<1>2. ReportSpec => []LInv
  BY ReportLoads, LInvCorrect, PTL
<1> QED
  BY <1>1, <1>2, PTL
=============================================================================
