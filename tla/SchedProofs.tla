---------------------------- MODULE SchedProofs ----------------------------
(***************************************************************************)
(* The safety of the scheduler for every number of tasks: the run queue is *)
(* one ring of the tasks that ought to run, the processor never leaves the *)
(* task_structs, pids and task_structs are handed out once, and the timer  *)
(* gives the processor to runnable tasks only.                             *)
(***************************************************************************)
EXTENDS Sched, TLAPS

-----------------------------------------------------------------------------
(* Rings: what the operations of kernel/list.c do to a ring, for every heap *)
(* and every ring                                                          *)

(* __list_add between two neighbours p and n of a ring: the ring gains the *)
(* new node and nothing else (list.c:58-66).                               *)
THEOREM LinkKeepsRing ==
    ASSUME NEW N, NEW P, NEW nx \in [N -> P], NEW pv \in [N -> P],
           NEW R \in SUBSET N, IsRing(nx, pv, R),
           NEW p \in R, NEW n \in R, n = nx[p], NEW x \in N, x \notin R
    PROVE  IsRing(LinkNext(nx, x, p, n), LinkPrev(pv, x, p, n), R \cup {x})
  <1> DEFINE nx2 == LinkNext(nx, x, p, n)
             pv2 == LinkPrev(pv, x, p, n)
             R2  == R \cup {x}
  <1>1. /\ nx2[x] = n /\ nx2[p] = x
        /\ \A r \in R \ {p} : nx2[r] = nx[r]
    BY DEF LinkNext
  <1>2. /\ pv2[x] = p /\ pv2[n] = x
        /\ \A r \in R \ {n} : pv2[r] = pv[r]
    BY DEF LinkPrev
  <1>3. WellLinked(nx2, pv2, R2)
    <2> SUFFICES ASSUME NEW r \in R2
                 PROVE  /\ nx2[r] \in R2 /\ pv2[nx2[r]] = r
                        /\ pv2[r] \in R2 /\ nx2[pv2[r]] = r
      BY DEF WellLinked
    <2>1. WellLinked(nx, pv, R)
      BY DEF IsRing
    <2>2. CASE r = x
      BY <1>1, <1>2, <2>2
    <2>3. CASE r \in R
      <3>1. nx2[r] \in R2 /\ pv2[nx2[r]] = r
        <4>1. CASE r = p
          BY <1>1, <1>2, <4>1
        <4>2. CASE r # p
          <5>1. nx[r] \in R /\ pv[nx[r]] = r /\ nx[r] # n
            BY <2>1, <2>3, <4>2 DEF WellLinked
          <5> QED BY <1>1, <1>2, <2>3, <4>2, <5>1
        <4> QED BY <4>1, <4>2
      <3>2. pv2[r] \in R2 /\ nx2[pv2[r]] = r
        <4>1. CASE r = n
          BY <1>1, <1>2, <4>1
        <4>2. CASE r # n
          <5>1. pv[r] \in R /\ nx[pv[r]] = r /\ pv[r] # p
            BY <2>1, <2>3, <4>2 DEF WellLinked
          <5> QED BY <1>1, <1>2, <2>3, <4>2, <5>1
        <4> QED BY <4>1, <4>2
      <3> QED BY <3>1, <3>2
    <2> QED BY <2>2, <2>3
  <1>4. OneCircle(nx2, R2)
    <2> SUFFICES ASSUME NEW S \in SUBSET R2, S # {}, \A s \in S : nx2[s] \in S
                 PROVE  S = R2
      BY DEF OneCircle
    <2> DEFINE T == S \ {x}
    <2>1. T \in SUBSET R /\ T # {}
      BY <1>1
    <2>2. \A t \in T : nx[t] \in T
      BY <1>1, <2>1 DEF IsRing, WellLinked
    <2>3. T = R
      BY <2>1, <2>2 DEF IsRing, OneCircle
    <2> QED BY <1>1, <2>3
  <1> QED BY <1>3, <1>4 DEF IsRing

(* list_add on a ring: the new node joins it right after head              *)
(* (list.c:68-71).                                                         *)
THEOREM AddKeepsRing ==
    ASSUME NEW N, NEW P, NEW nx \in [N -> P], NEW pv \in [N -> P],
           NEW R \in SUBSET N, IsRing(nx, pv, R),
           NEW head \in R, NEW x \in N, x \notin R
    PROVE  IsRing(AddNext(nx, pv, x, head), AddPrev(nx, pv, x, head), R \cup {x})
  <1>1. nx[head] \in R
    BY DEF IsRing, WellLinked
  <1> QED BY <1>1, LinkKeepsRing DEF AddNext, AddPrev

(* list_add_tail on a ring: the new node joins it right before head        *)
(* (list.c:73-76).                                                         *)
THEOREM AddTailKeepsRing ==
    ASSUME NEW N, NEW P, NEW nx \in [N -> P], NEW pv \in [N -> P],
           NEW R \in SUBSET N, IsRing(nx, pv, R),
           NEW head \in R, NEW x \in N, x \notin R
    PROVE  IsRing(AddTailNext(nx, pv, x, head), AddTailPrev(nx, pv, x, head),
                  R \cup {x})
  <1>1. pv[head] \in R /\ nx[pv[head]] = head
    BY DEF IsRing, WellLinked
  <1> QED BY <1>1, LinkKeepsRing DEF AddTailNext, AddTailPrev

(* list_del of one node of a ring that has others: the rest is still one   *)
(* ring (list.c:40-51).                                                    *)
THEOREM DelKeepsRing ==
    ASSUME NEW N, NEW P, NEW nx \in [N -> P], NEW pv \in [N -> P],
           NEW R \in SUBSET N, IsRing(nx, pv, R),
           NEW x \in R, R # {x}
    PROVE  IsRing(DelNext(nx, pv, x), DelPrev(nx, pv, x), R \ {x})
  <1> DEFINE nx2 == DelNext(nx, pv, x)
             pv2 == DelPrev(nx, pv, x)
             R2  == R \ {x}
  <1>0. WellLinked(nx, pv, R)
    BY DEF IsRing
  <1>1. nx[x] # x /\ pv[x] # x
    <2>1. nx[x] # x
      <3> SUFFICES ASSUME nx[x] = x PROVE FALSE
        OBVIOUS
      <3>1. {x} \in SUBSET R /\ {x} # {} /\ \A s \in {x} : nx[s] \in {x}
        OBVIOUS
      <3> QED BY <3>1 DEF IsRing, OneCircle
    <2> QED BY <1>0, <2>1 DEF WellLinked
  <1>2. /\ nx2[pv[x]] = nx[x]
        /\ \A r \in R \ {pv[x]} : nx2[r] = nx[r]
    BY <1>0 DEF DelNext, WellLinked
  <1>3. /\ pv2[nx[x]] = pv[x]
        /\ \A r \in R \ {nx[x]} : pv2[r] = pv[r]
    BY <1>0 DEF DelPrev, WellLinked
  <1>4. WellLinked(nx2, pv2, R2)
    <2> SUFFICES ASSUME NEW r \in R2
                 PROVE  /\ nx2[r] \in R2 /\ pv2[nx2[r]] = r
                        /\ pv2[r] \in R2 /\ nx2[pv2[r]] = r
      BY DEF WellLinked
    <2>1. nx2[r] \in R2 /\ pv2[nx2[r]] = r
      <3>1. CASE r = pv[x]
        BY <1>0, <1>1, <1>2, <1>3, <3>1 DEF WellLinked
      <3>2. CASE r # pv[x]
        <4>1. nx[r] \in R /\ pv[nx[r]] = r /\ nx[r] # x /\ nx[r] # nx[x]
          BY <1>0, <3>2 DEF WellLinked
        <4> QED BY <1>2, <1>3, <3>2, <4>1
      <3> QED BY <3>1, <3>2
    <2>2. pv2[r] \in R2 /\ nx2[pv2[r]] = r
      <3>1. CASE r = nx[x]
        BY <1>0, <1>1, <1>2, <1>3, <3>1 DEF WellLinked
      <3>2. CASE r # nx[x]
        <4>1. pv[r] \in R /\ nx[pv[r]] = r /\ pv[r] # x /\ pv[r] # pv[x]
          BY <1>0, <3>2 DEF WellLinked
        <4> QED BY <1>2, <1>3, <3>2, <4>1
      <3> QED BY <3>1, <3>2
    <2> QED BY <2>1, <2>2
  <1>5. OneCircle(nx2, R2)
    <2> SUFFICES ASSUME NEW S \in SUBSET R2, S # {}, \A s \in S : nx2[s] \in S
                 PROVE  S = R2
      BY DEF OneCircle
    <2>1. CASE pv[x] \in S
      <3> DEFINE T == S \cup {x}
      <3>1. T \in SUBSET R /\ T # {}
        OBVIOUS
      <3>2. \A t \in T : nx[t] \in T
        <4>1. nx[pv[x]] = x /\ pv[x] \in R
          BY <1>0 DEF WellLinked
        <4>2. nx[x] \in S
          BY <1>2, <2>1
        <4>3. ASSUME NEW s \in S, s # pv[x] PROVE nx[s] \in S
          BY <1>2, <4>3
        <4> QED BY <4>1, <4>2, <4>3
      <3>3. T = R
        BY <3>1, <3>2 DEF IsRing, OneCircle
      <3> QED BY <3>3
    <2>2. CASE pv[x] \notin S
      <3>1. \A s \in S : nx[s] \in S
        BY <1>2, <2>2
      <3>2. S \in SUBSET R
        OBVIOUS
      <3>3. S = R
        BY <3>1, <3>2 DEF IsRing, OneCircle
      <3> QED BY <3>3
    <2> QED BY <2>1, <2>2
  <1> QED BY <1>4, <1>5 DEF IsRing

(* list_init makes a ring of one node (list.c:9-13).                       *)
THEOREM InitMakesRing ==
    ASSUME NEW N, NEW P, NEW nx \in [N -> P], NEW pv \in [N -> P], NEW x \in N
    PROVE  IsRing(ListInit(nx, x), ListInit(pv, x), {x})
  BY DEF IsRing, WellLinked, OneCircle, ListInit

(* Whatever happens to other nodes, a ring whose links nobody writes stays *)
(* a ring.                                                                 *)
THEOREM FrameKeepsRing ==
    ASSUME NEW nx, NEW pv, NEW nx2, NEW pv2, NEW R, IsRing(nx, pv, R),
           \A r \in R : nx2[r] = nx[r] /\ pv2[r] = pv[r]
    PROVE  IsRing(nx2, pv2, R)
  <1>1. WellLinked(nx2, pv2, R)
    BY DEF IsRing, WellLinked
  <1>2. OneCircle(nx2, R)
    <2> SUFFICES ASSUME NEW S \in SUBSET R, S # {}, \A s \in S : nx2[s] \in S
                 PROVE  S = R
      BY DEF OneCircle
    <2>1. \A s \in S : nx[s] \in S
      OBVIOUS
    <2> QED BY <2>1 DEF IsRing, OneCircle
  <1> QED BY <1>1, <1>2 DEF IsRing

-----------------------------------------------------------------------------
(* The scheduler                                                           *)

(* do_fork, while no two tasks are inside it.                              *)
ForkDone ==
    /\ pc[Boot] \in {"run"} \cup InFork
    /\ \A k \in Task : k >= base => pc[k] = "none"
    /\ \A k \in Task \ {Boot} : pc[k] # "none" => pidOf[k] < pid
    /\ \A t, u \in Task \ {Boot} :
          pc[t] # "none" /\ pc[u] # "none" /\ t # u => pidOf[t] # pidOf[u]

ForkUnderway ==
    \A t \in Task : pc[t] \in InFork =>
        /\ \A u \in Task : pc[u] \in InFork => u = t
        /\ pc[t] = "bump" => reg[t] = base
        /\ pc[t] # "bump" => reg[t] = base - 1
        /\ pc[reg[t]] = "none"
        /\ pc[t] = "setpid" => preg[t] = pid
        /\ pc[t] = "link" =>
              /\ pidOf[reg[t]] = pid - 1
              /\ \A k \in Task \ {Boot} : pc[k] # "none" => pidOf[k] < pid - 1

ForkInv == "fork" \notin breach => ForkDone /\ ForkUnderway

(* The wait queue, and where the timer can go from each task.              *)
QueueInOrder ==
    /\ \A t \in Task : pc[t] \in InSleep =>
          /\ next[Wq] \in {Wq, t}
          /\ \A u \in Task : pc[u] \in InSleep \cup {"asleep"} => u = t
    /\ \A t \in Task : pc[t] = "asleep" => next[Wq] = t

WaysOut ==
    /\ pc[cur] # "none"
    /\ \A t \in Task : pc[t] \in InSleep \cup {"asleep"} =>
          tmp \in Task /\ pc[tmp] # "none"
    /\ \A t \in Task : pc[t] = "exited" => next[t] \in Task /\ pc[next[t]] # "none"
    /\ \A t \in Task : pc[t] \in {"move", "asleep"} => state[t] = 1
    /\ \A t \in Task \ {Boot} : state[t] = 1 => pc[t] \in {"move", "asleep"}

InOrder == ~wild /\ IsRing(next, prev, Ring) /\ QueueInOrder /\ WaysOut

(* The task picked to run after a sleeper, while no rule is broken.        *)
Picked ==
    /\ \A t \in Task : pc[t] \in InSleep => tmp \in Ring \ {t}
    /\ pc[cur] = "asleep" => tmp \in Ring
    /\ pc[cur] = "exited" => next[cur] \in Ring

IInv ==
    /\ TypeOK
    /\ ForkInv
    /\ LinksInOrder => InOrder
    /\ breach = {} => Picked

-----------------------------------------------------------------------------
(* Types                                                                   *)

Link == Node \cup {Null}

\* The list calls keep the links typed, whatever they are called on.
LEMMA ListCallsTyped ==
    ASSUME NEW nx \in [Node -> Link], NEW pv \in [Node -> Link],
           NEW x \in Node, NEW h \in Node
    PROVE  /\ ListInit(nx, x) \in [Node -> Link]
           /\ DelNext(nx, pv, x) \in [Node -> Link]
           /\ DelPrev(nx, pv, x) \in [Node -> Link]
           /\ AddNext(nx, pv, x, h) \in [Node -> Link]
           /\ AddPrev(nx, pv, x, h) \in [Node -> Link]
           /\ AddTailNext(nx, pv, x, h) \in [Node -> Link]
           /\ AddTailPrev(nx, pv, x, h) \in [Node -> Link]
  <1>1. x \in Link /\ h \in Link
    BY DEF Link
  <1>2. \A n \in Node : nx[n] \in Link /\ pv[n] \in Link
    OBVIOUS
  <1> HIDE DEF Link
  <1> QED
    BY <1>1, <1>2 DEF ListInit, DelNext, DelPrev, AddNext, AddPrev, AddTailNext,
                      AddTailPrev, LinkNext, LinkPrev

(* Every variable stays in its range.                                      *)
LEMMA TypeInit == Init => TypeOK
  <1> SUFFICES ASSUME Init PROVE TypeOK
    OBVIOUS
  <1>1. Boot \in Task /\ MaxTask \in Nat \ {0} /\ MaxPid \in Nat
    BY SchedAssumption DEF Boot, Task
  <1>2. next \in [Node -> Node \cup {Null}] /\ prev \in [Node -> Node \cup {Null}]
    BY <1>1 DEF Init, Node
  <1>3. state \in [Task -> {0, 1}] /\ pc \in [Task -> PC]
    BY DEF Init, PC
  <1>4. tmp \in Node \cup {Null} /\ cur \in Task /\ reg \in [Task -> Task]
    BY <1>1 DEF Init, Boot
  <1>5. /\ base \in 1 .. MaxTask + 1 /\ pid \in 0 .. MaxPid + 1
        /\ pidOf \in [Task -> 0 .. MaxPid] /\ preg \in [Task -> 0 .. MaxPid]
    BY <1>1 DEF Init
  <1> QED BY <1>2, <1>3, <1>4, <1>5 DEF Init, TypeOK

LEMMA TypeStep == TypeOK /\ [Next]_vars => TypeOK'
  <1> SUFFICES ASSUME TypeOK, [Next]_vars PROVE TypeOK'
    OBVIOUS
  <1>0. /\ Boot \in Task /\ Task \subseteq Node /\ Wq \in Node
        /\ MaxTask \in Nat /\ MaxPid \in Nat
    BY SchedAssumption DEF Task, Boot, Node
  <1>1. next \in [Node -> Link] /\ prev \in [Node -> Link]
    BY DEF TypeOK, Link
  <1>2. ASSUME NEW r \in Rules, NEW ok, Demand(r, ok)
        PROVE  breach' \in SUBSET Rules
    BY <1>2 DEF Demand, TypeOK
  <1>3. ASSUME NEW t \in Task, WqInit(t) PROVE TypeOK'
    <2>1. next' \in [Node -> Link] /\ prev' \in [Node -> Link]
      BY <1>0, <1>1, <1>3, ListCallsTyped DEF WqInit
    <2>2. breach' \in SUBSET Rules
      BY <1>2, <1>3 DEF WqInit, Rules
    <2> QED BY <1>3, <2>1, <2>2 DEF WqInit, TypeOK, Link, Goto, PC, forks
  <1>4. ASSUME NEW t \in Task, SleepSave(t) PROVE TypeOK'
    <2>1. breach' \in SUBSET Rules
      BY <1>2, <1>4 DEF SleepSave, Rules
    <2>2. tmp' \in Link
      BY <1>0, <1>1, <1>4 DEF SleepSave
    <2> QED BY <1>4, <2>1, <2>2 DEF SleepSave, TypeOK, Link, Goto, PC, InSleep, forks, links
  <1>5. ASSUME NEW t \in Task, SleepMark(t) PROVE TypeOK'
    BY <1>5 DEF SleepMark, TypeOK, Goto, PC, InSleep, forks, links
  <1>6. ASSUME NEW t \in Task, SleepMove(t) PROVE TypeOK'
    <2>1. next' \in [Node -> Link] /\ prev' \in [Node -> Link]
      <3> DEFINE nx == DelNext(next, prev, t)
                 pv == DelPrev(next, prev, t)
      <3>1. nx \in [Node -> Link] /\ pv \in [Node -> Link] /\ t \in Node
        BY <1>0, <1>1, ListCallsTyped
      <3>2. \/ next' = next /\ prev' = prev
            \/ next' = AddNext(nx, pv, t, Wq) /\ prev' = AddPrev(nx, pv, t, Wq)
        BY <1>6 DEF SleepMove, links
      <3> HIDE DEF nx, pv
      <3>3. AddNext(nx, pv, t, Wq) \in [Node -> Link] /\ AddPrev(nx, pv, t, Wq) \in [Node -> Link]
        BY <1>0, <3>1, ListCallsTyped
      <3> QED BY <1>1, <3>2, <3>3
    <2>2. pc' \in [Task -> PC] /\ wild' \in BOOLEAN
      BY <1>6 DEF SleepMove, TypeOK, Goto, PC
    <2> QED BY <1>6, <2>1, <2>2 DEF SleepMove, TypeOK, Link, forks
  <1>7. ASSUME NEW t \in Task, WakeUp(t) PROVE TypeOK'
    <2>1. breach' \in SUBSET Rules
      BY <1>2, <1>7 DEF WakeUp, Rules
    <2>2. CASE next[Wq] \in Task /\ next[t] # Null
      <3>1. /\ next' = AddNext(next, prev, next[Wq], t)
            /\ prev' = AddPrev(next, prev, next[Wq], t)
        BY <1>7, <2>2 DEF WakeUp
      <3>2. next' \in [Node -> Link] /\ prev' \in [Node -> Link]
        BY <1>0, <1>1, <2>2, <3>1, ListCallsTyped
      <3>3. pc' \in [Task -> PC] /\ state' \in [Task -> {0, 1}]
        BY <1>7, <2>2 DEF WakeUp, TypeOK, PC
      <3> QED BY <1>7, <2>1, <2>2, <3>2, <3>3 DEF WakeUp, TypeOK, Link, forks
    <2>3. CASE ~(next[Wq] \in Task /\ next[t] # Null)
      BY <1>7, <2>1, <2>3 DEF WakeUp, TypeOK, links, forks
    <2> QED BY <2>2, <2>3
  <1>8. ASSUME NEW t \in Task, ForkSlot(t) PROVE TypeOK'
    <2>1. breach' \in SUBSET Rules
      BY <1>2, <1>8 DEF ForkSlot, Rules
    <2>2. base \in Task
      BY <1>0, <1>8 DEF ForkSlot, TypeOK, Task
    <2> QED BY <1>8, <2>1, <2>2 DEF ForkSlot, TypeOK, Goto, PC, InFork, links
  <1>9. ASSUME NEW t \in Task, ForkBump(t) PROVE TypeOK'
    <2>1. next' \in [Node -> Link] /\ prev' \in [Node -> Link]
      BY <1>1, <1>9 DEF ForkBump, Link
    <2>2. base' \in 1 .. MaxTask + 1
      BY <1>0, <1>9 DEF ForkBump, TypeOK, Task
    <2> QED BY <1>9, <2>1, <2>2 DEF ForkBump, TypeOK, Link, Goto, PC, InFork
  <1>10. ASSUME NEW t \in Task, ForkReadPid(t) PROVE TypeOK'
    <2>1. pid \in 0 .. MaxPid
      BY <1>0, <1>10 DEF ForkReadPid, TypeOK
    <2> QED BY <1>10, <2>1 DEF ForkReadPid, TypeOK, Goto, PC, InFork, links
  <1>11. ASSUME NEW t \in Task, ForkSetPid(t) PROVE TypeOK'
    <2>1. pid' \in 0 .. MaxPid + 1
      BY <1>0, <1>11 DEF ForkSetPid, TypeOK
    <2> QED BY <1>11, <2>1 DEF ForkSetPid, TypeOK, Goto, PC, InFork, links
  <1>12. ASSUME NEW t \in Task, ForkLink(t) PROVE TypeOK'
    <2>1. next' \in [Node -> Link] /\ prev' \in [Node -> Link]
      <3>1. t \in Node /\ reg[t] \in Node
        BY <1>0 DEF TypeOK
      <3> QED BY <1>1, <1>12, <3>1, ListCallsTyped DEF ForkLink, links
    <2>2. pc' \in [Task -> PC] /\ wild' \in BOOLEAN
      BY <1>12 DEF ForkLink, TypeOK, PC
    <2> QED BY <1>12, <2>1, <2>2 DEF ForkLink, TypeOK, Link, forks
  <1>13. ASSUME NEW t \in Task, Exit(t) PROVE TypeOK'
    <2>1. breach' \in SUBSET Rules
      BY <1>2, <1>13 DEF Exit, Rules
    <2>2. next' \in [Node -> Link] /\ prev' \in [Node -> Link]
      <3>1. t \in Node
        BY <1>0
      <3>2. DelNext(next, prev, t) \in [Node -> Link] /\ DelPrev(next, prev, t) \in [Node -> Link]
        BY <1>1, <3>1, ListCallsTyped
      <3> QED BY <1>1, <1>13, <3>2 DEF Exit, links
    <2>3. pc' \in [Task -> PC] /\ wild' \in BOOLEAN
      BY <1>13 DEF Exit, TypeOK, Goto, PC
    <2> QED BY <1>13, <2>1, <2>2, <2>3 DEF Exit, TypeOK, Link, forks
  <1>14. CASE Tick
    <2>1. breach' \in SUBSET Rules
      BY <1>2, <1>14 DEF Tick, Rules
    <2> QED BY <1>14, <2>1 DEF Tick, TypeOK, links, forks
  <1>15. CASE Wild \/ UNCHANGED vars
    BY <1>15 DEF Wild, vars, TypeOK
  <1> QED
    BY <1>3, <1>4, <1>5, <1>6, <1>7, <1>8, <1>9, <1>10, <1>11, <1>12, <1>13,
       <1>14, <1>15 DEF Next, Sleep, Fork

(* The type invariant of the scheduler (all of sched.c and fork.c).        *)
THEOREM TypeCorrect == Spec => []TypeOK
  BY TypeInit, TypeStep, PTL DEF Spec

-----------------------------------------------------------------------------
(* do_fork                                                                 *)

LEMMA ForkInit == Init => ForkInv
  <1> SUFFICES ASSUME Init PROVE ForkDone /\ ForkUnderway
    BY DEF ForkInv
  <1>1. \A k \in Task \ {Boot} : pc[k] = "none"
    BY DEF Init
  <1>2. pc[Boot] = "run"
    BY SchedAssumption DEF Init, Task, Boot
  <1>3. \A k \in Task : k >= base => k # Boot
    BY DEF Init, Boot, Task
  <1> QED BY <1>1, <1>2, <1>3 DEF ForkDone, ForkUnderway, InFork

\* Actions outside do_fork leave what do_fork relies on as it was.
LEMMA ForkFrame ==
    ASSUME ForkDone, ForkUnderway, UNCHANGED forks,
           \A t \in Task : /\ pc'[t] = "none" <=> pc[t] = "none"
                           /\ pc'[t] \in InFork \/ pc[t] \in InFork => pc'[t] = pc[t],
           pc'[Boot] \in {"run"} \cup InFork,
           TypeOK
    PROVE  ForkDone' /\ ForkUnderway'
  <1>1. ForkDone'
    BY DEF ForkDone, forks
  <1>2. ForkUnderway'
    BY DEF ForkUnderway, forks, TypeOK
  <1> QED BY <1>1, <1>2

LEMMA ForkStep == TypeOK /\ ForkInv /\ [Next]_vars => ForkInv'
  <1> SUFFICES ASSUME TypeOK, ForkInv, [Next]_vars, "fork" \notin breach'
               PROVE  ForkDone' /\ ForkUnderway'
    BY DEF ForkInv
  <1>0. /\ Boot \in Task /\ MaxTask \in Nat /\ Task \subseteq Int /\ base \in Nat /\ pid \in Nat
        /\ \A k \in Task : pidOf[k] \in Nat /\ preg[k] \in Nat
    <2>1. Boot \in Task /\ MaxTask \in Nat /\ MaxPid \in Nat /\ Task \subseteq Int
      BY SchedAssumption DEF Task, Boot
    <2>2. base \in Nat /\ pid \in Nat
      BY <2>1 DEF TypeOK
    <2>3. \A k \in Task : pidOf[k] \in Nat /\ preg[k] \in Nat
      BY <2>1 DEF TypeOK
    <2> QED BY <2>1, <2>2, <2>3
  <1>1. ASSUME "fork" \in breach PROVE FALSE
    BY <1>1 DEF Next, Sleep, Fork, WqInit, SleepSave, SleepMark, SleepMove, WakeUp, ForkSlot,
           ForkBump, ForkReadPid, ForkSetPid, ForkLink, Exit, Tick, Wild, vars, Demand
  <1>2. ForkDone /\ ForkUnderway
    BY <1>1 DEF ForkInv
  <1>3. ASSUME NEW t \in Task, Sleep(t) PROVE ForkDone' /\ ForkUnderway'
    <2>1. UNCHANGED forks
      BY <1>3 DEF Sleep, WqInit, SleepSave, SleepMark, SleepMove
    <2>2. /\ pc[t] \in {"fresh", "run", "mark", "move"}
          /\ pc' = pc \/ \E l \in {"run", "mark", "move", "asleep"} : pc' = [pc EXCEPT ![t] = l]
      BY <1>3 DEF Sleep, WqInit, SleepSave, SleepMark, SleepMove, At, Goto
    <2>3. pc'[Boot] = pc[Boot]
      <3>1. t = Boot => pc[t] = "run"
        BY <1>2, <2>2 DEF ForkDone, InFork
      <3>2. t = Boot => ~ SleepSave(t)
        <4>1. Boot \notin Sleepers
          BY SchedAssumption DEF Boot
        <4> QED BY <4>1 DEF SleepSave
      <3>3. t # Boot
        BY <1>3, <3>1, <3>2 DEF Sleep, WqInit, SleepMark, SleepMove, At
      <3> QED BY <1>0, <2>2, <3>3 DEF TypeOK
    <2> QED BY <1>2, <2>1, <2>2, <2>3, ForkFrame DEF TypeOK, InFork, ForkDone
  <1>4. ASSUME NEW t \in Task, WakeUp(t) PROVE ForkDone' /\ ForkUnderway'
    <2>1. \A u \in Task : pc'[u] = pc[u] \/ (pc[u] = "asleep" /\ pc'[u] = "run")
      <3>1. pc' = pc \/ \E q \in Task : pc[q] = "asleep" /\ pc' = [pc EXCEPT ![q] = "run"]
        BY <1>4 DEF WakeUp
      <3>2. pc \in [Task -> PC]
        BY DEF TypeOK
      <3> QED BY <3>1, <3>2
    <2>2. UNCHANGED forks
      BY <1>4 DEF WakeUp
    <2> QED BY <1>0, <1>2, <2>1, <2>2, ForkFrame DEF InFork, ForkDone
  <1>5. ASSUME NEW t \in Task, Exit(t) PROVE ForkDone' /\ ForkUnderway'
    <2>1. \A u \in Task : pc'[u] = pc[u] \/ (u = t /\ pc[u] = "run" /\ pc'[u] = "exited")
      <3>1. pc[t] = "run" /\ (pc' = pc \/ pc' = [pc EXCEPT ![t] = "exited"])
        BY <1>5 DEF Exit, At, Goto
      <3>2. pc \in [Task -> PC]
        BY DEF TypeOK
      <3> QED BY <3>1, <3>2
    <2>2. UNCHANGED forks /\ t # Boot
      BY <1>5 DEF Exit
    <2> QED BY <1>0, <1>2, <2>1, <2>2, ForkFrame DEF InFork, ForkDone
  <1>6. CASE Tick \/ Wild \/ UNCHANGED vars
    <2>1. UNCHANGED <<forks, pc>>
      BY <1>6 DEF Tick, Wild, vars, forks
    <2> QED BY <1>2, <2>1, ForkFrame DEF ForkDone
  <1>7. ASSUME NEW t \in Task, ForkSlot(t) PROVE ForkDone' /\ ForkUnderway'
    <2>1. \A u \in Task : pc[u] \notin InFork
      BY <1>7 DEF ForkSlot, Demand
    <2>2. pc' = [pc EXCEPT ![t] = "bump"] /\ pc[t] = "run"
      BY <1>7 DEF ForkSlot, Goto, At
    <2>3. reg' = [reg EXCEPT ![t] = base] /\ base \in Task
      BY <1>0, <1>7 DEF ForkSlot, Task, TypeOK
    <2>4. base' = base /\ pid' = pid /\ pidOf' = pidOf
      BY <1>7 DEF ForkSlot
    <2>5. ForkDone'
      BY <1>2, <2>2, <2>4 DEF ForkDone, TypeOK, InFork
    <2>6. ForkUnderway'
      <3>1. reg'[t] = base /\ pc'[t] = "bump" /\ pc[base] = "none"
        BY <1>0, <1>2, <2>2, <2>3 DEF ForkDone, TypeOK
      <3>2. \A u \in Task : pc'[u] \in InFork => u = t
        BY <2>1, <2>2 DEF TypeOK
      <3>3. pc'[base] = "none"
        BY <2>2, <2>3, <3>1 DEF TypeOK
      <3> QED BY <2>4, <3>1, <3>2, <3>3 DEF ForkUnderway
    <2> QED BY <2>5, <2>6
  <1>8. ASSUME NEW t \in Task, ForkBump(t) PROVE ForkDone' /\ ForkUnderway'
    <2>1. pc' = [pc EXCEPT ![t] = "readpid"] /\ pc[t] = "bump"
      BY <1>8 DEF ForkBump, Goto, At
    <2>2. /\ reg[t] = base /\ pc[base] = "none"
          /\ \A u \in Task : pc[u] \in InFork => u = t
      BY <1>2, <2>1 DEF ForkUnderway, InFork
    <2>3. base' = base + 1 /\ pid' = pid /\ pidOf' = pidOf /\ reg' = reg
      BY <1>8, <2>2 DEF ForkBump
    <2>4. ForkDone'
      BY <1>0, <1>2, <2>1, <2>3 DEF ForkDone, TypeOK, InFork
    <2>5. ForkUnderway'
      BY <1>0, <2>1, <2>2, <2>3 DEF ForkUnderway, TypeOK, InFork
    <2> QED BY <2>4, <2>5
  <1>9. ASSUME NEW t \in Task, ForkReadPid(t) PROVE ForkDone' /\ ForkUnderway'
    <2>1. pc' = [pc EXCEPT ![t] = "setpid"] /\ pc[t] = "readpid"
      BY <1>9 DEF ForkReadPid, Goto, At
    <2>2. /\ reg[t] = base - 1 /\ pc[reg[t]] = "none"
          /\ \A u \in Task : pc[u] \in InFork => u = t
      BY <1>2, <2>1 DEF ForkUnderway, InFork
    <2>3. /\ base' = base /\ pid' = pid /\ pidOf' = pidOf /\ reg' = reg
          /\ preg'[t] = pid
      BY <1>9 DEF ForkReadPid, TypeOK
    <2>4. ForkDone'
      BY <1>2, <2>1, <2>3 DEF ForkDone, TypeOK, InFork
    <2>5. ForkUnderway'
      BY <2>1, <2>2, <2>3 DEF ForkUnderway, TypeOK, InFork
    <2> QED BY <2>4, <2>5
  <1>10. ASSUME NEW t \in Task, ForkSetPid(t) PROVE ForkDone' /\ ForkUnderway'
    <2>1. pc' = [pc EXCEPT ![t] = "link"] /\ pc[t] = "setpid"
      BY <1>10 DEF ForkSetPid, Goto, At
    <2>2. /\ reg[t] = base - 1 /\ pc[reg[t]] = "none" /\ preg[t] = pid
          /\ \A u \in Task : pc[u] \in InFork => u = t
      BY <1>2, <2>1 DEF ForkUnderway, InFork
    <2>3. /\ base' = base /\ pid' = pid + 1 /\ reg' = reg
          /\ pidOf'[reg[t]] = pid
          /\ \A k \in Task : pc[k] # "none" => pidOf'[k] = pidOf[k]
      BY <1>10, <2>2 DEF ForkSetPid, TypeOK
    <2>4. \A k \in Task : pc'[k] = "none" <=> pc[k] = "none"
      BY <2>1 DEF TypeOK
    <2>5. ForkDone'
      BY <1>0, <1>2, <2>1, <2>3, <2>4 DEF ForkDone, TypeOK, InFork
    <2>6. ForkUnderway'
      <3>1. \A k \in Task \ {Boot} : pc'[k] # "none" => pidOf'[k] < pid' - 1
        BY <1>0, <1>2, <2>3, <2>4 DEF ForkDone
      <3>2. \A u \in Task : pc'[u] \in InFork => u = t
        BY <2>1, <2>2 DEF TypeOK
      <3>3. reg[t] \in Task
        BY DEF TypeOK
      <3> QED BY <1>0, <2>1, <2>2, <2>3, <2>4, <3>1, <3>2, <3>3 DEF ForkUnderway, TypeOK, InFork
    <2> QED BY <2>5, <2>6
  <1>11. ASSUME NEW t \in Task, ForkLink(t) PROVE ForkDone' /\ ForkUnderway'
    <2>1. pc[t] = "link" /\ UNCHANGED forks
      BY <1>11 DEF ForkLink, At
    <2>2. /\ reg[t] = base - 1 /\ pc[reg[t]] = "none" /\ pidOf[reg[t]] = pid - 1
          /\ \A k \in Task \ {Boot} : pc[k] # "none" => pidOf[k] < pid - 1
          /\ \A u \in Task : pc[u] \in InFork => u = t
      BY <1>2, <2>1 DEF ForkUnderway, InFork
    <2>3. CASE pc' = pc
      BY <1>2, <2>1, <2>3, ForkFrame DEF ForkDone
    <2>4. CASE pc' # pc
      <3>1. /\ pc'[t] = "run"
            /\ pc'[reg[t]] \in {"fresh", "run"}
            /\ \A k \in Task \ {t, reg[t]} : pc'[k] = pc[k]
        <4>1. reg[t] \in Task /\ reg[t] # t
          BY <2>1, <2>2 DEF TypeOK
        <4> QED BY <1>11, <2>4, <4>1 DEF ForkLink, TypeOK
      <3>2. ForkDone'
        <4>1. reg[t] # Boot
          BY <1>2, <2>2 DEF ForkDone, InFork
        <4>2. \A k \in Task : k # reg[t] => (pc'[k] = "none" <=> pc[k] = "none")
          BY <2>1, <3>1
        <4>3. pc'[Boot] \in {"run"} \cup InFork
          BY <1>0, <1>2, <3>1, <4>1 DEF ForkDone
        <4>4. reg[t] \in Task
          BY DEF TypeOK
        <4> QED BY <1>0, <1>2, <2>1, <2>2, <3>1, <4>1, <4>2, <4>3, <4>4 DEF ForkDone, forks
      <3>3. \A u \in Task : pc'[u] \notin InFork
        BY <2>2, <3>1 DEF InFork
      <3> QED BY <3>2, <3>3 DEF ForkUnderway
    <2> QED BY <2>3, <2>4
  <1> QED
    BY <1>3, <1>4, <1>5, <1>6, <1>7, <1>8, <1>9, <1>10, <1>11 DEF Next, Fork

-----------------------------------------------------------------------------
(* The run queue                                                           *)

LEMMA Nodes ==
    /\ Boot \in Task /\ Task \subseteq Node /\ Wq \in Node /\ Wq \notin Task
    /\ Null \notin Node /\ Boot \notin Sleepers
  BY SchedAssumption DEF Boot, Task, Node, Wq, Null

\* What a task of the ring has as neighbours.
LEMMA Neighbours ==
    ASSUME IsRing(next, prev, Ring), NEW t \in Ring
    PROVE  /\ next[t] \in Ring /\ prev[t] \in Ring
           /\ Ring \subseteq Task /\ Ring \subseteq Node
           /\ next[t] # Null /\ prev[t] # Null
           /\ Boot \in Ring /\ t # Boot => Ring # {t} /\ next[t] # t
  <1>1. next[t] \in Ring /\ prev[t] \in Ring
    BY DEF IsRing, WellLinked
  <1>2. Ring \subseteq Task /\ Ring \subseteq Node
    BY Nodes DEF Ring
  <1>3. ASSUME Boot \in Ring, t # Boot, next[t] = t PROVE FALSE
    <2>1. {t} \in SUBSET Ring /\ {t} # {} /\ \A s \in {t} : next[s] \in {t}
      BY <1>3
    <2>2. {t} = Ring
      BY <2>1 DEF IsRing, OneCircle
    <2> QED BY <1>3, <2>2
  <1> QED BY <1>1, <1>2, <1>3, Nodes

LEMMA OrderInit == Init => InOrder
  <1> SUFFICES ASSUME Init PROVE InOrder
    OBVIOUS
  <1>1. Ring = {Boot}
    BY Nodes DEF Init, Ring
  <1>2. next[Boot] = Boot /\ prev[Boot] = Boot
    BY Nodes DEF Init
  <1>3. IsRing(next, prev, Ring)
    BY <1>1, <1>2 DEF IsRing, WellLinked, OneCircle
  <1>4. \A t \in Task : pc[t] \in {"run", "none"} /\ (t # Boot => state[t] = 0)
    BY DEF Init
  <1>5. pc[cur] = "run"
    BY Nodes DEF Init
  <1> QED BY <1>3, <1>4, <1>5 DEF InOrder, QueueInOrder, WaysOut, InSleep, Init

LEMMA OrderStep ==
    TypeOK /\ ForkInv /\ (LinksInOrder => InOrder) /\ [Next]_vars
        => (LinksInOrder => InOrder)'
  <1> SUFFICES ASSUME TypeOK, ForkInv, LinksInOrder => InOrder, [Next]_vars,
                      LinksInOrder'
               PROVE  InOrder'
    OBVIOUS
  <1>1. breach \subseteq breach'
    BY DEF Next, Sleep, Fork, WqInit, SleepSave, SleepMark, SleepMove, WakeUp, ForkSlot,
           ForkBump, ForkReadPid, ForkSetPid, ForkLink, Exit, Tick, Wild, vars, Demand
  <1>2. InOrder /\ ForkDone /\ ForkUnderway
    BY <1>1 DEF LinksInOrder, ForkInv
  <1>3. ASSUME NEW r \in {"boot", "fork", "sleep", "wake"}, NEW ok, Demand(r, ok)
        PROVE  ok
    BY <1>3 DEF Demand, LinksInOrder
  <1>4. IsRing(next, prev, Ring) /\ QueueInOrder /\ WaysOut /\ ~wild
    BY <1>2 DEF InOrder
  <1>5. /\ pc \in [Task -> PC] /\ state \in [Task -> {0, 1}]
        /\ next \in [Node -> Link] /\ prev \in [Node -> Link]
        /\ reg \in [Task -> Task] /\ cur \in Task
    BY DEF TypeOK, Link
  <1>6. Boot \in Ring /\ Ring \subseteq Task /\ Ring \subseteq Node
    BY <1>2, Nodes DEF ForkDone, Ring, InFork
  <1>7. ASSUME NEW t \in Task, WqInit(t) PROVE InOrder'
    <2>1. pc[t] = "fresh" /\ pc' = [pc EXCEPT ![t] = "run"]
      BY <1>7 DEF WqInit, At, Goto
    <2>2. next' = [next EXCEPT ![Wq] = Wq] /\ prev' = [prev EXCEPT ![Wq] = Wq]
      BY <1>7 DEF WqInit, ListInit
    <2>3. state' = state /\ tmp' = tmp /\ cur' = cur /\ wild' = wild
      BY <1>7 DEF WqInit
    <2>4. next[Wq] = Null
      BY <1>3, <1>7 DEF WqInit
    <2>5. \A u \in Task : pc[u] \notin InSleep \cup {"asleep"}
      BY <1>4, <2>4, Nodes DEF QueueInOrder
    <2>6. Ring' = Ring
      BY <1>5, <2>1 DEF Ring
    <2>7. IsRing(next', prev', Ring')
      <3>1. \A r \in Ring : next'[r] = next[r] /\ prev'[r] = prev[r]
        BY <1>5, <1>6, <2>2, Nodes
      <3> QED BY <1>4, <2>6, <3>1, FrameKeepsRing
    <2>8. QueueInOrder'
      BY <1>5, <2>1, <2>5 DEF QueueInOrder, InSleep
    <2>9. WaysOut'
      <3>1. \A u \in Task : next'[u] = next[u]
        BY <1>5, <2>2, Nodes
      <3> QED BY <1>4, <1>5, <2>1, <2>3, <2>5, <3>1 DEF WaysOut, InSleep
    <2> QED BY <1>4, <2>3, <2>7, <2>8, <2>9 DEF InOrder
  <1>8. ASSUME NEW t \in Task, SleepSave(t) PROVE InOrder'
    <2>1. pc[t] = "run" /\ pc' = [pc EXCEPT ![t] = "mark"]
      BY <1>8 DEF SleepSave, At, Goto
    <2>2. /\ next' = next /\ prev' = prev /\ state' = state /\ tmp' = next[t]
          /\ cur' = cur /\ wild' = wild
      BY <1>8 DEF SleepSave, links
    <2>3. /\ next[Wq] \in {Wq, t}
          /\ \A u \in Task : pc[u] \notin InSleep \cup {"asleep"}
      BY <1>3, <1>8 DEF SleepSave
    <2>4. Ring' = Ring
      BY <1>5, <2>1 DEF Ring
    <2>5. QueueInOrder'
      BY <1>5, <2>1, <2>2, <2>3 DEF QueueInOrder, InSleep
    <2>6. WaysOut'
      <3>1. t \in Ring
        BY <2>1 DEF Ring
      <3>2. next[t] \in Task /\ pc[next[t]] # "none"
        BY <1>4, <3>1, Neighbours DEF Ring
      <3> QED BY <1>4, <1>5, <2>1, <2>2, <2>3, <3>2 DEF WaysOut, InSleep
    <2> QED BY <1>4, <2>2, <2>4, <2>5, <2>6 DEF InOrder
  <1>9. ASSUME NEW t \in Task, SleepMark(t) PROVE InOrder'
    <2>1. pc[t] = "mark" /\ pc' = [pc EXCEPT ![t] = "move"]
      BY <1>9 DEF SleepMark, At, Goto
    <2>2. /\ next' = next /\ prev' = prev /\ state' = [state EXCEPT ![t] = 1]
          /\ tmp' = tmp /\ cur' = cur /\ wild' = wild
      BY <1>9 DEF SleepMark, links
    <2>3. Ring' = Ring
      BY <1>5, <2>1 DEF Ring
    <2>4. QueueInOrder'
      BY <1>4, <1>5, <2>1, <2>2 DEF QueueInOrder, InSleep
    <2>5. WaysOut'
      BY <1>4, <1>5, <2>1, <2>2 DEF WaysOut, InSleep
    <2> QED BY <1>4, <2>2, <2>3, <2>4, <2>5 DEF InOrder
  <1>10. ASSUME NEW t \in Task, SleepMove(t) PROVE InOrder'
    <2> DEFINE nx == DelNext(next, prev, t)
               pv == DelPrev(next, prev, t)
    <2>1. pc[t] = "move" /\ t # Boot /\ t \in Ring
      BY <1>2, <1>10 DEF SleepMove, At, ForkDone, InFork, Ring
    <2>2. /\ next[t] \in Ring /\ prev[t] \in Ring /\ Ring # {t}
          /\ next[t] # Null /\ prev[t] # Null
      BY <1>4, <1>6, <2>1, Neighbours
    <2>3. /\ next[Wq] \in {Wq, t}
          /\ \A u \in Task : pc[u] \in InSleep \cup {"asleep"} => u = t
      BY <1>4, <2>1 DEF QueueInOrder, InSleep
    <2>4. nx[Wq] = next[Wq] /\ nx[Wq] # Null
      BY <1>5, <1>6, <2>2, <2>3, Nodes DEF DelNext
    <2>5. /\ pc' = [pc EXCEPT ![t] = "asleep"] /\ state' = state /\ tmp' = tmp
          /\ cur' = cur /\ wild' = wild
          /\ next' = AddNext(nx, pv, t, Wq) /\ prev' = AddPrev(nx, pv, t, Wq)
      BY <1>10, <2>2, <2>4 DEF SleepMove, Goto
    <2>6. /\ next'[Wq] = t
          /\ \A n \in Node \ {Wq, t} : next'[n] = nx[n] /\ prev'[n] = pv[n]
      BY <1>5, <2>3, <2>4, <2>5, Nodes
      DEF AddNext, AddPrev, LinkNext, LinkPrev, DelNext, DelPrev
    <2>7. Ring' = Ring \ {t}
      BY <1>5, <2>1, <2>5 DEF Ring
    <2>8. IsRing(next', prev', Ring')
      <3>1. IsRing(nx, pv, Ring \ {t})
        BY <1>4, <1>5, <1>6, <2>1, <2>2, DelKeepsRing
      <3>2. \A r \in Ring \ {t} : next'[r] = nx[r] /\ prev'[r] = pv[r]
        BY <1>6, <2>6, Nodes
      <3> HIDE DEF nx, pv
      <3> QED BY <2>7, <3>1, <3>2, FrameKeepsRing
    <2>9. QueueInOrder'
      BY <1>5, <2>3, <2>5, <2>6 DEF QueueInOrder, InSleep
    <2>10. WaysOut'
      <3>1. \A u \in Task : pc'[u] = "exited" => u \notin Ring /\ pc[u] = "exited" /\ u # t
        BY <1>5, <2>5 DEF Ring
      <3>2. \A u \in Task : pc'[u] = "exited" => next'[u] = next[u]
        BY <1>5, <2>2, <2>6, <3>1, Nodes DEF DelNext
      <3> QED BY <1>4, <1>5, <2>1, <2>5, <3>1, <3>2 DEF WaysOut, InSleep
    <2> QED BY <1>4, <2>5, <2>8, <2>9, <2>10 DEF InOrder
  <1>11. ASSUME NEW t \in Task, WakeUp(t) PROVE InOrder'
    <2> DEFINE q == next[Wq]
    <2>1. pc[t] = "run" /\ t \in Ring /\ next[t] # Null
      <3>1. pc[t] = "run"
        BY <1>11 DEF WakeUp, At
      <3> QED BY <1>4, <3>1, Neighbours DEF Ring
    <2>2. q \in Task /\ pc[q] = "asleep" /\ q \notin Ring /\ q \in Node
      <3>1. q \in Task /\ pc[q] = "asleep"
        BY <1>3, <1>11 DEF WakeUp
      <3> QED BY <3>1, Nodes DEF Ring
    <2>3. /\ pc' = [pc EXCEPT ![q] = "run"] /\ state' = [state EXCEPT ![q] = 0]
          /\ next' = AddNext(next, prev, q, t) /\ prev' = AddPrev(next, prev, q, t)
          /\ cur' = cur /\ tmp' = tmp /\ wild' = wild
      BY <1>11, <2>1, <2>2 DEF WakeUp
    <2>4. Ring' = Ring \cup {q}
      BY <1>5, <2>2, <2>3 DEF Ring
    <2>5. IsRing(next', prev', Ring')
      <3> HIDE DEF q
      <3>1. IsRing(AddNext(next, prev, q, t), AddPrev(next, prev, q, t), Ring \cup {q})
        BY <1>4, <1>5, <1>6, <2>1, <2>2, AddKeepsRing
      <3> QED BY <2>3, <2>4, <3>1
    <2>6. \A u \in Task : pc'[u] \notin InSleep \cup {"asleep"}
      BY <1>4, <1>5, <2>2, <2>3 DEF QueueInOrder, InSleep
    <2>7. QueueInOrder'
      BY <2>6 DEF QueueInOrder
    <2>8. WaysOut'
      <3>1. \A u \in Task : pc'[u] = "exited" => pc[u] = "exited" /\ u # t /\ u # q
        BY <1>5, <2>1, <2>2, <2>3
      <3>2. \A u \in Task : pc'[u] = "exited" => next'[u] = next[u]
        BY <1>5, <2>2, <2>3, <3>1, Nodes DEF AddNext, LinkNext
      <3> HIDE DEF q
      <3> QED BY <1>4, <1>5, <2>2, <2>3, <2>6, <3>1, <3>2 DEF WaysOut, InSleep
    <2> QED BY <1>4, <2>3, <2>5, <2>7, <2>8 DEF InOrder
  <1>12. ASSUME NEW t \in Task, ForkSlot(t) \/ ForkReadPid(t) PROVE InOrder'
    <2>1. \/ pc[t] = "run" /\ pc' = [pc EXCEPT ![t] = "bump"]
          \/ pc[t] = "readpid" /\ pc' = [pc EXCEPT ![t] = "setpid"]
      BY <1>12 DEF ForkSlot, ForkReadPid, At, Goto
    <2>2. /\ next' = next /\ prev' = prev /\ state' = state /\ tmp' = tmp
          /\ cur' = cur /\ wild' = wild
      BY <1>12 DEF ForkSlot, ForkReadPid, links
    <2>3. Ring' = Ring
      BY <1>5, <2>1 DEF Ring
    <2>4. QueueInOrder'
      BY <1>4, <1>5, <2>1, <2>2 DEF QueueInOrder, InSleep
    <2>5. WaysOut'
      BY <1>4, <1>5, <2>1, <2>2 DEF WaysOut, InSleep
    <2> QED BY <1>4, <2>2, <2>3, <2>4, <2>5 DEF InOrder
  <1>13. ASSUME NEW t \in Task, ForkBump(t) PROVE InOrder'
    <2> DEFINE k == reg[t]
    <2>1. pc[t] = "bump" /\ pc' = [pc EXCEPT ![t] = "readpid"]
      BY <1>13 DEF ForkBump, At, Goto
    <2>2. k \in Task /\ pc[k] = "none"
      BY <1>2, <1>5, <2>1 DEF ForkUnderway, InFork
    <2>3. /\ next' = [next EXCEPT ![k] = Null] /\ prev' = [prev EXCEPT ![k] = Null]
          /\ state' = [state EXCEPT ![k] = 0]
          /\ tmp' = tmp /\ cur' = cur /\ wild' = wild
      BY <1>13 DEF ForkBump
    <2>4. Ring' = Ring /\ k \notin Ring
      BY <1>5, <2>1, <2>2 DEF Ring
    <2>5. IsRing(next', prev', Ring')
      <3>1. \A r \in Ring : next'[r] = next[r] /\ prev'[r] = prev[r]
        BY <1>5, <1>6, <2>3, <2>4
      <3> QED BY <1>4, <2>4, <3>1, FrameKeepsRing
    <2> HIDE DEF k
    <2>6. \A n \in Node : n # k => next'[n] = next[n]
      BY <1>5, <2>3
    <2>7. QueueInOrder'
      <3>1. next'[Wq] = next[Wq]
        BY <2>2, <2>6, Nodes
      <3> QED BY <1>4, <1>5, <2>1, <3>1 DEF QueueInOrder, InSleep
    <2>8. WaysOut'
      <3>1. \A u \in Task : pc'[u] = "exited" => pc[u] = "exited" /\ next'[u] = next[u]
        BY <1>5, <2>1, <2>2, <2>6, Nodes
      <3> QED BY <1>4, <1>5, <2>1, <2>2, <2>3, <3>1 DEF WaysOut, InSleep
    <2> QED BY <1>4, <2>3, <2>5, <2>7, <2>8 DEF InOrder
  <1>14. ASSUME NEW t \in Task, ForkSetPid(t) PROVE InOrder'
    <2>1. pc[t] = "setpid" /\ pc' = [pc EXCEPT ![t] = "link"]
      BY <1>14 DEF ForkSetPid, At, Goto
    <2>2. /\ next' = next /\ prev' = prev /\ state' = [state EXCEPT ![t] = 0]
          /\ tmp' = tmp /\ cur' = cur /\ wild' = wild
      BY <1>14 DEF ForkSetPid, links
    <2>3. Ring' = Ring
      BY <1>5, <2>1 DEF Ring
    <2>4. QueueInOrder'
      BY <1>4, <1>5, <2>1, <2>2 DEF QueueInOrder, InSleep
    <2>5. WaysOut'
      BY <1>4, <1>5, <2>1, <2>2 DEF WaysOut, InSleep
    <2> QED BY <1>4, <2>2, <2>3, <2>4, <2>5 DEF InOrder
  <1>15. ASSUME NEW t \in Task, ForkLink(t) PROVE InOrder'
    <2> DEFINE k == reg[t]
    <2>1. pc[t] = "link" /\ t \in Ring
      BY <1>15 DEF ForkLink, At, Ring
    <2>2. k \in Task /\ pc[k] = "none" /\ k # Boot /\ k \notin Ring /\ k \in Node /\ k # t
      <3>1. k \in Task /\ pc[k] = "none"
        BY <1>2, <1>5, <2>1 DEF ForkUnderway, InFork
      <3> QED BY <1>2, <2>1, <3>1, Nodes DEF ForkDone, InFork, Ring
    <2>3. prev[t] \in Ring /\ prev[t] # Null
      BY <1>4, <2>1, Neighbours
    <2>4. /\ next' = AddTailNext(next, prev, k, t) /\ prev' = AddTailPrev(next, prev, k, t)
          /\ \E l \in {"fresh", "run"} : pc' = [pc EXCEPT ![t] = "run", ![k] = l]
          /\ state' = state /\ tmp' = tmp /\ cur' = cur /\ wild' = wild
      BY <1>15, <2>3 DEF ForkLink
    <2> HIDE DEF k
    <2>5. /\ pc'[t] = "run" /\ pc'[k] \in {"fresh", "run"}
          /\ \A u \in Task \ {t, k} : pc'[u] = pc[u]
      BY <1>5, <2>2, <2>4
    <2>6. Ring' = Ring \cup {k}
      BY <2>1, <2>2, <2>5 DEF Ring
    <2>7. IsRing(next', prev', Ring')
      <3>1. IsRing(AddTailNext(next, prev, k, t), AddTailPrev(next, prev, k, t), Ring \cup {k})
        BY <1>4, <1>5, <1>6, <2>1, <2>2, AddTailKeepsRing
      <3> QED BY <2>4, <2>6, <3>1
    <2>8. \A n \in Node : n # k /\ n # prev[t] => next'[n] = next[n]
      BY <1>5, <2>4 DEF AddTailNext, LinkNext
    <2>9. QueueInOrder'
      <3>1. next'[Wq] = next[Wq]
        BY <1>6, <2>2, <2>3, <2>8, Nodes
      <3>2. \A u \in Task : pc'[u] \in InSleep \cup {"asleep"} => pc[u] = pc'[u]
        BY <2>5 DEF InSleep
      <3> QED BY <1>4, <3>1, <3>2 DEF QueueInOrder
    <2>10. WaysOut'
      <3>1. \A u \in Task : pc'[u] = "exited" => pc[u] = "exited" /\ u # k /\ u \notin Ring
        BY <2>2, <2>5 DEF Ring
      <3>2. \A u \in Task : pc'[u] = "exited" => next'[u] = next[u]
        BY <2>3, <2>8, <3>1, Nodes
      <3>3. \A u \in Task : pc[u] # "none" => pc'[u] # "none"
        BY <2>5
      <3>4. \A u \in Task : pc'[u] \in InSleep \cup {"asleep"} => pc[u] = pc'[u]
        BY <2>5 DEF InSleep
      <3>5. \A u \in Task : pc[u] \in {"move", "asleep"} => pc[u] = pc'[u]
        BY <2>1, <2>2, <2>5
      <3> QED BY <1>4, <1>5, <2>4, <3>1, <3>2, <3>3, <3>4, <3>5 DEF WaysOut, InSleep
    <2> QED BY <1>4, <2>4, <2>7, <2>9, <2>10 DEF InOrder
  <1>16. ASSUME NEW t \in Task, Exit(t) PROVE InOrder'
    <2>1. pc[t] = "run" /\ t # Boot /\ t \in Ring
      BY <1>16 DEF Exit, At, Ring
    <2>2. /\ next[t] \in Ring /\ prev[t] \in Ring /\ Ring # {t}
          /\ next[t] # Null /\ prev[t] # Null
      BY <1>4, <1>6, <2>1, Neighbours
    <2>3. /\ next' = DelNext(next, prev, t) /\ prev' = DelPrev(next, prev, t)
          /\ pc' = [pc EXCEPT ![t] = "exited"]
          /\ state' = state /\ tmp' = tmp /\ cur' = cur /\ wild' = wild
      BY <1>16, <2>2 DEF Exit, Goto
    <2>4. Ring' = Ring \ {t}
      BY <1>5, <2>1, <2>3 DEF Ring
    <2>5. IsRing(next', prev', Ring')
      <3>1. IsRing(DelNext(next, prev, t), DelPrev(next, prev, t), Ring \ {t})
        BY <1>4, <1>5, <1>6, <2>1, <2>2, DelKeepsRing
      <3> QED BY <2>3, <2>4, <3>1
    <2>6. /\ \A n \in Node : n # prev[t] => next'[n] = next[n]
          /\ next'[t] = next[t]
      BY <1>5, <2>3, Nodes DEF DelNext
    <2>7. QueueInOrder'
      <3>1. next'[Wq] = next[Wq]
        BY <1>6, <2>2, <2>6, Nodes
      <3> QED BY <1>4, <1>5, <2>3, <3>1 DEF QueueInOrder, InSleep
    <2>8. WaysOut'
      <3>1. \A u \in Task : pc'[u] = "exited" => u = t \/ (pc[u] = "exited" /\ u \notin Ring)
        BY <1>5, <2>3 DEF Ring
      <3>2. \A u \in Task : pc'[u] = "exited" => next'[u] = next[u]
        BY <2>2, <2>6, <3>1, Nodes
      <3>3. next[t] \in Task /\ pc[next[t]] # "none"
        BY <2>2 DEF Ring
      <3>4. \A u \in Task : pc[u] # "none" => pc'[u] # "none"
        BY <1>5, <2>3
      <3> QED BY <1>4, <1>5, <2>1, <2>3, <3>1, <3>2, <3>3, <3>4 DEF WaysOut, InSleep
    <2> QED BY <1>4, <2>3, <2>5, <2>7, <2>8 DEF InOrder
  <1>17. CASE Tick
    <2>1. CommonSchedule \in Task /\ pc[CommonSchedule] # "none"
      <3>1. CASE state[cur] = 0
        <4>1. pc[cur] \notin {"none", "asleep"}
          BY <1>4, <1>5, <3>1 DEF WaysOut
        <4>2. CASE pc[cur] = "exited"
          BY <1>4, <1>5, <3>1, <4>2 DEF WaysOut, CommonSchedule
        <4>3. CASE pc[cur] # "exited"
          <5>1. cur \in Ring
            BY <1>5, <4>1, <4>3 DEF Ring
          <5> QED BY <1>4, <3>1, <5>1, Neighbours DEF CommonSchedule, Ring
        <4> QED BY <4>2, <4>3
      <3>2. CASE state[cur] # 0
        <4>1. cur # Boot
          <5>1. cur = Boot => state[Boot] = 0
            BY <1>3, <1>17 DEF Tick
          <5> QED BY <3>2, <5>1
        <4>2. pc[cur] \in {"move", "asleep"}
          BY <1>4, <1>5, <3>2, <4>1 DEF WaysOut
        <4> QED BY <1>4, <1>5, <3>2, <4>2 DEF WaysOut, CommonSchedule, InSleep
      <3> QED BY <3>1, <3>2
    <2>2. /\ cur' = CommonSchedule /\ wild' = wild /\ pc' = pc
          /\ next' = next /\ prev' = prev /\ state' = state /\ tmp' = tmp
      BY <1>17, <2>1 DEF Tick, links
    <2>3. Ring' = Ring
      BY <2>2 DEF Ring
    <2> QED BY <1>4, <2>1, <2>2, <2>3 DEF InOrder, QueueInOrder, WaysOut
  <1>18. CASE Wild \/ UNCHANGED vars
    BY <1>2, <1>18 DEF Wild, vars, InOrder, QueueInOrder, WaysOut, Ring
  <1> QED
    BY <1>7, <1>8, <1>9, <1>10, <1>11, <1>12, <1>13, <1>14, <1>15, <1>16, <1>17,
       <1>18 DEF Next, Sleep, Fork

(* While callers keep the rules for fork, sleep and wake, the run queue is *)
(* one ring of the tasks that ought to run, and no bad pointer is followed *)
(* (the list calls of sched.c:60-79 and fork.c:65-67, 81-85; the timer,    *)
(* sched.c:42-48).                                                         *)
THEOREM RunQueueSafe == Spec => [](RunQueueIntact /\ NeverWild)
  <1>1. Init => TypeOK /\ ForkInv /\ (LinksInOrder => InOrder)
    BY TypeInit, ForkInit, OrderInit
  <1>2. TypeOK /\ ForkInv /\ (LinksInOrder => InOrder) /\ [Next]_vars
            => (TypeOK /\ ForkInv /\ (LinksInOrder => InOrder))'
    BY TypeStep, ForkStep, OrderStep
  <1>3. (LinksInOrder => InOrder) => RunQueueIntact /\ NeverWild
    BY DEF InOrder, RunQueueIntact, NeverWild
  <1> QED BY <1>1, <1>2, <1>3, PTL DEF Spec

(* Under the same rules no unset link and no unset tmp is ever followed, by *)
(* the timer or by a list call (sched.c:40-79, list.c).                     *)
THEOREM KernelNeverWild == Spec => []NeverWild
  BY RunQueueSafe, PTL

(* While no two tasks are inside do_fork together, a task_struct is handed *)
(* out once and a pid belongs to one task (fork.c:8-16, 47-62).            *)
THEOREM ForksStayDistinct == Spec => []ForksDistinct
  <1>1. Init => TypeOK /\ ForkInv
    BY TypeInit, ForkInit
  <1>2. TypeOK /\ ForkInv /\ [Next]_vars => (TypeOK /\ ForkInv)'
    BY TypeStep, ForkStep
  <1>3. ForkInv => ForksDistinct
    BY DEF ForkInv, ForkDone, ForkUnderway, ForksDistinct
  <1> QED BY <1>1, <1>2, <1>3, PTL DEF Spec

-----------------------------------------------------------------------------
(* Dispatching                                                             *)

\* Where the timer can go while every rule is kept.
LEMMA TickDispatches ==
    ASSUME TypeOK, LinksInOrder => InOrder, breach = {} => Picked,
           Tick, breach = {}, breach' = {}
    PROVE  cur' # cur => cur' \in Ring
  <1>1. /\ IsRing(next, prev, Ring) /\ WaysOut /\ Picked
    BY DEF LinksInOrder, InOrder
  <1>2. /\ pc \in [Task -> PC] /\ cur \in Task /\ state \in [Task -> {0, 1}]
    BY DEF TypeOK
  <1>3. cur' = CommonSchedule \/ cur' = cur
    BY DEF Tick
  <1>4. CASE state[cur] = 0
    <2>1. pc[cur] \notin {"none", "asleep"}
      BY <1>1, <1>2, <1>4 DEF WaysOut
    <2>2. CASE pc[cur] = "exited"
      BY <1>1, <1>3, <1>4, <2>2 DEF Picked, CommonSchedule
    <2>3. CASE pc[cur] # "exited"
      <3>1. cur \in Ring
        BY <1>2, <2>1, <2>3 DEF Ring
      <3> QED BY <1>1, <1>3, <1>4, <3>1, Neighbours DEF CommonSchedule
    <2> QED BY <2>2, <2>3
  <1>5. CASE state[cur] # 0
    <2>1. cur # Boot
      <3>1. cur = Boot => state[Boot] = 0
        BY DEF Tick, Demand
      <3> QED BY <1>5, <3>1
    <2>2. state[cur] = 1
      BY <1>2, <1>5
    <2>3. pc[cur] \in {"move", "asleep"}
      BY <1>1, <1>2, <2>1, <2>2 DEF WaysOut
    <2> QED BY <1>1, <1>2, <1>3, <1>5, <2>3 DEF Picked, CommonSchedule, InSleep
  <1> QED BY <1>4, <1>5

LEMMA PickedStep ==
    TypeOK /\ ForkInv /\ (LinksInOrder => InOrder) /\ (breach = {} => Picked) /\ [Next]_vars
        => (breach = {} => Picked)'
  <1> SUFFICES ASSUME TypeOK, ForkInv, LinksInOrder => InOrder, breach = {} => Picked,
                      [Next]_vars, breach' = {}
               PROVE  Picked'
    OBVIOUS
  <1>1. breach = {}
    BY DEF Next, Sleep, Fork, WqInit, SleepSave, SleepMark, SleepMove, WakeUp, ForkSlot,
           ForkBump, ForkReadPid, ForkSetPid, ForkLink, Exit, Tick, Wild, vars, Demand
  <1>2. /\ IsRing(next, prev, Ring) /\ QueueInOrder /\ WaysOut /\ ~wild
        /\ ForkDone /\ ForkUnderway /\ Picked
    BY <1>1 DEF LinksInOrder, InOrder, ForkInv
  <1>3. ASSUME NEW r, NEW ok, Demand(r, ok) PROVE ok
    BY <1>3 DEF Demand
  <1>4. /\ pc \in [Task -> PC] /\ cur \in Task
        /\ next \in [Node -> Link] /\ prev \in [Node -> Link] /\ reg \in [Task -> Task]
    BY DEF TypeOK, Link
  <1>5. Boot \in Ring /\ Ring \subseteq Task /\ Ring \subseteq Node
    BY <1>2, Nodes DEF ForkDone, Ring, InFork
  \* Steps of a task that leave tmp alone and keep the ring's old members.
  <1>6. ASSUME NEW t \in Task, cur = t, cur' = cur, tmp' = tmp, Ring \subseteq Ring',
               pc'[t] \notin {"asleep", "exited"},
               \A u \in Task : pc'[u] \in InSleep => pc[u] \in InSleep
        PROVE  Picked'
    BY <1>2, <1>6 DEF Picked
  <1>7. ASSUME NEW t \in Task, WqInit(t) \/ SleepMark(t) PROVE Picked'
    <2>1. \/ pc[t] = "fresh" /\ pc' = [pc EXCEPT ![t] = "run"]
          \/ pc[t] = "mark" /\ pc' = [pc EXCEPT ![t] = "move"]
      BY <1>7 DEF WqInit, SleepMark, At, Goto
    <2>2. cur = t /\ cur' = cur /\ tmp' = tmp
      BY <1>7 DEF WqInit, SleepMark, At
    <2>3. Ring' = Ring
      BY <1>4, <2>1 DEF Ring
    <2>4. pc'[t] \notin {"asleep", "exited"}
      BY <1>4, <2>1
    <2>5. \A u \in Task : pc'[u] \in InSleep => pc[u] \in InSleep
      BY <1>4, <2>1 DEF InSleep
    <2> QED BY <1>6, <2>2, <2>3, <2>4, <2>5
  <1>8. ASSUME NEW t \in Task, SleepSave(t) PROVE Picked'
    <2>1. pc[t] = "run" /\ pc' = [pc EXCEPT ![t] = "mark"] /\ cur = t /\ t # Boot
      BY <1>8, Nodes DEF SleepSave, At, Goto
    <2>2. tmp' = next[t] /\ cur' = cur
      BY <1>8 DEF SleepSave
    <2>3. \A u \in Task : pc[u] \notin InSleep
      BY <1>3, <1>8 DEF SleepSave
    <2>4. Ring' = Ring /\ t \in Ring
      BY <1>4, <2>1 DEF Ring
    <2>5. next[t] \in Ring \ {t}
      BY <1>2, <1>5, <2>1, <2>4, Neighbours
    <2>6. \A u \in Task : pc'[u] \in InSleep => u = t
      BY <1>4, <2>1, <2>3
    <2>7. pc'[cur'] = "mark"
      BY <1>4, <2>1, <2>2
    <2> QED BY <2>2, <2>4, <2>5, <2>6, <2>7 DEF Picked
  <1>9. ASSUME NEW t \in Task, SleepMove(t) PROVE Picked'
    <2>1. pc[t] = "move" /\ cur = t /\ cur' = cur /\ tmp' = tmp
      BY <1>9 DEF SleepMove, At
    <2>2. \A u \in Task : pc[u] \in InSleep => u = t
      BY <1>2, <2>1 DEF QueueInOrder, InSleep
    <2>3. tmp \in Ring \ {t}
      BY <1>2, <2>1 DEF Picked, InSleep
    <2>4. pc' = pc \/ pc' = [pc EXCEPT ![t] = "asleep"]
      BY <1>9 DEF SleepMove, Goto
    <2>5. Ring \ {t} \subseteq Ring'
      BY <1>4, <2>4 DEF Ring
    <2>6. pc'[cur'] # "exited"
      BY <1>4, <2>1, <2>4
    <2>7. \A u \in Task : pc'[u] \in InSleep => u = t
      BY <1>4, <2>2, <2>4 DEF InSleep
    <2> QED BY <2>1, <2>3, <2>5, <2>6, <2>7 DEF Picked
  <1>10. ASSUME NEW t \in Task, WakeUp(t) PROVE Picked'
    <2>1. pc[t] = "run" /\ cur = t /\ cur' = cur /\ tmp' = tmp
      BY <1>10 DEF WakeUp, At
    <2>2. pc' = pc \/ \E q \in Task : pc[q] = "asleep" /\ pc' = [pc EXCEPT ![q] = "run"]
      BY <1>10 DEF WakeUp
    <2>3. \A u \in Task : pc'[u] = pc[u] \/ (pc[u] = "asleep" /\ pc'[u] = "run")
      BY <1>4, <2>2
    <2>4. Ring \subseteq Ring'
      BY <2>3 DEF Ring
    <2>5. \A u \in Task : pc'[u] \in InSleep => pc[u] \in InSleep
      BY <2>3 DEF InSleep
    <2> QED BY <1>6, <2>1, <2>3, <2>4, <2>5
  <1>11. ASSUME NEW t \in Task, Fork(t) PROVE Picked'
    <2>1. cur = t /\ cur' = cur /\ tmp' = tmp
      BY <1>11 DEF Fork, ForkSlot, ForkBump, ForkReadPid, ForkSetPid, ForkLink, At
    <2>2. /\ pc[t] \notin InSleep \cup {"asleep", "exited", "none"}
          /\ \/ pc' = pc
             \/ \E l \in InFork : pc' = [pc EXCEPT ![t] = l]
             \/ \E k \in Task, l \in {"fresh", "run"} : pc' = [pc EXCEPT ![t] = "run", ![k] = l]
      <3>1. CASE ForkLink(t)
        BY <1>4, <3>1 DEF ForkLink, At, InSleep
      <3>2. CASE ForkSlot(t) \/ ForkBump(t) \/ ForkReadPid(t) \/ ForkSetPid(t)
        BY <3>2 DEF ForkSlot, ForkBump, ForkReadPid, ForkSetPid, At, Goto, InSleep, InFork
      <3> QED BY <1>11, <3>1, <3>2 DEF Fork
    <2>3. /\ \A u \in Task : pc'[u] = pc[u] \/ pc'[u] \in {"fresh", "run"} \cup InFork
          /\ pc'[t] \notin {"asleep", "exited"}
      BY <1>4, <2>2 DEF InFork
    <2>4. Ring \subseteq Ring'
      BY <2>3 DEF Ring, InFork
    <2>5. \A u \in Task : pc'[u] \in InSleep => pc[u] \in InSleep
      BY <2>3 DEF InSleep, InFork
    <2> QED BY <1>6, <2>1, <2>3, <2>4, <2>5
  <1>12. ASSUME NEW t \in Task, Exit(t) PROVE Picked'
    <2>1. pc[t] = "run" /\ cur = t /\ t # Boot /\ cur' = cur /\ tmp' = tmp /\ t \in Ring
      BY <1>12 DEF Exit, At, Ring
    <2>2. next[t] \in Ring \ {t} /\ prev[t] # Null
      BY <1>2, <1>5, <2>1, Neighbours
    <2>3. pc' = [pc EXCEPT ![t] = "exited"] /\ next' = DelNext(next, prev, t)
      BY <1>2, <1>12, <2>2, Neighbours, <2>1 DEF Exit, Goto
    <2>4. Ring' = Ring \ {t}
      BY <1>4, <2>1, <2>3 DEF Ring
    <2>5. next'[t] = next[t]
      BY <1>4, <2>1, <2>3, <1>5 DEF DelNext
    <2>6. ~(tmp = t /\ \E u \in Task : pc[u] \in InSleep)
      BY <1>3, <1>12 DEF Exit
    <2>7. \A u \in Task : pc'[u] \in InSleep => pc[u] \in InSleep
      BY <1>4, <2>3 DEF InSleep
    <2>8. \A u \in Task : pc'[u] \in InSleep => tmp \in Ring' \ {u}
      BY <1>2, <2>4, <2>6, <2>7 DEF Picked
    <2>9. pc'[t] = "exited"
      BY <1>4, <2>3
    <2> QED BY <2>1, <2>2, <2>4, <2>5, <2>8, <2>9 DEF Picked
  <1>13. CASE Tick
    <2>1. pc' = pc /\ tmp' = tmp /\ Ring' = Ring
      BY <1>13 DEF Tick, Ring
    <2>2. cur' = CommonSchedule \/ cur' = cur
      BY <1>13 DEF Tick
    <2>3. next' = next
      BY <1>13 DEF Tick, links
    <2>4. cur' # cur => cur' \in Ring
      BY <1>1, <1>13, TickDispatches
    <2>5. cur' = cur \/ pc'[cur'] \notin {"asleep", "exited"}
      BY <2>1, <2>4 DEF Ring
    <2> QED BY <1>2, <2>1, <2>3, <2>5 DEF Picked
  <1>14. CASE Wild \/ UNCHANGED vars
    BY <1>2, <1>14 DEF Wild, vars, Picked, Ring
  <1> QED
    BY <1>7, <1>8, <1>9, <1>10, <1>11, <1>12, <1>13, <1>14 DEF Next, Sleep

(* The strengthened invariant: types, do_fork, the run queue and the wait  *)
(* queue under the rules they rest on, the task picked after a sleeper.    *)
LEMMA InvInit == Init => IInv
  <1>1. ASSUME Init PROVE Picked
    <2>1. cur \in Task /\ \A t \in Task : pc[t] \in {"run", "none"}
      BY <1>1, Nodes DEF Init
    <2> QED BY <2>1 DEF Picked, InSleep
  <1> QED BY <1>1, TypeInit, ForkInit, OrderInit DEF IInv

LEMMA InvStep == IInv /\ [Next]_vars => IInv'
  BY TypeStep, ForkStep, OrderStep, PickedStep DEF IInv

(* While every rule is kept, the timer never gives the processor to a task *)
(* that sleeps or has ended (sched.c:42-48, start.S:181-186).              *)
THEOREM OnlyRunnableDispatched == Spec => DispatchRunnable
  <1>1. IInv /\ [Next]_vars => [cur' # cur /\ breach' = {} => cur' \in Ring]_vars
    <2> SUFFICES ASSUME IInv, [Next]_vars, cur' # cur, breach' = {}
                 PROVE  cur' \in Ring
      OBVIOUS
    <2>1. Tick
      BY DEF Next, Sleep, Fork, WqInit, SleepSave, SleepMark, SleepMove, WakeUp, ForkSlot,
             ForkBump, ForkReadPid, ForkSetPid, ForkLink, Exit, Wild, vars
    <2>2. breach = {}
      BY <2>1 DEF Tick, Demand
    <2> QED BY <2>1, <2>2, TickDispatches DEF IInv
  <1> QED BY <1>1, InvInit, InvStep, PTL DEF Spec, DispatchRunnable
=============================================================================
