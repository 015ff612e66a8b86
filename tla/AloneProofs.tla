---------------------------- MODULE AloneProofs ----------------------------
(***************************************************************************)
(* The parts of the kernel that share nothing with one another, each for   *)
(* any value of its constants.                                             *)
(*                                                                         *)
(* KmemLayout: kmem_cache_line_object counts exactly the whole objects of  *)
(* a block and never writes a link into an object that hangs over its end. *)
(* The invariant says what the loop keeps: what is left plus what has been *)
(* passed is the block.                                                    *)
(*                                                                         *)
(* Drivers: the devices a driver has passed in its loop are bound to it,   *)
(* and any other driver has all devices of its name.                       *)
(*                                                                         *)
(* Printf: what has been printed is in the buffer as far as there is room, *)
(* whatever the format is.  The digits of a number are a recursive         *)
(* function, which is shown to exist by the least number it would not      *)
(* exist for.  That a printed number reads back as itself is the last part *)
(* of this module.                                                         *)
(*                                                                         *)
(* Console: what is printed appears whole, and the lines typed are the     *)
(* lines run and served, as long as nothing unheard has happened.  Three   *)
(* invariants, one for what each promise rests on: PrintInv of the buffer  *)
(* of printk and the line, LineInv of the command buffer and the lines     *)
(* typed, NameInv of the name a forked task reads.                         *)
(*                                                                         *)
(* Division: __do_div64 returns the quotient and the remainder for words   *)
(* of any size.  The invariant says at each label how the dividend is made *)
(* up of the quotient so far, the remainder in xh and the bits that are    *)
(* still in xl.                                                            *)
(*                                                                         *)
(* Strings: each function does what its comment says, in any memory.  Its  *)
(* loops are recursive functions; each is shown to exist, and to be what   *)
(* a definition without loops says, by the least place at which it would   *)
(* not be.  u is the text the source calls s.                              *)
(***************************************************************************)
EXTENDS KmemLayout, Drivers, Printf, Console, Division, Strings, FiniteSetTheorems, WellFoundedInduction, TLAPS

-----------------------------------------------------------------------------
(* The layout of a cache                                                   *)

LoopInv ==
    /\ TypeOK
    /\ at = "find" => i = 0 /\ pl = 0
    /\ at = "line" => /\ s > 0
                      /\ pl = i * size
                      /\ s + pl = Total(order)

Inv == LoopInv /\ CountsWholeObjects

\* One more object is one more time its size.
LEMMA OneMore == \A a, b \in Nat : a * b \in Nat /\ (a + 1) * b = a * b + b
  OBVIOUS

\* A block is not empty.
LEMMA BlockNotEmpty == \A o \in 0 .. MaxOrder + 1 : Total(o) \in Nat \ {0}
<1> SUFFICES ASSUME NEW o \in 0 .. MaxOrder + 1 PROVE Total(o) \in Nat \ {0}
  OBVIOUS
<1> DEFINE n == 2^o
<1>1. n \in Nat \ {0}
  BY LayoutAssumption
<1>2. \A a, b \in Nat \ {0} : a * b \in Nat \ {0}
  OBVIOUS
<1> HIDE DEF n
<1>3. PageSize * n \in Nat \ {0}
  BY <1>1, <1>2, LayoutAssumption
<1> QED  BY <1>3 DEF Total, n

\* At first nothing has been looked at.
LEMMA LayoutInit == Init => Inv
  BY LayoutAssumption DEF Init, Inv, LoopInv, TypeOK, CountsWholeObjects

\* Every step keeps the invariant.
LEMMA LayoutStep == Inv /\ [Next]_vars => Inv'
<1> SUFFICES ASSUME Inv, [Next]_vars PROVE Inv'
  OBVIOUS
<1> USE DEF Inv, LoopInv, TypeOK
<1>t. size \in Nat /\ size > 0 /\ MaxOrder \in Nat /\ Total(order) \in Nat \ {0}
  BY LayoutAssumption, BlockNotEmpty
<1>1. CASE FindTurn
  <2>1. CountsWholeObjects'
    BY <1>1 DEF FindTurn, CountsWholeObjects
  <2>2. LoopInv'
    <3>1. CASE size <= Waste * 2^order
      <4>1. at' = "line" /\ s' = Total(order) /\ UNCHANGED <<size, order, i, pl>>
        BY <1>1, <3>1 DEF FindTurn
      <4>2. i = 0 /\ pl = 0 /\ 0 * size = 0
        BY <1>1, <1>t DEF FindTurn
      <4>3. Total(order)' = Total(order)
        BY <4>1 DEF Total
      <4> QED  BY <4>1, <4>2, <4>3, <1>t
    <3>2. CASE ~(size <= Waste * 2^order)
      BY <1>1, <1>t, <3>2 DEF FindTurn
    <3> QED  BY <3>1, <3>2
  <2> QED  BY <2>1, <2>2
<1>2. CASE FindNone
  <2>1. CountsWholeObjects'
    BY <1>2 DEF FindNone, CountsWholeObjects
  <2>2. LoopInv'
    <3>1. CASE size > 2^order
      BY <1>2, <3>1 DEF FindNone
    <3>2. CASE ~(size > 2^order)
      <4>1. at' = "line" /\ s' = Total(order) /\ UNCHANGED <<size, order, i, pl>>
        BY <1>2, <3>2 DEF FindNone
      <4>2. i = 0 /\ pl = 0 /\ 0 * size = 0
        BY <1>2, <1>t DEF FindNone
      <4>3. Total(order)' = Total(order)
        BY <4>1 DEF Total
      <4> QED  BY <4>1, <4>2, <4>3, <1>t
    <3> QED  BY <3>1, <3>2
  <2> QED  BY <2>1, <2>2
<1>3. CASE LineTurn
  <2>1. Total(order)' = Total(order)
    BY <1>3 DEF LineTurn, Total
  <2>2. (i + 1) * size = i * size + size
    BY <1>t, OneMore
  <2>3. LoopInv'
    BY <1>3, <1>t, <2>1, <2>2 DEF LineTurn
  <2>4. CountsWholeObjects'
    BY <1>3 DEF LineTurn, CountsWholeObjects
  <2> QED  BY <2>3, <2>4
<1>4. CASE LineEnd
  <2>1. Total(order)' = Total(order)
    BY <1>4 DEF LineEnd, Total
  <2>2. /\ i * size \in Nat
        /\ (i + 1) * size = i * size + size
        /\ ((i + 1) + 1) * size = (i + 1) * size + size
    BY <1>t, OneMore
  <2>3. LoopInv'
    BY <1>4 DEF LineEnd
  <2>4. i' * size <= Total(order) /\ Total(order) < (i' + 1) * size
    BY <1>4, <1>t, <2>2 DEF LineEnd
  <2>5. CountsWholeObjects'
    BY <1>4, <2>1, <2>4 DEF LineEnd, CountsWholeObjects
  <2> QED  BY <2>3, <2>5
<1>5. CASE UNCHANGED vars
  BY <1>5 DEF vars, CountsWholeObjects, Total
<1> QED  BY <1>1, <1>2, <1>3, <1>4, <1>5 DEF Next

\* For every size a cache is made with, the number of objects it counts is the
\* number of whole objects in a block (kmem_cache_line_object, mem.c:248-262).
THEOREM ObjectsCounted == Spec => []CountsWholeObjects
<1>1. Inv => CountsWholeObjects
  BY DEF Inv
<1> QED  BY LayoutInit, LayoutStep, <1>1, PTL DEF Spec

\* The loop writes its links only into whole objects inside the block
\* (mem.c:254-257).
THEOREM LinksStayInside == Spec => LinksInside
<1>1. Inv /\ [Next]_vars => [pl' # pl => pl + size <= Total(order)]_vars
  <2> SUFFICES ASSUME Inv, [Next]_vars, pl' # pl PROVE pl + size <= Total(order)
    OBVIOUS
  <2>1. LineTurn
    BY DEF Next, FindTurn, FindNone, LineEnd, vars
  <2>2. Total(order) \in Nat
    BY BlockNotEmpty DEF Inv, LoopInv, TypeOK
  <2> QED  BY <2>1, <2>2, LayoutAssumption DEF Inv, LoopInv, TypeOK, LineTurn
<1> QED  BY LayoutInit, LayoutStep, <1>1, PTL DEF Spec, LinksInside

-----------------------------------------------------------------------------
(* The driver model                                                        *)

DriversSpec == DriversInit /\ [][DriversNext]_driverVars

DriversTypes ==
    /\ buses \subseteq Bus
    /\ listDevices \in [Bus -> Seq(Device)] /\ listDrivers \in [Bus -> Seq(Driver)]
    /\ driverOf \in [Device -> Driver \cup {NoDriver}]
    /\ registering \in [drv : Driver \cup {NoDriver}, turn : Nat \ {0}]
    /\ probed \in Seq(Driver \X Device)

\* A bus that is not registered has empty lists, and a device or driver is on
\* the list of its own bus.
OnTheirBus ==
    /\ \A b \in Bus \ buses : listDevices[b] = <<>> /\ listDrivers[b] = <<>>
    /\ \A b \in Bus : /\ \A dev \in Elements(listDevices[b]) : BusOf[dev] = b
                      /\ \A drv \in Elements(listDrivers[b]) : BusOf[drv] = b
    /\ ~NotRegistering => registering.drv \in Elements(listDrivers[BusOf[registering.drv]])

\* No device has a driver of another bus or name.
FitBound ==
    \A dev \in Device : driverOf[dev] # NoDriver =>
        /\ driverOf[dev] \in Elements(listDrivers[BusOf[dev]])
        /\ Match(driverOf[dev], dev)

\* The devices passed by the driver being registered are its own; any other
\* driver has all that are of its name.
AllBound ==
    /\ \A b \in Bus : \A dev \in Elements(listDevices[b]), drv \in Elements(listDrivers[b]) :
          Match(drv, dev) /\ drv # registering.drv => driverOf[dev] = drv
    /\ ~NotRegistering => \A k \in DOMAIN OnBus : k < registering.turn => driverOf[OnBus[k]] = registering.drv
OnceProbed ==
    \A dev \in Device, drv \in Driver :
        TimesProbed(drv, dev) = (IF driverOf[dev] = drv /\ drv \in Probing THEN 1 ELSE 0)

DriversInv == DriversTypes /\ OnTheirBus /\ FitBound /\ (unbound = {} => AllBound /\ OnceProbed)

\* An element at the end of a list is one more of its elements.
LEMMA AppendElements ==
    ASSUME NEW S, NEW l \in Seq(S), NEW x \in S
    PROVE  /\ Append(l, x) \in Seq(S)
           /\ Elements(Append(l, x)) = Elements(l) \cup {x}
  <1>1. /\ Append(l, x) \in Seq(S) /\ DOMAIN Append(l, x) = 1 .. Len(l) + 1
        /\ DOMAIN l = 1 .. Len(l) /\ Len(l) \in Nat
        /\ \A k \in 1 .. Len(l) : Append(l, x)[k] = l[k]
        /\ Append(l, x)[Len(l) + 1] = x
    OBVIOUS
  <1>2. \A k : k \in 1 .. Len(l) + 1 <=> k \in 1 .. Len(l) \/ k = Len(l) + 1
    BY <1>1
  <1> QED BY <1>1, <1>2 DEF Elements

\* An empty list has no elements, others have those of their type.
LEMMA ElementsOf ==
    /\ Elements(<<>>) = {}
    /\ \A S : \A l \in Seq(S) : Elements(l) \subseteq S
  BY DEF Elements

\* One more call of a probe function is one more of that driver and device.
LEMMA ProbedOnceMore ==
    ASSUME NEW p \in Seq(Driver \X Device), NEW x \in Driver \X Device, NEW y \in Driver \X Device
    PROVE  /\ Cardinality({k \in DOMAIN Append(p, x) : Append(p, x)[k] = y})
                 = Cardinality({k \in DOMAIN p : p[k] = y}) + (IF x = y THEN 1 ELSE 0)
           /\ Cardinality({k \in DOMAIN p : p[k] = y}) \in Nat
  <1> DEFINE old == {k \in DOMAIN p : p[k] = y}
             new == {k \in DOMAIN Append(p, x) : Append(p, x)[k] = y}
  <1>1. /\ DOMAIN Append(p, x) = 1 .. Len(p) + 1 /\ DOMAIN p = 1 .. Len(p) /\ Len(p) \in Nat
        /\ \A k \in 1 .. Len(p) : Append(p, x)[k] = p[k]
        /\ Append(p, x)[Len(p) + 1] = x
    OBVIOUS
  <1>2. /\ \A k : k \in 1 .. Len(p) + 1 <=> k \in 1 .. Len(p) \/ k = Len(p) + 1
        /\ ~(Len(p) + 1 \in 1 .. Len(p))
    BY <1>1
  <1>3. IsFiniteSet(old) /\ ~(Len(p) + 1 \in old)
    <2>1. IsFiniteSet(1 .. Len(p))
      BY <1>1, FS_Interval
    <2>2. old \subseteq 1 .. Len(p)
      BY <1>1
    <2> QED BY <2>1, <2>2, <1>2, FS_Subset
  <1>4. new = IF x = y THEN old \cup {Len(p) + 1} ELSE old
    BY <1>1, <1>2
  <1> HIDE DEF old, new
  <1>5. Cardinality(old) \in Nat /\ Cardinality(old \cup {Len(p) + 1}) = Cardinality(old) + 1
    BY <1>3, FS_CardinalityType, FS_AddElement
  <1>6. Cardinality(new) = Cardinality(old) + (IF x = y THEN 1 ELSE 0)
    BY <1>4, <1>5
  <1> QED BY <1>5, <1>6 DEF old, new

LEMMA DriversStart == DriversInit => DriversInv
  <1> SUFFICES ASSUME DriversInit PROVE DriversInv
    OBVIOUS
  <1>1. DriversTypes
    BY DEF DriversInit, DriversTypes
  <1>2. OnTheirBus
    BY ElementsOf DEF DriversInit, OnTheirBus, NotRegistering
  <1>3. FitBound
    BY DEF DriversInit, FitBound
  <1>4. AllBound
    BY ElementsOf DEF DriversInit, AllBound, NotRegistering
  <1>5. OnceProbed
    <2> SUFFICES ASSUME NEW dev \in Device, NEW drv \in Driver
                 PROVE  TimesProbed(drv, dev) = 0 /\ driverOf[dev] # drv
      BY DEF OnceProbed
    <2>1. {k \in DOMAIN probed : probed[k] = <<drv, dev>>} = {}
      BY DEF DriversInit
    <2>2. TimesProbed(drv, dev) = 0
      BY <2>1, FS_EmptySet DEF TimesProbed
    <2> QED BY <2>2, DriversAssumption DEF DriversInit
  <1> QED BY <1>1, <1>2, <1>3, <1>4, <1>5 DEF DriversInv

LEMMA RegistersBus == ASSUME DriversInv, NEW b \in Bus, bus_register(b) PROVE DriversInv'
  <1> USE DEF DriversInv
  <1>1. /\ buses' = buses \cup {b} /\ b \notin buses
        /\ UNCHANGED <<driverOf, registering, probed, unbound, lost>>
        /\ NotRegistering
    BY DEF bus_register, MayRegister
  <1>2. UNCHANGED <<listDevices, listDrivers>>
    BY DEF bus_register, OnTheirBus, DriversTypes
  <1>3. DriversTypes'
    BY <1>1, <1>2 DEF DriversTypes
  <1>4. OnTheirBus'
    BY <1>1, <1>2 DEF OnTheirBus, NotRegistering
  <1>5. FitBound'
    BY <1>1, <1>2 DEF FitBound
  <1>6. unbound' = {} => AllBound' /\ OnceProbed'
    <2>1. AllBound => AllBound'
      BY <1>1, <1>2 DEF AllBound, NotRegistering
    <2>2. OnceProbed => OnceProbed'
      BY <1>1, <1>2 DEF OnceProbed, TimesProbed
    <2> QED BY <2>1, <2>2, <1>1
  <1> QED BY <1>3, <1>4, <1>5, <1>6

LEMMA RegistersDevice == ASSUME DriversInv, NEW dev \in Device, device_register(dev) PROVE DriversInv'
  <1> USE DEF DriversInv
  <1> DEFINE b   == BusOf[dev]
             bad == Misplaced(dev, listDevices[b])
  <1>1. /\ NotRegistering /\ unbound = {}
        /\ unbound' = bad \cup Rule("late", \E drv \in Elements(listDrivers[b]) : Match(drv, dev))
        /\ listDevices' = [listDevices EXCEPT ![b] = IF bad = {} THEN Append(listDevices[b], dev) ELSE listDevices[b]]
        /\ UNCHANGED <<buses, listDrivers, driverOf, registering, probed>>
    BY DEF device_register, MayRegister
  <1>2. b \in Bus /\ listDevices[b] \in Seq(Device)
    BY DriversAssumption DEF DriversTypes
  <1>3. bad = {} => b \in buses
    BY DEF Misplaced, Rule
  <1> HIDE DEF bad
  <1>4. AllBound /\ OnceProbed
    BY <1>1
  <1>5. CASE bad # {}
    <2>1. listDevices' = listDevices /\ unbound' # {}
      BY <1>1, <1>2, <1>5 DEF DriversTypes
    <2>2. DriversTypes'
      BY <1>1, <2>1 DEF DriversTypes
    <2>3. OnTheirBus'
      BY <1>1, <2>1 DEF OnTheirBus, NotRegistering
    <2>4. FitBound'
      BY <1>1 DEF FitBound
    <2> QED BY <2>1, <2>2, <2>3, <2>4
  <1>6. CASE bad = {}
    <2>1. listDevices' = [listDevices EXCEPT ![b] = Append(listDevices[b], dev)]
      BY <1>1, <1>6
    <2>2. /\ Append(listDevices[b], dev) \in Seq(Device)
          /\ Elements(Append(listDevices[b], dev)) = Elements(listDevices[b]) \cup {dev}
      BY <1>2, AppendElements
    <2>3. /\ listDevices' \in [Bus -> Seq(Device)]
          /\ \A c \in Bus : Elements(listDevices'[c]) = Elements(listDevices[c]) \cup (IF c = b THEN {dev} ELSE {})
          /\ \A c \in Bus \ {b} : listDevices'[c] = listDevices[c]
      BY <1>2, <2>1, <2>2 DEF DriversTypes
    <2>4. DriversTypes'
      BY <1>1, <2>3 DEF DriversTypes
    <2>5. OnTheirBus'
      BY <1>1, <1>3, <1>6, <2>3 DEF OnTheirBus, NotRegistering
    <2>6. FitBound'
      BY <1>1 DEF FitBound
    <2>7. ASSUME unbound' = {} PROVE AllBound'
      <3>1. ~\E drv \in Elements(listDrivers[b]) : Match(drv, dev)
        BY <1>1, <2>7 DEF Rule
      <3> QED BY <1>1, <1>4, <2>3, <3>1 DEF AllBound, NotRegistering, Match
    <2>8. OnceProbed'
      BY <1>1, <1>4 DEF OnceProbed, TimesProbed
    <2> QED BY <2>4, <2>5, <2>6, <2>7, <2>8
  <1> QED BY <1>5, <1>6

LEMMA RegistersDriver == ASSUME DriversInv, NEW drv \in Driver, driver_register(drv) PROVE DriversInv'
  <1> USE DEF DriversInv
  <1> DEFINE b   == BusOf[drv]
             bad == Misplaced(drv, listDrivers[b])
  <1>1. /\ NotRegistering /\ unbound = {} /\ unbound' = bad
        /\ listDrivers' = [listDrivers EXCEPT ![b] = IF bad = {} THEN Append(listDrivers[b], drv) ELSE listDrivers[b]]
        /\ registering' = IF bad = {} THEN [drv |-> drv, turn |-> 1] ELSE registering
        /\ UNCHANGED <<buses, listDevices, driverOf, probed>>
    BY DEF driver_register, MayRegister
  <1>2. b \in Bus /\ listDrivers[b] \in Seq(Driver) /\ drv # NoDriver
    BY DriversAssumption DEF DriversTypes
  <1>3. bad = {} => b \in buses
    BY DEF Misplaced, Rule
  <1> HIDE DEF bad
  <1>4. AllBound /\ OnceProbed
    BY <1>1
  <1>5. CASE bad # {}
    <2>1. listDrivers' = listDrivers /\ unbound' # {} /\ registering' = registering
      BY <1>1, <1>2, <1>5 DEF DriversTypes
    <2>2. DriversTypes'
      BY <1>1, <2>1 DEF DriversTypes
    <2>3. OnTheirBus'
      BY <1>1, <2>1 DEF OnTheirBus, NotRegistering
    <2>4. FitBound'
      BY <1>1, <2>1 DEF FitBound
    <2> QED BY <2>1, <2>2, <2>3, <2>4
  <1>6. CASE bad = {}
    <2>1. /\ listDrivers' = [listDrivers EXCEPT ![b] = Append(listDrivers[b], drv)]
          /\ registering' = [drv |-> drv, turn |-> 1]
      BY <1>1, <1>6
    <2>2. /\ Append(listDrivers[b], drv) \in Seq(Driver)
          /\ Elements(Append(listDrivers[b], drv)) = Elements(listDrivers[b]) \cup {drv}
      BY <1>2, AppendElements
    <2>3. /\ listDrivers' \in [Bus -> Seq(Driver)]
          /\ \A c \in Bus : Elements(listDrivers'[c]) = Elements(listDrivers[c]) \cup (IF c = b THEN {drv} ELSE {})
          /\ \A c \in Bus \ {b} : listDrivers'[c] = listDrivers[c]
      BY <1>2, <2>1, <2>2 DEF DriversTypes
    <2>4. DriversTypes'
      BY <1>1, <2>1, <2>3 DEF DriversTypes
    <2>5. OnTheirBus'
      <3>1. \A c \in Bus \ buses : listDevices'[c] = <<>> /\ listDrivers'[c] = <<>>
        BY <1>1, <1>3, <1>6, <2>3 DEF OnTheirBus
      <3>2. \A c \in Bus : /\ \A dev \in Elements(listDevices'[c]) : BusOf[dev] = c
                           /\ \A e \in Elements(listDrivers'[c]) : BusOf[e] = c
        BY <1>1, <2>3 DEF OnTheirBus
      <3>3. registering'.drv \in Elements(listDrivers'[BusOf[registering'.drv]])
        <4>1. registering'.drv = drv
          BY <2>1
        <4>2. drv \in Elements(listDrivers'[b])
          BY <1>2, <2>3
        <4> QED BY <4>1, <4>2
      <3> QED BY <1>1, <3>1, <3>2, <3>3 DEF OnTheirBus
    <2>6. FitBound'
      BY <1>1, <2>3, DriversAssumption DEF FitBound, Match
    <2>7. AllBound'
      <3>1. ASSUME NEW c \in Bus, NEW dev \in Elements(listDevices[c]), NEW e \in Elements(listDrivers[c]),
                   Match(e, dev), e # drv
            PROVE  driverOf[dev] = e
        <4>1. e \in Driver
          BY ElementsOf DEF DriversTypes
        <4>2. e # registering.drv
          BY <4>1, <1>1, DriversAssumption DEF NotRegistering
        <4> QED BY <1>4, <3>1, <4>2 DEF AllBound
      <3>2. OnBus' = listDevices[b] /\ \A k \in DOMAIN listDevices[b] : ~(k < registering'.turn)
        <4>1. OnBus' = listDevices[b]
          BY <1>1, <2>1 DEF OnBus
        <4>2. listDevices[b] \in Seq(Device)
          BY <1>2 DEF DriversTypes
        <4> QED BY <2>1, <4>1, <4>2
      <3>3. registering'.drv = drv
        BY <2>1
      <3> HIDE DEF DriversInv
      <3>4. ASSUME NEW c \in Bus, NEW dev \in Elements(listDevices[c]), NEW e \in Elements(listDrivers'[c]),
                   Match(e, dev), e # drv
            PROVE  driverOf[dev] = e
        BY <2>3, <3>1, <3>4
      <3> QED BY <1>1, <3>2, <3>3, <3>4 DEF AllBound, Match
    <2>8. OnceProbed'
      BY <1>1, <1>4 DEF OnceProbed, TimesProbed
    <2> QED BY <2>4, <2>5, <2>6, <2>7, <2>8
  <1> QED BY <1>5, <1>6

\* What the loop of driver_register has before it
LEMMA AtWork ==
    ASSUME DriversTypes, OnTheirBus, ~NotRegistering
    PROVE  /\ registering.drv \in Driver /\ BusOf[registering.drv] \in Bus
           /\ OnBus \in Seq(Device) /\ registering.turn \in Nat \ {0}
           /\ \A k \in DOMAIN OnBus : /\ OnBus[k] \in Elements(listDevices[BusOf[registering.drv]])
                                      /\ OnBus[k] \in Device
                                      /\ BusOf[OnBus[k]] = BusOf[registering.drv]
  <1>1. registering.drv \in Driver /\ BusOf[registering.drv] \in Bus /\ registering.turn \in Nat \ {0}
    BY DriversAssumption DEF DriversTypes, NotRegistering
  <1>2. OnBus \in Seq(Device)
    BY <1>1 DEF DriversTypes, OnBus
  <1>3. \A k \in DOMAIN OnBus : OnBus[k] \in Elements(listDevices[BusOf[registering.drv]])
    BY DEF OnBus, Elements
  <1> QED BY <1>1, <1>2, <1>3 DEF OnTheirBus

LEMMA ProbesDevice == ASSUME DriversInv, ProbeTurn PROVE DriversInv'
  <1> USE DEF DriversInv
  <1> DEFINE drv == registering.drv
             dev == OnBus[registering.turn]
  <1>1. /\ ~NotRegistering /\ registering.turn <= Len(OnBus) /\ Match(drv, dev)
        /\ driver_probe_device(drv, dev)
        /\ registering' = [registering EXCEPT !.turn = @ + 1]
        /\ UNCHANGED <<buses, listDevices, listDrivers>>
    BY DEF ProbeTurn
  <1>2. /\ drv \in Driver /\ BusOf[drv] \in Bus /\ OnBus \in Seq(Device) /\ registering.turn \in Nat \ {0}
        /\ \A k \in DOMAIN OnBus : /\ OnBus[k] \in Elements(listDevices[BusOf[drv]])
                                   /\ OnBus[k] \in Device /\ BusOf[OnBus[k]] = BusOf[drv]
    BY <1>1, AtWork
  <1>3. registering.turn \in DOMAIN OnBus
    BY <1>1, <1>2
  <1>4. /\ dev \in Elements(listDevices[BusOf[drv]]) /\ dev \in Device /\ BusOf[dev] = BusOf[drv]
    BY <1>2, <1>3
  <1>5. /\ driverOf' = [driverOf EXCEPT ![dev] = drv]
        /\ ProbedWith(driverOf'[dev], dev)
    BY <1>1 DEF driver_probe_device
  <1>6. /\ registering'.drv = drv /\ registering'.turn = registering.turn + 1
        /\ registering' \in [drv : Driver \cup {NoDriver}, turn : Nat \ {0}]
    BY <1>1, <1>2 DEF DriversTypes
  <1>7. OnBus' = OnBus /\ ~NotRegistering' /\ ~NotRegistering
    BY <1>1, <1>6 DEF OnBus, NotRegistering
  <1>8. drv # NoDriver
    BY <1>1 DEF NotRegistering
  <1>9. registering.turn + 1 \in Nat \ {0} /\ \A k \in DOMAIN OnBus : k < registering.turn + 1 => k < registering.turn \/ k = registering.turn
    BY <1>2
  <1>10. drv \in Elements(listDrivers[BusOf[drv]])
    BY <1>1 DEF OnTheirBus
  <1> HIDE DEF drv, dev
  <1>11. /\ driverOf'[dev] = drv /\ \A e \in Device \ {dev} : driverOf'[e] = driverOf[e]
         /\ driverOf' \in [Device -> Driver \cup {NoDriver}]
    BY <1>2, <1>4, <1>5 DEF DriversTypes
  <1>12. /\ probed' = IF drv \in Probing THEN Append(probed, <<drv, dev>>) ELSE probed
         /\ unbound \cup Rule("taken", driverOf[dev] # NoDriver) \subseteq unbound'
    BY <1>5, <1>11 DEF ProbedWith
  <1>13. <<drv, dev>> \in Driver \X Device /\ probed \in Seq(Driver \X Device)
    BY <1>2, <1>4 DEF DriversTypes
  <1>14. DriversTypes'
    <2>1. probed' \in Seq(Driver \X Device)
      BY <1>12, <1>13, AppendElements
    <2> QED BY <1>1, <1>6, <1>11, <2>1 DEF DriversTypes
  <1>15. OnTheirBus'
    <2>1. drv \in Elements(listDrivers[BusOf[drv]])
      BY <1>10
    <2> QED BY <1>1, <1>6, <2>1 DEF OnTheirBus
  <1>16. FitBound'
    <2>1. drv \in Elements(listDrivers[BusOf[dev]])
      BY <1>4, <1>10
    <2> QED BY <1>1, <1>11, <2>1 DEF FitBound, Match
  <1>17. ASSUME unbound' = {} PROVE AllBound' /\ OnceProbed'
    <2>1. unbound = {} /\ driverOf[dev] = NoDriver
      BY <1>12, <1>17 DEF Rule
    <2>2. AllBound /\ OnceProbed
      BY <2>1
    <2> HIDE DEF DriversInv
    <2>3. ASSUME NEW b \in Bus, NEW e \in Elements(listDevices[b]), NEW f \in Elements(listDrivers[b]),
                 Match(f, e), f # drv
          PROVE  driverOf'[e] = f
      <3>1. driverOf[e] = f
        BY <2>2, <2>3 DEF AllBound, drv
      <3>2. e \in Device /\ f \in Driver
        BY <1>14, <1>1, ElementsOf DEF DriversTypes
      <3>3. e # dev
        BY <3>1, <3>2, <2>1, DriversAssumption
      <3> QED BY <3>1, <3>2, <3>3, <1>11
    <2>4. ASSUME NEW k \in DOMAIN OnBus, k < registering'.turn
          PROVE  driverOf'[OnBus[k]] = drv
      <3>1. CASE k = registering.turn
        BY <3>1, <1>11 DEF dev
      <3>2. CASE k < registering.turn
        <4>1. driverOf[OnBus[k]] = drv
          BY <2>2, <3>2, <1>7 DEF AllBound, drv
        <4>2. OnBus[k] \in Device
          BY <1>2
        <4> QED BY <4>1, <4>2, <1>11
      <3> QED BY <2>4, <3>1, <3>2, <1>6, <1>9
    <2>5. AllBound'
      BY <1>1, <1>6, <1>7, <2>3, <2>4 DEF AllBound, Match
    <2>6. ASSUME NEW e \in Device, NEW f \in Driver
          PROVE  TimesProbed(f, e)' = (IF driverOf'[e] = f /\ f \in Probing THEN 1 ELSE 0)
      <3>1. TimesProbed(f, e) = (IF driverOf[e] = f /\ f \in Probing THEN 1 ELSE 0)
        BY <2>2 DEF OnceProbed
      <3>2. TimesProbed(f, e)' = TimesProbed(f, e) + (IF drv \in Probing /\ f = drv /\ e = dev THEN 1 ELSE 0)
        <4>1. <<f, e>> \in Driver \X Device /\ (<<drv, dev>> = <<f, e>> <=> f = drv /\ e = dev)
          OBVIOUS
        <4>2. TimesProbed(f, e) \in Nat
          BY <4>1, <1>13, ProbedOnceMore DEF TimesProbed
        <4>3. CASE drv \in Probing
          <5>1. probed' = Append(probed, <<drv, dev>>)
            BY <4>3, <1>12
          <5>2. TimesProbed(f, e)' = TimesProbed(f, e) + (IF <<drv, dev>> = <<f, e>> THEN 1 ELSE 0)
            <6>1. /\ TimesProbed(f, e)' = Cardinality({k \in DOMAIN Append(probed, <<drv, dev>>) :
                                                      Append(probed, <<drv, dev>>)[k] = <<f, e>>})
                  /\ TimesProbed(f, e) = Cardinality({k \in DOMAIN probed : probed[k] = <<f, e>>})
              BY <5>1 DEF TimesProbed
            <6>2. PICK y \in Driver \X Device : y = <<f, e>>
              BY <4>1
            <6>3. PICK x \in Driver \X Device : x = <<drv, dev>>
              BY <1>13
            <6>4. Cardinality({k \in DOMAIN Append(probed, x) : Append(probed, x)[k] = y})
                     = Cardinality({k \in DOMAIN probed : probed[k] = y}) + (IF x = y THEN 1 ELSE 0)
              <7>1. probed \in Seq(Driver \X Device)
                BY <1>13
              <7> QED BY <7>1, ProbedOnceMore
            <6>5. Cardinality({k \in DOMAIN Append(probed, <<drv, dev>>) : Append(probed, <<drv, dev>>)[k] = <<f, e>>})
                     = Cardinality({k \in DOMAIN probed : probed[k] = <<f, e>>})
                       + (IF <<drv, dev>> = <<f, e>> THEN 1 ELSE 0)
              BY <6>2, <6>3, <6>4, Zenon
            <6> QED BY <6>1, <6>5
          <5> QED BY <5>2, <4>1, <4>3
        <4>4. CASE drv \notin Probing
          BY <4>2, <4>4, <1>12 DEF TimesProbed
        <4> QED BY <4>3, <4>4
      <3>3. CASE e = dev
        <4>1. driverOf[e] # f /\ (driverOf'[e] = f <=> f = drv)
          BY <2>1, <3>3, <1>11, DriversAssumption
        <4> QED BY <3>1, <3>2, <3>3, <4>1
      <3>4. CASE e # dev
        <4>1. driverOf'[e] = driverOf[e]
          BY <3>4, <1>11
        <4> QED BY <3>1, <3>2, <3>4, <4>1
      <3> QED BY <3>3, <3>4
    <2>7. OnceProbed'
      BY <2>6 DEF OnceProbed
    <2> QED BY <2>5, <2>7
  <1> QED BY <1>14, <1>15, <1>16, <1>17

LEMMA StopsRegistering == ASSUME DriversInv, RegisterStop PROVE DriversInv'
  <1> USE DEF DriversInv
  <1> DEFINE drv == registering.drv
             k   == registering.turn
  <1>1. /\ ~NotRegistering /\ registering' = [drv |-> NoDriver, turn |-> 1]
        /\ UNCHANGED <<buses, listDevices, listDrivers, driverOf, probed>>
    BY DEF RegisterStop, Registered
  <1>2. /\ drv \in Driver /\ BusOf[drv] \in Bus /\ OnBus \in Seq(Device) /\ k \in Nat \ {0}
    BY <1>1, AtWork
  <1>3. NotRegistering'
    BY <1>1 DEF NotRegistering
  <1>4. unbound \subseteq unbound'
    BY DEF RegisterStop
  <1>5. ASSUME unbound' = {}, NEW j \in DOMAIN OnBus, ~(j < k) PROVE ~Match(drv, OnBus[j])
    <2>1. j \in k .. Len(OnBus)
      BY <1>2, <1>5
    <2>2. ~(k > Len(OnBus))
      BY <1>2, <2>1
    <2>3. ~\E m \in k .. Len(OnBus) : Match(drv, OnBus[m])
      BY <1>5, <2>2 DEF RegisterStop, Rule
    <2> QED BY <2>1, <2>3
  <1>6. DriversTypes'
    BY <1>1 DEF DriversTypes
  <1>7. OnTheirBus'
    BY <1>1, <1>3 DEF OnTheirBus
  <1>8. FitBound'
    BY <1>1 DEF FitBound
  <1>9. ASSUME unbound' = {} PROVE AllBound' /\ OnceProbed'
    <2>1. AllBound /\ OnceProbed
      BY <1>4, <1>9
    <2>2. OnceProbed'
      BY <1>1, <2>1 DEF OnceProbed, TimesProbed
    <2>3. ASSUME NEW b \in Bus, NEW e \in Elements(listDevices[b]), NEW f \in Elements(listDrivers[b]), Match(f, e)
          PROVE  driverOf[e] = f
      <3>1. CASE f # drv
        BY <2>1, <2>3, <3>1 DEF AllBound
      <3>2. CASE f = drv
        <4>1. b = BusOf[drv]
          BY <3>2 DEF OnTheirBus
        <4>2. PICK j \in DOMAIN OnBus : e = OnBus[j]
          BY <4>1 DEF Elements, OnBus
        <4>3. j < k
          BY <1>5, <1>9, <2>3, <3>2, <4>2
        <4> QED BY <1>1, <2>1, <3>2, <4>2, <4>3 DEF AllBound
      <3> QED BY <3>1, <3>2
    <2>4. AllBound'
      BY <1>1, <1>3, <2>3 DEF AllBound, Match
    <2> QED BY <2>2, <2>4
  <1> QED BY <1>6, <1>7, <1>8, <1>9

LEMMA DriversStep == DriversInv /\ [DriversNext]_driverVars => DriversInv'
  <1> SUFFICES ASSUME DriversInv, [DriversNext]_driverVars PROVE DriversInv'
    OBVIOUS
  <1>1. CASE \E b \in Bus : bus_register(b)
    BY <1>1, RegistersBus
  <1>2. CASE \E dev \in Device : device_register(dev)
    BY <1>2, RegistersDevice
  <1>3. CASE \E drv \in Driver : driver_register(drv)
    BY <1>3, RegistersDriver
  <1>4. CASE ProbeTurn
    BY <1>4, ProbesDevice
  <1>5. CASE RegisterStop
    BY <1>5, StopsRegistering
  <1>6. CASE UNCHANGED driverVars
    <2>0. UNCHANGED <<buses, listDevices, listDrivers, driverOf, registering, probed, unbound, lost>>
      BY <1>6 DEF driverVars
    <2>1. DriversTypes /\ OnTheirBus /\ FitBound => DriversTypes' /\ OnTheirBus' /\ FitBound'
      BY <2>0 DEF DriversTypes, OnTheirBus, FitBound, NotRegistering, Match
    <2>2. AllBound => AllBound'
      BY <2>0 DEF AllBound, OnBus, NotRegistering, Match
    <2>3. OnceProbed => OnceProbed'
      BY <2>0 DEF OnceProbed, TimesProbed
    <2> QED BY <2>0, <2>1, <2>2, <2>3 DEF DriversInv
  <1> QED BY <1>1, <1>2, <1>3, <1>4, <1>5, <1>6 DEF DriversNext

LEMMA DriversAreBound == DriversInv => DriversBound
  <1> SUFFICES ASSUME DriversInv PROVE DriversBound
    OBVIOUS
  <1>1. FitBound
    BY DEF DriversInv
  <1>2. ASSUME unbound = {}, NotRegistering, NEW b \in Bus, NEW dev \in Elements(listDevices[b]),
               NEW drv \in Elements(listDrivers[b]), Match(drv, dev)
        PROVE  driverOf[dev] = drv
    <2>1. drv \in Driver
      BY ElementsOf DEF DriversInv, DriversTypes
    <2>2. drv # registering.drv
      BY <1>2, <2>1, DriversAssumption DEF NotRegistering
    <2> QED BY <1>2, <2>2 DEF DriversInv, AllBound
  <1>3. unbound = {} => OnceProbed
    BY DEF DriversInv
  <1> QED BY <1>1, <1>2, <1>3 DEF DriversBound, FitBound, OnceProbed

\* For any buses, devices and drivers, registered in any order: driver_register
\* and driver_probe_device bind no device to a driver of another bus or name,
\* and as long as no rule is broken every driver has all the devices of its name
\* and its probe was called once for each.
THEOREM DriversAlwaysBound == DriversSpec => []DriversBound
  BY DriversStart, DriversStep, DriversAreBound, PTL DEF DriversSpec

-----------------------------------------------------------------------------
(* Numbers: the smallest with a property, powers of two, digits            *)

LEMMA Smallest == ASSUME NEW S \in SUBSET Nat, S # {} PROVE \E k \in S : \A j \in S : k <= j
  <1>1. PICK x \in S : \A y \in S : ~(<<y, x>> \in OpToRel(<, Nat))
    BY NatLessThanWellFounded, WFMin
  <1>2. \A y \in S : ~(y < x)
    BY <1>1 DEF OpToRel
  <1> QED BY <1>2

\* 2^n is the number of subsets of a set of n.
LEMMA PowersOfTwo ==
    /\ \A n \in Nat : 2^n \in Nat \ {0}
    /\ \A n \in Nat : \A m \in 0 .. n : 2^m <= 2^n
  <1>1. ASSUME NEW n \in Nat
        PROVE  IsFiniteSet(SUBSET (1 .. n)) /\ Cardinality(SUBSET (1 .. n)) = 2^n
    <2>1. IsFiniteSet(1 .. n) /\ Cardinality(1 .. n) = n
      BY FS_Interval
    <2> QED BY <2>1, FS_SUBSET
  <1>2. ASSUME NEW n \in Nat PROVE 2^n \in Nat \ {0}
    <2>1. SUBSET (1 .. n) # {}
      OBVIOUS
    <2> QED BY <1>1, <2>1, FS_EmptySet, FS_CardinalityType
  <1>3. ASSUME NEW n \in Nat, NEW m \in 0 .. n PROVE 2^m <= 2^n
    <2>1. SUBSET (1 .. m) \subseteq SUBSET (1 .. n)
      <3>1. 1 .. m \subseteq 1 .. n
        OBVIOUS
      <3> QED BY <3>1
    <2>2. Cardinality(SUBSET (1 .. m)) <= Cardinality(SUBSET (1 .. n))
      BY <2>1, <1>1, FS_Subset
    <2>3. m \in Nat
      OBVIOUS
    <2> QED BY <1>1, <2>2, <2>3
  <1> QED BY <1>2, <1>3

\* What do_div leaves is smaller than what it was given.
LEMMA Divided ==
    ASSUME NEW base \in {8, 10, 16}, NEW k \in Nat \ {0}
    PROVE  k \div base \in 0 .. k - 1 /\ k % base \in 0 .. 15
  <1>1. CASE base = 8
    BY <1>1
  <1>2. CASE base = 10
    BY <1>2
  <1>3. CASE base = 16
    BY <1>3
  <1> QED BY <1>1, <1>2, <1>3

\* The loop of number() over the digits is well-founded, and gives digits.
DigitStep(f, k, base) == IF k = 0 THEN <<>> ELSE Append(f[k \div base], k % base)

LEMMA DigitsExist ==
    ASSUME NEW base \in {8, 10, 16}, NEW n \in Nat
    PROVE  \E f : f = [k \in 0 .. n |-> DigitStep(f, k, base)]
  <1> DEFINE Good(f, m) == f \in [0 .. m -> Seq(0 .. 15)] /\ \A k \in 0 .. m : f[k] = DigitStep(f, k, base)
             Bad == {m \in Nat : ~\E f : Good(f, m)}
  <1>1. Bad = {}
    <2> SUFFICES ASSUME Bad # {} PROVE FALSE
      OBVIOUS
    <2>1. PICK m \in Bad : \A j \in Bad : m <= j
      BY Smallest
    <2>2. CASE m = 0
      <3> DEFINE f == [k \in 0 .. 0 |-> <<>>]
      <3>1. f \in [0 .. 0 -> Seq(0 .. 15)] /\ \A k \in 0 .. 0 : f[k] = <<>> /\ k = 0
        OBVIOUS
      <3>2. Good(f, 0)
        BY <3>1 DEF DigitStep
      <3> QED BY <3>2, <2>1, <2>2
    <2>3. CASE m # 0
      <3>1. m - 1 \in Nat /\ m - 1 \notin Bad
        <4>1. m \in Nat /\ m - 1 \in Nat /\ ~(m <= m - 1)
          BY <2>1, <2>3
        <4> QED BY <4>1, <2>1
      <3>2. PICK f : Good(f, m - 1)
        BY <3>1
      <3> DEFINE g == [k \in 0 .. m |-> IF k = m THEN Append(f[m \div base], m % base) ELSE f[k]]
      <3>3. m \div base \in 0 .. m - 1 /\ m % base \in 0 .. 15
        BY <2>3, Divided
      <3>4. \A k \in 0 .. m : k # m => k \in 0 .. m - 1
        BY <2>1
      <3>5. g \in [0 .. m -> Seq(0 .. 15)]
        <4>1. Append(f[m \div base], m % base) \in Seq(0 .. 15)
          BY <3>2, <3>3
        <4>2. \A k \in 0 .. m - 1 : f[k] \in Seq(0 .. 15)
          BY <3>2
        <4> QED BY <4>1, <4>2, <3>4
      <3>6. ASSUME NEW k \in 0 .. m PROVE g[k] = DigitStep(g, k, base)
        <4>1. CASE k = 0
          <5>1. 0 \in 0 .. m - 1
            BY <3>1
          <5>2. f[0] = <<>>
            BY <3>2, <5>1 DEF DigitStep
          <5>3. 0 # m /\ 0 \in 0 .. m
            BY <2>3, <2>1
          <5> QED BY <4>1, <5>2, <5>3 DEF DigitStep
        <4>2. CASE k # 0
          <5>1. k \div base \in 0 .. k - 1
            BY <4>2, Divided, <2>1
          <5>2. k \div base \in 0 .. m /\ k \div base # m
            BY <5>1, <2>1
          <5>3. g[k \div base] = f[k \div base]
            BY <5>2
          <5>4. CASE k = m
            <6>1. g[k] = Append(f[m \div base], m % base)
              BY <5>4
            <6> QED BY <6>1, <5>3, <5>4, <4>2 DEF DigitStep
          <5>5. CASE k # m
            <6>1. g[k] = f[k] /\ k \in 0 .. m - 1
              BY <5>5, <3>4
            <6>2. f[k] = DigitStep(f, k, base)
              BY <6>1, <3>2
            <6> HIDE DEF g
            <6> QED BY <6>1, <6>2, <5>3, <4>2 DEF DigitStep
          <5> QED BY <5>4, <5>5
        <4> QED BY <4>1, <4>2
      <3>7. Good(g, m)
        BY <3>5, <3>6
      <3> QED BY <3>7, <2>1
    <2> QED BY <2>2, <2>3
  <1>2. PICK f : Good(f, n)
    BY <1>1
  <1>3. f = [k \in 0 .. n |-> f[k]]
    BY <1>2
  <1>4. [k \in 0 .. n |-> f[k]] = [k \in 0 .. n |-> DigitStep(f, k, base)]
    BY <1>2
  <1> QED BY <1>3, <1>4

LEMMA DigitsAre ==
    ASSUME NEW base \in {8, 10, 16}, NEW n \in Nat
    PROVE  DigitsOf(n, base) \in Seq(0 .. 15)
  <1> DEFINE f == CHOOSE g : g = [k \in 0 .. n |-> IF k = 0 THEN <<>> ELSE Append(g[k \div base], k % base)]
  <1>1. f = [k \in 0 .. n |-> IF k = 0 THEN <<>> ELSE Append(f[k \div base], k % base)]
    <2>1. \E g : g = [k \in 0 .. n |-> IF k = 0 THEN <<>> ELSE Append(g[k \div base], k % base)]
      BY DigitsExist DEF DigitStep
    <2> QED BY <2>1
  <1>2. DigitsOf(n, base) = IF n = 0 THEN <<0>> ELSE f[n]
    BY DEF DigitsOf
  <1> HIDE DEF f
  <1>3. \A k \in 0 .. n : f[k] = IF k = 0 THEN <<>> ELSE Append(f[k \div base], k % base)
    BY <1>1
  <1> DEFINE Bad == {k \in 0 .. n : f[k] \notin Seq(0 .. 15)}
  <1>4. Bad = {}
    <2> SUFFICES ASSUME Bad # {} PROVE FALSE
      OBVIOUS
    <2>1. Bad \in SUBSET Nat
      OBVIOUS
    <2>2. PICK m \in Bad : \A j \in Bad : m <= j
      BY <2>1, Smallest
    <2>3. CASE m = 0
      <3>1. 0 \in 0 .. n /\ <<>> \in Seq(0 .. 15)
        OBVIOUS
      <3>2. f[0] = <<>>
        BY <1>3, <3>1
      <3> QED BY <2>2, <2>3, <3>1, <3>2
    <2>4. CASE m # 0
      <3>1. m \div base \in 0 .. m - 1 /\ m % base \in 0 .. 15
        BY <2>2, <2>4, Divided
      <3>2. m \div base \in 0 .. n /\ m \div base \notin Bad
        BY <3>1, <2>2
      <3>3. f[m \div base] \in Seq(0 .. 15)
        BY <3>2
      <3>4. f[m] = Append(f[m \div base], m % base)
        BY <1>3, <2>2, <2>4
      <3>5. Append(f[m \div base], m % base) \in Seq(0 .. 15)
        BY <3>1, <3>3
      <3> QED BY <3>4, <3>5, <2>2
    <2> QED BY <2>3, <2>4
  <1>5. <<0>> \in Seq(0 .. 15) /\ f[n] \in Seq(0 .. 15)
    BY <1>4
  <1> QED BY <1>2, <1>5

-----------------------------------------------------------------------------
(* vsnprintf                                                               *)

PrintfSpec == PrintfInit /\ [][PrintfNext]_printfVars

\* Whatever may be printed
Printable == Characters \cup {"a", "b", " ", "x", "X"} \cup {Small[j] : j \in 1 .. 16} \cup {Large[j] : j \in 1 .. 16}
             \cup UNION {{w[k] : k \in DOMAIN w} : w \in Words}

\* What the pointer into the format may be at
FormatChar == Characters \cup {"", "a"}

InText == stage \notin {"call", "refused", "done"}

PrintfTypes ==
    /\ ch \in FormatChar
    /\ fieldWidth \in Int
    /\ precision \in Nat \/ (precision = -1 /\ stage \notin {"point", "pointDigits"})
    /\ buf \in 1 .. Addresses - 1 /\ bufSize \in 0 .. Addresses - 1
    /\ full \in Seq(Printable)

\* What has been printed so far is stored as far as there is room for it, as
\* long as it ends before memory does.
Stored ==
    /\ str = buf + Len(full)
    /\ DOMAIN written = {a \in buf .. end : a < str}
    /\ \A a \in DOMAIN written : written[a] = full[(a - buf) + 1]
TextStored ==
    /\ end = buf + (bufSize - 1)
    /\ Below => Stored

PrintfInv ==
    /\ PrintfTypes
    /\ ~InText => BufferHolds
    /\ InText => TextStored
    /\ stage = "call" => written = <<>> /\ full = <<>>

\* Characters, blanks, numbers and parts of what is passed to %s are texts.
LEMMA Printables ==
    /\ Characters \subseteq Printable
    /\ "a" \in Printable /\ "b" \in Printable /\ " " \in Printable /\ "x" \in Printable
    /\ "X" \in Printable /\ "0" \in Printable /\ "-" \in Printable /\ "+" \in Printable /\ "%" \in Printable
    /\ \A d \in 0 .. 15 : Small[d + 1] \in Printable /\ Large[d + 1] \in Printable
    /\ Words \subseteq Seq(Printable)
  <1>1. /\ Characters \subseteq Printable
        /\ "a" \in Printable /\ "b" \in Printable /\ " " \in Printable /\ "x" \in Printable
        /\ "X" \in Printable /\ "0" \in Printable /\ "-" \in Printable /\ "+" \in Printable /\ "%" \in Printable
    BY DEF Printable, Characters, FlagChars, Conversions, Numeric
  <1>2. ASSUME NEW d \in 0 .. 15 PROVE Small[d + 1] \in Printable /\ Large[d + 1] \in Printable
    <2>1. d + 1 \in 1 .. 16
      OBVIOUS
    <2> QED BY <2>1, Zenon DEF Printable
  <1>3. ASSUME NEW w \in Words PROVE w \in Seq(Printable)
    <2> DEFINE used == {w[k] : k \in DOMAIN w}
    <2>1. w \in Seq(used)
      BY PrintfAssumption
    <2>2. used \subseteq Printable
      BY Zenon DEF Printable
    <2> HIDE DEF used
    <2> QED BY <2>1, <2>2
  <1> QED BY <1>1, <1>2, <1>3

LEMMA RepeatText == ASSUME NEW c \in Printable, NEW n \in Int PROVE Repeat(c, n) \in Seq(Printable)
  <1> DEFINE m == IF n > 0 THEN n ELSE 0
  <1>1. m \in Nat
    OBVIOUS
  <1>2. Repeat(c, n) = [k \in 1 .. m |-> c]
    BY DEF Repeat
  <1> HIDE DEF m
  <1> QED BY <1>1, <1>2

LEMMA ConcatText ==
    ASSUME NEW a \in Seq(Printable), NEW b \in Seq(Printable) PROVE a \o b \in Seq(Printable)
  OBVIOUS

LEMMA JustifyText ==
    ASSUME NEW text \in Seq(Printable), fieldWidth \in Int PROVE Justify(text) \in Seq(Printable)
  <1>0. Len(text) \in Nat
    OBVIOUS
  <1>1. fieldWidth - Len(text) \in Int
    BY <1>0
  <1>2. Repeat(" ", fieldWidth - Len(text)) \in Seq(Printable)
    BY <1>1, RepeatText, Printables
  <1> QED BY <1>2, ConcatText DEF Justify

LEMMA NumberText ==
    ASSUME NEW num \in 0 .. 2^LongLongBits - 1, NEW base \in {8, 10, 16}, NEW width \in Int, NEW prec \in Int, NEW f
    PROVE  number(num, base, width, prec, f) \in Seq(Printable)
  <1> DEFINE f1     == IF "-" \in f THEN f \ {"0"} ELSE f
             sign   == SignOf(num, f)
             prefix == PrefixOf(base, f)
             tmp    == DigitsOf(IF sign = <<"-">> THEN 2^LongLongBits - num ELSE num, base)
             pad    == width - Len(sign) - Len(prefix) - Most(prec, Len(tmp))
             table  == IF "LARGE" \in f THEN Large ELSE Small
             shown  == [k \in DOMAIN tmp |-> table[tmp[k] + 1]]
  <1>1. sign \in Seq(Printable)
    <2>0. <<>> \in Seq(Printable) /\ \A c \in Printable : <<c>> \in Seq(Printable)
      OBVIOUS
    <2>1. <<>> \in Seq(Printable) /\ <<"-">> \in Seq(Printable) /\ <<"+">> \in Seq(Printable) /\ <<" ">> \in Seq(Printable)
      BY <2>0, Printables, Zenon
    <2> QED BY <2>1, Zenon DEF SignOf
  <1>2. prefix \in Seq(Printable)
    <2>1. "0" \in Printable /\ "x" \in Printable /\ "X" \in Printable
      BY Printables
    <2>2. <<>> \in Seq(Printable) /\ <<"0", "x">> \in Seq(Printable) /\ <<"0", "X">> \in Seq(Printable) /\ <<"0">> \in Seq(Printable)
      BY <2>1
    <2> QED BY <2>2 DEF PrefixOf
  <1>3. tmp \in Seq(0 .. 15)
    <2> DEFINE n == IF sign = <<"-">> THEN 2^LongLongBits - num ELSE num
    <2>1. 2^LongLongBits \in Nat
      BY PowersOfTwo, PrintfAssumption
    <2>2. n \in Nat
      BY <2>1
    <2> HIDE DEF n, sign
    <2> QED BY <2>2, DigitsAre DEF n
  <1>4. shown \in Seq(Printable)
    <2> HIDE DEF tmp
    <2>1. /\ DOMAIN tmp = 1 .. Len(tmp) /\ Len(tmp) \in Nat
          /\ \A k \in DOMAIN tmp : tmp[k] \in 0 .. 15
      BY <1>3
    <2>2. \A k \in DOMAIN tmp : table[tmp[k] + 1] \in Printable
      <3> TAKE k \in DOMAIN tmp
      <3>1. tmp[k] \in 0 .. 15
        BY <2>1
      <3> QED BY <3>1, Printables
    <2> HIDE DEF table
    <2> QED BY <2>1, <2>2
  <1>5. pad \in Int /\ prec - Len(tmp) \in Int
    <2> HIDE DEF tmp, sign, prefix
    <2>1. Len(tmp) \in Nat /\ Len(sign) \in Nat /\ Len(prefix) \in Nat
      BY <1>1, <1>2, <1>3
    <2> QED BY <2>1 DEF Most
  <1> DEFINE p1 == IF f1 \cap {"0", "-"} = {} THEN Repeat(" ", pad) ELSE <<>>
             p2 == IF "-" \notin f1 /\ "0" \in f1 THEN Repeat("0", pad) ELSE <<>>
             p3 == Repeat("0", prec - Len(tmp))
             p4 == IF "-" \in f1 THEN Repeat(" ", pad) ELSE <<>>
  <1>6. number(num, base, width, prec, f) = p1 \o sign \o prefix \o p2 \o p3 \o shown \o p4
    BY DEF number
  <1>7. /\ p1 \in Seq(Printable) /\ p2 \in Seq(Printable)
        /\ p3 \in Seq(Printable) /\ p4 \in Seq(Printable)
    <2> HIDE DEF pad, f1, tmp
    <2>1. /\ Repeat(" ", pad) \in Seq(Printable) /\ Repeat("0", pad) \in Seq(Printable)
          /\ Repeat("0", prec - Len(tmp)) \in Seq(Printable)
      BY <1>5, RepeatText, Printables
    <2>2. <<>> \in Seq(Printable)
      OBVIOUS
    <2> QED BY <2>1, <2>2
  <1> HIDE DEF p1, p2, p3, p4, sign, prefix, shown
  <1> QED BY <1>1, <1>2, <1>4, <1>6, <1>7, ConcatText

\* What the qualifier takes of an argument is a number of long long's bits.
LEMMA ArgumentBits ==
    ASSUME NEW x \in Numbers, NEW q, NEW signed \in BOOLEAN
    PROVE  /\ ArgumentOf(x, q, signed) \in 0 .. 2^LongLongBits - 1
           /\ x % 2^IntBits \in 0 .. 2^LongLongBits - 1
  <1> DEFINE bits == IF q = "L" THEN LongLongBits ELSE IF q = "h" THEN ShortBits ELSE IntBits
  <1>1. bits \in Nat /\ bits \in 0 .. LongLongBits /\ IntBits \in 0 .. LongLongBits /\ LongLongBits \in Nat
    BY PrintfAssumption
  <1>2. x \in Nat
    BY PrintfAssumption, PowersOfTwo
  <1>3. ASSUME NEW b \in 0 .. LongLongBits
        PROVE  2^b \in Nat \ {0} /\ 2^b <= 2^LongLongBits /\ 2^LongLongBits \in Nat
    BY <1>1, PowersOfTwo
  <1>4. \A a \in Nat, m \in Nat \ {0} : a % m \in 0 .. m - 1
    OBVIOUS
  <1>5. ASSUME NEW b \in 0 .. LongLongBits PROVE x % 2^b \in 0 .. 2^b - 1
    BY <1>2, <1>3, <1>4
  <1>6. ASSUME NEW y \in 0 .. 2^bits - 1 PROVE /\ y \in 0 .. 2^LongLongBits - 1
                                              /\ Extend(y, bits) \in 0 .. 2^LongLongBits - 1
    <2> HIDE DEF bits
    <2>1. 2^bits \in Nat \ {0} /\ 2^bits <= 2^LongLongBits /\ 2^LongLongBits \in Nat
      BY <1>1, <1>3
    <2>2. PICK u \in Nat, v \in Nat : u = 2^bits /\ v = 2^LongLongBits
      BY <2>1
    <2>3. y \in 0 .. v - 1 /\ y + v - u \in 0 .. v - 1
      BY <2>1, <2>2
    <2> QED BY <2>2, <2>3 DEF Extend
  <1>7. ArgumentOf(x, q, signed) \in 0 .. 2^LongLongBits - 1
    <2>1. x % 2^bits \in 0 .. 2^bits - 1
      BY <1>1, <1>5
    <2>2. ArgumentOf(x, q, signed) = IF signed /\ q # "z" THEN Extend(x % 2^bits, bits) ELSE x % 2^bits
      BY DEF ArgumentOf
    <2> HIDE DEF bits
    <2> QED BY <2>1, <2>2, <1>6
  <1>8. x % 2^IntBits \in 0 .. 2^LongLongBits - 1
    <2>1. x % 2^IntBits \in 0 .. 2^IntBits - 1
      BY <1>1, <1>5
    <2>2. 2^IntBits \in Nat \ {0} /\ 2^IntBits <= 2^LongLongBits /\ 2^LongLongBits \in Nat
      BY <1>1, <1>3
    <2> QED BY <2>1, <2>2
  <1> QED BY <1>7, <1>8

\* Where str does not go around, each character goes to an address of its own.
LEMMA EmitBelow ==
    ASSUME NEW n \in Nat, NEW m \in Nat, NEW text \in Seq(Printable), m = Len(text), Emit(text),
           buf \in Nat, str = buf + n, buf + (n + m) < Addresses
    PROVE  LET there == {str + k - 1 : k \in DOMAIN text} \cap (0 .. end)
           IN  /\ written' = [a \in DOMAIN written \cup there |->
                                IF a \in there THEN text[a - str + 1] ELSE written[a]]
               /\ str' = str + m
  <1> DEFINE there == {str + k - 1 : k \in DOMAIN text} \cap (0 .. end)
             round == {(str + k - 1) % Addresses : k \in DOMAIN text} \cap (0 .. end)
  <1>0. Addresses \in Nat /\ str \in Nat /\ DOMAIN text = 1 .. m
    BY PrintfAssumption
  <1>1. \A x, y \in Nat : x < y => x % y = x
    OBVIOUS
  <1>2. ASSUME NEW k \in DOMAIN text PROVE (str + k - 1) % Addresses = str + k - 1 /\ k \in Int
    <2>1. PICK x \in Nat : x = str + k - 1
      BY <1>0
    <2>2. x < Addresses
      BY <1>0, <2>1
    <2> QED BY <1>0, <1>1, <2>1, <2>2
  <1>3. (str + m) % Addresses = str + m
    <2>1. str + m \in Nat /\ str + m < Addresses
      BY <1>0
    <2> QED BY <1>0, <1>1, <2>1
  <1>4. round = there
    BY <1>2
  <1>5. ASSUME NEW a \in there PROVE Rightmost(ComeTo(a, text)) = a - str + 1
    <2>1. PICK k \in DOMAIN text : a = str + k - 1
      OBVIOUS
    <2>2. k \in Int /\ k = a - str + 1
      BY <1>0, <2>1
    <2>3. ASSUME NEW j \in DOMAIN text, (str + j - 1) % Addresses = a PROVE j = k
      <3>1. str + j - 1 = a /\ j \in Int
        BY <1>2, <2>3
      <3> QED BY <1>0, <2>1, <2>2, <3>1
    <2>4. (str + k - 1) % Addresses = a
      BY <1>2, <2>1
    <2>5. ComeTo(a, text) = {k}
      BY <2>3, <2>4 DEF ComeTo
    <2>6. Rightmost({k}) = k
      BY <2>2 DEF Rightmost
    <2> QED BY <2>2, <2>5, <2>6
  <1>6. /\ written' = [a \in DOMAIN written \cup round |->
                         IF a \in round THEN text[Rightmost(ComeTo(a, text))] ELSE written[a]]
        /\ str' = (str + m) % Addresses
    BY DEF Emit
  <1> HIDE DEF there, round
  <1>7. written' = [a \in DOMAIN written \cup there |-> IF a \in there THEN text[a - str + 1] ELSE written[a]]
    BY <1>4, <1>5, <1>6
  <1> QED BY <1>3, <1>6, <1>7 DEF there

LEMMA EmitStored ==
    ASSUME PrintfTypes, TextStored, NEW text \in Seq(Printable), Emit(text), UNCHANGED <<buf, bufSize, end>>
    PROVE  TextStored' /\ full' \in Seq(Printable)
  <1>1. PICK n \in Nat : n = Len(full)
    BY DEF PrintfTypes
  <1>2. PICK m \in Nat : m = Len(text)
    OBVIOUS
  <1>3. /\ full' = full \o text /\ full' \in Seq(Printable) /\ Len(full') = n + m
        /\ \A j \in 1 .. n : full'[j] = full[j]
        /\ \A j \in 1 .. m : full'[n + j] = text[j]
        /\ DOMAIN text = 1 .. m
    BY <1>1, <1>2 DEF Emit, PrintfTypes
  <1>4. buf \in Nat \ {0} /\ bufSize \in Nat /\ end = buf + (bufSize - 1)
    BY PrintfAssumption DEF TextStored, PrintfTypes
  <1>5. ASSUME Below' PROVE Stored'
    <2>1. buf + (n + m) < Addresses /\ Addresses \in Nat /\ Below
      BY <1>1, <1>3, <1>4, <1>5, PrintfAssumption DEF Below
    <2>2. /\ str = buf + n
          /\ DOMAIN written = {a \in buf .. end : a < str}
          /\ \A a \in DOMAIN written : written[a] = full[(a - buf) + 1]
      BY <1>1, <2>1 DEF TextStored, Stored
    <2> DEFINE there == {str + k - 1 : k \in DOMAIN text} \cap (0 .. end)
    <2>3. /\ written' = [a \in DOMAIN written \cup there |-> IF a \in there THEN text[a - str + 1] ELSE written[a]]
          /\ str' = str + m
      BY <1>2, <1>4, <2>1, <2>2, EmitBelow
    <2>4. \A a : a \in there <=> a \in buf .. end /\ str <= a /\ a < str + m
      <3>1. ASSUME NEW a \in there PROVE a \in buf .. end /\ str <= a /\ a < str + m
        BY <1>3, <1>4, <2>2
      <3>2. ASSUME NEW a \in buf .. end, str <= a, a < str + m PROVE a \in there
        <4>1. a \in 0 .. end /\ a \in Int /\ str \in Int /\ m \in Nat
          BY <1>3, <1>4, <2>2
        <4>2. (a - str) + 1 \in 1 .. m /\ a = str + ((a - str) + 1) - 1
          BY <4>1, <3>2
        <4> QED BY <4>1, <4>2, <1>3
      <3> QED BY <3>1, <3>2
    <2> HIDE DEF there
    <2>5. DOMAIN written \cup there = {a \in buf .. end : a < str + m}
      BY <1>4, <2>2, <2>4
    <2>6. DOMAIN written' = {a \in buf .. end : a < str + m}
      BY <2>3, <2>5
    <2>7. ASSUME NEW a \in DOMAIN written' PROVE written'[a] = full'[(a - buf) + 1]
      <3>1. a \in buf .. end /\ a < str + m /\ a \in DOMAIN written \cup there
        BY <2>5, <2>6, <2>7
      <3>2. written'[a] = IF a \in there THEN text[a - str + 1] ELSE written[a]
        BY <2>3, <3>1
      <3>3. CASE a >= str
        <4>0. buf \in Nat /\ bufSize \in Nat /\ end \in Int /\ str = buf + n /\ a \in Int
          BY <1>4, <2>2, <3>1
        <4>1. (a - str) + 1 \in 1 .. m /\ (a - buf) + 1 = n + ((a - str) + 1)
          BY <4>0, <3>1, <3>3
        <4>2. a \in there
          BY <2>4, <3>1, <3>3
        <4> QED BY <1>3, <3>2, <4>1, <4>2
      <3>4. CASE ~(a >= str)
        <4>1. (a - buf) + 1 \in 1 .. n /\ a \in DOMAIN written /\ a \notin there
          BY <1>4, <2>2, <2>4, <3>1, <3>4
        <4> QED BY <1>3, <2>2, <3>2, <4>1
      <3> QED BY <3>3, <3>4
    <2>8. str' = buf' + Len(full') /\ DOMAIN written' = {a \in buf' .. end' : a < str'} /\ buf' = buf
      BY <1>3, <1>4, <2>2, <2>3, <2>6
    <2> QED BY <2>7, <2>8 DEF Stored
  <1>6. end' = buf' + (bufSize' - 1)
    BY <1>4
  <1> QED BY <1>3, <1>5, <1>6 DEF TextStored

\* What is printed and stays in the text, and what only reads the format
LEMMA StaysInText ==
    ASSUME PrintfInv, InText, UNCHANGED <<buf, bufSize, end>>, InText',
           ch' \in FormatChar, fieldWidth' \in Int,
           precision' \in Nat \/ (precision' = -1 /\ stage' \notin {"point", "pointDigits"}),
           \/ \E text \in Seq(Printable) : Emit(text)
           \/ UNCHANGED <<str, written, full>>
    PROVE  PrintfInv'
  <1>1. PrintfTypes /\ TextStored
    BY DEF PrintfInv
  <1>2. TextStored' /\ full' \in Seq(Printable)
    <2>1. CASE \E text \in Seq(Printable) : Emit(text)
      BY <1>1, <2>1, EmitStored
    <2>2. CASE UNCHANGED <<str, written, full>>
      BY <1>1, <2>2 DEF TextStored, Stored, Below, PrintfTypes
    <2> QED BY <2>1, <2>2
  <1>3. PrintfTypes'
    BY <1>1, <1>2 DEF PrintfTypes
  <1>4. stage' # "call"
    BY DEF InText
  <1> QED BY <1>2, <1>3, <1>4 DEF PrintfInv

\* The next character is one of those the format may have.
LEMMA Advances ==
    /\ Advance(Characters) => ch' \in FormatChar
    /\ Advance({"a", "%"}) => ch' \in FormatChar
    /\ AdvanceBehind => ch' \in FormatChar
  <1>1. Characters \subseteq FormatChar /\ "" \in FormatChar /\ "a" \in FormatChar /\ "%" \in FormatChar
    BY Zenon DEF FormatChar, Characters, Conversions, Numeric
  <1> QED BY <1>1, Zenon DEF Advance, AdvanceBehind

LEMMA PrintfStarts == PrintfInit => PrintfInv
  <1> SUFFICES ASSUME PrintfInit PROVE PrintfInv
    OBVIOUS
  <1>0. ch = "" /\ "" \in FormatChar
    BY Zenon DEF PrintfInit, FormatChar
  <1>1. PrintfTypes
    <2>1. /\ fieldWidth = -1 /\ precision = -1 /\ stage = "call" /\ full = <<>>
          /\ \E b \in Buffers : buf = b[1] /\ bufSize = b[2]
      BY Zenon DEF PrintfInit
    <2>2. buf \in 1 .. Addresses - 1 /\ bufSize \in 0 .. Addresses - 1
      BY <2>1, PrintfAssumption
    <2>3. ch \in FormatChar
      BY <1>0
    <2> QED BY <2>1, <2>2, <2>3 DEF PrintfTypes
  <1>2. stage = "call" /\ written = <<>> /\ full = <<>>
    BY DEF PrintfInit
  <1>3. BufferHolds
    BY <1>2 DEF BufferHolds
  <1> QED BY <1>1, <1>2, <1>3 DEF PrintfInv, InText

\* The buffer ends where its size says, or where memory does.
LEMMA Enters == ASSUME PrintfInv, Entry PROVE PrintfInv'
  <1>1. /\ stage = "call" /\ written = <<>> /\ full = <<>> /\ written' = written /\ full' = full
        /\ fieldWidth' = fieldWidth /\ precision' = precision
    BY DEF Entry, PrintfInv, directive
  <1>2. PrintfTypes
    BY DEF PrintfInv
  <1>3. DOMAIN written' = {} /\ Len(full') = 0
    BY <1>1
  <1>4. CASE bufSize >= Addresses \div 2
    <2>1. stage' = "refused" /\ UNCHANGED <<ch, left, buf, bufSize, end, str>>
      BY <1>4 DEF Entry, buffer
    <2>2. PrintfTypes'
      BY <1>1, <1>2, <2>1 DEF PrintfTypes
    <2>3. BufferHolds'
      BY <1>3, <2>1 DEF BufferHolds
    <2> QED BY <2>1, <2>2, <2>3 DEF PrintfInv, InText
  <1>5. CASE ~(bufSize >= Addresses \div 2)
    <2>1. /\ stage' = "text" /\ str' = buf /\ end' = EndOf(buf, bufSize) /\ buf' = buf
          /\ bufSize' = IF (buf + bufSize - 1) % Addresses < buf - 1 THEN end' - buf + 1 ELSE bufSize
          /\ Advance({"a", "%"})
      BY <1>5 DEF Entry
    <2>2. /\ Addresses \in Nat \ {0, 1} /\ buf \in 1 .. Addresses - 1 /\ bufSize \in 0 .. Addresses - 1
      BY <1>2, PrintfAssumption DEF PrintfTypes
    <2> DEFINE e == (buf + bufSize - 1) % Addresses
    <2>3. /\ buf + bufSize - 1 < Addresses => e = buf + bufSize - 1
          /\ ~(buf + bufSize - 1 < Addresses) => e = (buf + bufSize - 1) - Addresses
      <3>1. \A a, m \in Nat : a < m => a % m = a
        OBVIOUS
      <3>2. \A a, m \in Nat : m <= a /\ a < m + m => a % m = a - m
        <4> SUFFICES ASSUME NEW a \in Nat, NEW m \in Nat, m <= a, a < m + m PROVE a % m = a - m
          OBVIOUS
        <4>1. m \in Nat \ {0} /\ a - m \in 0 .. m - 1 /\ a = 1 * m + (a - m)
          OBVIOUS
        <4> QED BY <4>1
      <3>3. PICK x \in Nat : x = buf + bufSize - 1
        BY <2>2
      <3>4. x < Addresses + Addresses /\ Addresses \in Nat
        BY <2>2, <3>3
      <3> QED BY <3>1, <3>2, <3>3, <3>4
    <2>4. /\ end' = buf' + (bufSize' - 1) /\ bufSize' \in 0 .. Addresses - 1
      <3>1. end' = IF e < buf - 1 THEN Addresses - 1 ELSE e
        BY <2>1 DEF EndOf, LastIn
      <3>2. bufSize' = IF e < buf - 1 THEN (end' - buf) + 1 ELSE bufSize
        BY <2>1
      <3> HIDE DEF e
      <3>3. CASE buf + bufSize - 1 < Addresses
        <4>1. e = buf + bufSize - 1 /\ ~(e < buf - 1)
          BY <2>2, <2>3, <3>3
        <4> QED BY <2>1, <2>2, <3>1, <3>2, <4>1
      <3>4. CASE ~(buf + bufSize - 1 < Addresses)
        <4>1. e < buf - 1
          BY <2>2, <2>3, <3>4
        <4>2. end' = Addresses - 1 /\ bufSize' = (end' - buf) + 1
          BY <3>1, <3>2, <4>1
        <4> QED BY <2>1, <2>2, <4>2
      <3> QED BY <3>3, <3>4
    <2>5. PrintfTypes'
      BY <1>1, <1>2, <2>1, <2>4, Advances DEF PrintfTypes
    <2>6. TextStored'
      <3>1. str' = buf' + Len(full') /\ DOMAIN written' = {a \in buf' .. end' : a < str'}
        BY <1>3, <2>1, <2>2
      <3> QED BY <1>3, <2>4, <3>1 DEF TextStored, Stored
    <2> QED BY <2>1, <2>5, <2>6 DEF PrintfInv, InText
  <1> QED BY <1>4, <1>5

LEMMA ReadsFormat ==
    ASSUME PrintfInv, Percent \/ Flag \/ Width \/ Precision \/ Qualifier
    PROVE  PrintfInv'
  <1>1. PrintfTypes
    BY DEF PrintfInv
  <1>2. CASE Percent
    <2>1. /\ InText /\ InText' /\ UNCHANGED <<buf, bufSize, end, str, written, full>>
          /\ fieldWidth' = -1 /\ precision' = -1 /\ stage' = "flags" /\ Advance(Characters)
      BY <1>2 DEF Percent, buffer, InText
    <2>2. ch' \in FormatChar
      BY <2>1, Advances
    <2>3. fieldWidth' \in Int /\ (precision' = -1 /\ stage' \notin {"point", "pointDigits"})
      BY <2>1
    <2> QED BY <2>1, <2>2, <2>3, StaysInText
  <1>3. CASE Flag
    <2>1. /\ InText /\ InText' /\ UNCHANGED <<buf, bufSize, end, str, written, full, fieldWidth, precision>>
          /\ Advance(Characters) \/ ch' = ch
      BY <1>3 DEF Flag, buffer, InText
    <2>2. ch' \in FormatChar
      BY <1>1, <2>1, Advances DEF PrintfTypes
    <2>3. fieldWidth' \in Int /\ (precision' \in Nat \/ (precision' = -1 /\ stage' \notin {"point", "pointDigits"}))
      BY <1>1, <1>3, <2>1 DEF Flag, PrintfTypes
    <2> QED BY <2>1, <2>2, <2>3, StaysInText
  <1>4. CASE Width
    <2>1. UNCHANGED <<buf, bufSize, end, str, written, full, precision>>
      BY <1>4 DEF Width, buffer
    <2>2. InText /\ InText'
      BY <1>4 DEF Width, InText
    <2>3. Advance(Characters) \/ ch' = ch
      BY <1>4 DEF Width
    <2>4. fieldWidth' \in Int
      <3>1. CASE IsDigit(ch) /\ fieldWidth' = 10 * Most(fieldWidth, 0) + DigitValue[ch]
        <4>1. DigitValue[ch] \in Int
          BY <3>1 DEF IsDigit, DigitValue
        <4>2. Most(fieldWidth, 0) \in Int
          BY <1>1 DEF PrintfTypes, Most
        <4> QED BY <3>1, <4>1, <4>2
      <3>2. CASE \E w \in Starred : fieldWidth' = -w \/ fieldWidth' = w
        BY <3>2 DEF Starred
      <3>3. CASE fieldWidth' = fieldWidth
        BY <1>1, <3>3 DEF PrintfTypes
      <3> QED BY <1>4, <3>1, <3>2, <3>3 DEF Width
    <2>5. ch' \in FormatChar
      BY <1>1, <2>3, Advances DEF PrintfTypes
    <2>6. precision' \in Nat \/ (precision' = -1 /\ stage' \notin {"point", "pointDigits"})
      BY <1>1, <1>4, <2>1 DEF Width, PrintfTypes
    <2> QED BY <2>1, <2>2, <2>4, <2>5, <2>6, StaysInText
  <1>5. CASE Precision
    <2>1. UNCHANGED <<buf, bufSize, end, str, written, full, fieldWidth>>
      BY <1>5 DEF Precision, buffer
    <2>2. InText /\ InText'
      BY <1>5 DEF Precision, InText
    <2>3. Advance(Characters) \/ ch' = ch
      BY <1>5 DEF Precision
    <2>4. precision' \in Nat \/ (precision' = -1 /\ stage' \notin {"point", "pointDigits"})
      <3>1. CASE stage \in {"point", "pointDigits"} /\ IsDigit(ch) /\ precision' = 10 * precision + DigitValue[ch]
        <4>1. DigitValue[ch] \in Nat
          BY <3>1 DEF IsDigit, DigitValue
        <4>2. precision \in Nat
          BY <1>1, <3>1 DEF PrintfTypes
        <4> QED BY <3>1, <4>1, <4>2
      <3>2. CASE \E p \in Starred : precision' = Most(p, 0)
        BY <3>2 DEF Starred, Most
      <3>3. CASE precision' = 0
        BY <3>3
      <3>4. CASE precision' = precision /\ stage' = "qualifier"
        BY <1>1, <3>4 DEF PrintfTypes
      <3> QED BY <1>5, <3>1, <3>2, <3>3, <3>4 DEF Precision
    <2>5. ch' \in FormatChar
      BY <1>1, <2>3, Advances DEF PrintfTypes
    <2> QED BY <1>1, <2>1, <2>2, <2>4, <2>5, StaysInText DEF PrintfTypes
  <1>6. CASE Qualifier
    <2>1. UNCHANGED <<buf, bufSize, end, str, written, full, fieldWidth, precision>>
      BY <1>6 DEF Qualifier, buffer
    <2>2. InText /\ InText'
      BY <1>6 DEF Qualifier, InText
    <2>3. Advance(Characters) \/ ch' = ch
      BY <1>6 DEF Qualifier
    <2>4. ch' \in FormatChar
      BY <1>1, <2>3, Advances DEF PrintfTypes
    <2>5. fieldWidth' \in Int /\ (precision' \in Nat \/ (precision' = -1 /\ stage' \notin {"point", "pointDigits"}))
      BY <1>1, <1>6, <2>1 DEF Qualifier, PrintfTypes
    <2> QED BY <2>1, <2>2, <2>4, <2>5, StaysInText
  <1> QED BY <1>2, <1>3, <1>4, <1>5, <1>6

LEMMA PrintsText ==
    ASSUME PrintfInv, InText, NEW argument, NEW text \in Seq(Printable), Prints(argument, text)
    PROVE  PrintfInv'
  <1>1. /\ Emit(text) /\ stage' = "text" /\ AdvanceBehind
        /\ UNCHANGED <<buf, bufSize, end, fieldWidth, precision>>
    BY DEF Prints, buffer, directive
  <1>2. ch' \in FormatChar
    BY <1>1, Advances
  <1>3. fieldWidth' \in Int /\ (precision' \in Nat \/ (precision' = -1 /\ stage' \notin {"point", "pointDigits"}))
    BY <1>1 DEF PrintfInv, PrintfTypes
  <1>4. InText'
    BY <1>1 DEF InText
  <1> QED BY <1>1, <1>2, <1>3, <1>4, StaysInText

LEMMA PrintsPlain == ASSUME PrintfInv, Plain PROVE PrintfInv'
  <1>1. /\ InText /\ InText' /\ stage' = "text" /\ Emit(<<ch>>) /\ Advance({"a", "%"})
        /\ UNCHANGED <<buf, bufSize, end, fieldWidth, precision>>
    BY DEF Plain, buffer, directive, InText
  <1>2. ch \in Printable
    <2>1. ch \in FormatChar
      BY DEF PrintfInv, PrintfTypes
    <2>2. ch \in Characters \/ ch = "a"
      BY <2>1, Zenon DEF Plain, FormatChar
    <2> QED BY <2>2, Printables
  <1>3. <<ch>> \in Seq(Printable)
    BY <1>2
  <1>4. ch' \in FormatChar
    BY <1>1, Advances
  <1>5. fieldWidth' \in Int /\ (precision' \in Nat \/ (precision' = -1 /\ stage' \notin {"point", "pointDigits"}))
    BY <1>1 DEF PrintfInv, PrintfTypes
  <1> QED BY <1>1, <1>3, <1>4, <1>5, StaysInText

LEMMA PrintsConversion ==
    ASSUME PrintfInv, ConvertText \/ ConvertCount \/ ConvertPointer \/ ConvertNumber
    PROVE  PrintfInv'
  <1>1. InText
    BY DEF ConvertText, ConvertCount, ConvertPointer, ConvertNumber, InText
  <1>2. PrintfTypes
    BY DEF PrintfInv
  <1>3. fieldWidth \in Int /\ precision \in Int
    BY <1>2 DEF PrintfTypes
  <1>4. CASE ConvertText
    <2>0. \A c \in Printable : <<c>> \in Seq(Printable)
      OBVIOUS
    <2>1. <<"b">> \in Seq(Printable) /\ <<"%">> \in Seq(Printable)
      BY <2>0, Printables, Zenon
    <2>2. CASE Prints(<<"b">>, Justify(<<"b">>))
      BY <1>1, <1>3, <2>1, <2>2, JustifyText, PrintsText
    <2>3. CASE Prints(<<>>, <<"%">>)
      BY <1>1, <2>1, <2>3, PrintsText
    <2>4. ASSUME NEW w \in Words,
                 LET len == IF precision = -1 \/ precision > Len(w) THEN Len(w) ELSE precision
                 IN  Prints(w, Justify(SubSeq(w, 1, len)))
          PROVE  PrintfInv'
      <3> DEFINE len == IF precision = -1 \/ precision > Len(w) THEN Len(w) ELSE precision
      <3>1. w \in Seq(Printable)
        BY Printables
      <3>2. len \in 0 .. Len(w)
        BY <1>2, <3>1 DEF PrintfTypes
      <3>3. Prints(w, Justify(SubSeq(w, 1, len)))
        BY <2>4
      <3> HIDE DEF len
      <3>4. SubSeq(w, 1, len) \in Seq(Printable)
        BY <3>1, <3>2
      <3>5. Justify(SubSeq(w, 1, len)) \in Seq(Printable)
        BY <3>4, <1>3, JustifyText
      <3> QED BY <1>1, <3>3, <3>5, PrintsText
    <2> QED BY <1>4, <2>2, <2>3, <2>4, Zenon DEF ConvertText
  <1>5. CASE ConvertCount
    <2>1. Prints((str - buf) % Addresses, <<>>) /\ <<>> \in Seq(Printable)
      BY <1>5 DEF ConvertCount
    <2> QED BY <1>1, <2>1, PrintsText
  <1>6. CASE ConvertPointer
    <2> DEFINE none  == fieldWidth = -1
               width == IF none THEN 2 * (IntBits \div 8) ELSE fieldWidth
               f     == IF none THEN flags \cup {"0"} ELSE flags
    <2>1. PICK x \in Numbers : Prints(x, number(x % 2^IntBits, 16, width, precision, f))
      BY <1>6, Zenon DEF ConvertPointer
    <2>2. width \in Int
      BY <1>3, PrintfAssumption
    <2>3. x % 2^IntBits \in 0 .. 2^LongLongBits - 1
      BY ArgumentBits
    <2> HIDE DEF width, f
    <2>4. number(x % 2^IntBits, 16, width, precision, f) \in Seq(Printable)
      BY <1>3, <2>2, <2>3, NumberText
    <2> QED BY <1>1, <2>1, <2>4, PrintsText
  <1>7. CASE ConvertNumber
    <2> DEFINE base == IF ch = "o" THEN 8 ELSE IF ch \in {"x", "X"} THEN 16 ELSE 10
               f    == flags \cup (IF ch = "X" THEN {"LARGE"} ELSE IF ch = "d" THEN {"SIGN"} ELSE {})
               sgn  == ch = "d"
    <2>1. PICK x \in Numbers : Prints(x, number(ArgumentOf(x, qualifier, sgn), base, fieldWidth, precision, f))
      BY <1>7, Zenon DEF ConvertNumber
    <2>2. base \in {8, 10, 16} /\ sgn \in BOOLEAN
      OBVIOUS
    <2> HIDE DEF base, f, sgn
    <2>3. ArgumentOf(x, qualifier, sgn) \in 0 .. 2^LongLongBits - 1
      BY <2>2, ArgumentBits
    <2>4. number(ArgumentOf(x, qualifier, sgn), base, fieldWidth, precision, f) \in Seq(Printable)
      BY <1>3, <2>2, <2>3, NumberText
    <2> QED BY <1>1, <2>1, <2>4, PrintsText
  <1> QED BY <1>4, <1>5, <1>6, <1>7

LEMMA PrintsOther == ASSUME PrintfInv, ConvertOther PROVE PrintfInv'
  <1>1. /\ InText /\ InText' /\ stage' = "text"
        /\ UNCHANGED <<buf, bufSize, end, fieldWidth, precision>>
        /\ Emit(IF ch = "" THEN <<"%">> ELSE <<"%", ch>>)
        /\ ch' = ch \/ AdvanceBehind
    BY Zenon DEF ConvertOther, buffer, directive, InText
  <1>2. ch \in FormatChar
    BY DEF PrintfInv, PrintfTypes
  <1>3. <<"%">> \in Seq(Printable) /\ (ch # "" => <<"%", ch>> \in Seq(Printable))
    <2>1. "%" \in Printable /\ (ch # "" => ch \in Printable)
      <3>1. ch # "" => ch \in Characters \/ ch = "a"
        BY <1>2, Zenon DEF FormatChar
      <3> QED BY <3>1, Printables, Zenon
    <2>2. \A c \in Printable, d \in Printable : <<c>> \in Seq(Printable) /\ <<c, d>> \in Seq(Printable)
      OBVIOUS
    <2> QED BY <2>1, <2>2, Zenon
  <1>4. \E text \in Seq(Printable) : Emit(text)
    BY <1>1, <1>3, Zenon
  <1>5. ch' \in FormatChar
    BY <1>1, <1>2, Advances
  <1>6. fieldWidth' \in Int /\ (precision' \in Nat \/ (precision' = -1 /\ stage' \notin {"point", "pointDigits"}))
    BY <1>1 DEF PrintfInv, PrintfTypes
  <1> QED BY <1>1, <1>4, <1>5, <1>6, StaysInText

\* The terminating NUL goes behind the text, or to the last place of the buffer.
LEMMA Finishes == ASSUME PrintfInv, Finish PROVE PrintfInv'
  <1>1. /\ stage = "text" /\ stage' = "done"
        /\ UNCHANGED <<ch, fieldWidth, precision, buf, bufSize, end, str, full>>
    BY Zenon DEF Finish, buffer, directive
  <1>2. PrintfTypes /\ TextStored
    BY <1>1 DEF PrintfInv, InText
  <1>3. PrintfTypes'
    BY <1>1, <1>2 DEF PrintfTypes
  <1>10. CASE ~Below
    <2>1. ~Below'
      BY <1>1, <1>10 DEF Below
    <2>2. BufferHolds'
      BY <1>1, <2>1, Zenon DEF BufferHolds
    <2> QED BY <1>1, <1>3, <2>2 DEF PrintfInv, InText
  <1> SUFFICES ASSUME Below PROVE PrintfInv'
    BY <1>10
  <1> DEFINE nul == IF str <= end THEN {str} ELSE IF bufSize > 0 THEN {end} ELSE {}
  <1>4. PICK e : e = ""
    OBVIOUS
  <1>5. written' = [a \in DOMAIN written \cup nul |-> IF a \in nul THEN e ELSE written[a]]
    BY <1>4, Zenon DEF Finish
  <1>6. PICK n \in Nat : n = Len(full)
    BY <1>2 DEF PrintfTypes
  <1>7. /\ buf \in Nat \ {0} /\ bufSize \in Nat /\ end = buf + (bufSize - 1) /\ str = buf + n
        /\ DOMAIN written = {a \in buf .. end : a < str}
        /\ \A a \in DOMAIN written : written[a] = full[(a - buf) + 1]
    BY <1>2, <1>6, PrintfAssumption DEF TextStored, Stored, PrintfTypes
  <1> DEFINE m == IF n < bufSize THEN n ELSE bufSize - 1
  <1>8. CASE bufSize = 0
    <2>1. nul = {} /\ DOMAIN written = {}
      BY <1>7, <1>8
    <2>2. DOMAIN written' = {}
      BY <1>5, <2>1
    <2>3. str' - buf' = Len(full') /\ ~(bufSize' > 0)
      BY <1>1, <1>6, <1>7, <1>8
    <2>4. BufferHolds'
      BY <1>1, <2>2, <2>3 DEF BufferHolds
    <2> QED BY <1>1, <1>3, <2>4 DEF PrintfInv, InText
  <1>9. CASE bufSize # 0
    <2>1. m \in Nat /\ m <= n /\ m <= bufSize - 1 /\ nul = {buf + m}
      BY <1>7, <1>9
    <2> HIDE DEF nul, m
    <2>2. DOMAIN written' = buf .. buf + m
      <3>1. \A a : a \in DOMAIN written \cup nul <=> a \in buf .. buf + m
        <4>1. ASSUME NEW a \in DOMAIN written \cup nul PROVE a \in buf .. buf + m
          BY <1>7, <2>1 DEF m
        <4>2. ASSUME NEW a \in buf .. buf + m, a # buf + m PROVE a \in DOMAIN written
          BY <1>7, <1>9, <2>1, <4>2
        <4> QED BY <4>1, <4>2, <2>1
      <3> QED BY <1>5, <3>1
    <2>3. written'[buf + m] = e
      BY <1>5, <2>1
    <2>4. ASSUME NEW k \in 1 .. m PROVE written'[buf + k - 1] = full[k]
      <3>1. PICK a \in Int : a = buf + k - 1
        BY <1>7
      <3>2. a \in DOMAIN written /\ a # buf + m /\ (a - buf) + 1 = k
        BY <1>7, <2>1, <3>1
      <3>3. written'[a] = full[(a - buf) + 1]
        BY <1>5, <1>7, <2>1, <3>2
      <3> QED BY <3>1, <3>2, <3>3
    <2>5. buf .. buf + m \subseteq buf .. buf + bufSize - 1 /\ str - buf = n
      BY <1>7, <2>1
    <2>6. BufferHolds'
      <3>1. /\ buf' = buf /\ bufSize' = bufSize /\ full' = full /\ str' = str /\ stage' = "done"
            /\ (IF Len(full') < bufSize' THEN Len(full') ELSE bufSize' - 1) = m
        BY <1>1, <1>6 DEF m
      <3>2. DOMAIN written' \subseteq buf' .. buf' + bufSize' - 1
        BY <2>2, <2>5, <3>1
      <3>3. str' - buf' = Len(full')
        BY <1>6, <2>5, <3>1
      <3>4. /\ DOMAIN written' = buf' .. buf' + m
            /\ written'[buf' + m] = e
            /\ \A k \in 1 .. m : written'[buf' + k - 1] = full'[k]
        BY <2>2, <2>3, <2>4, <3>1
      <3>5. stage' # "refused"
        BY <3>1
      <3> QED BY <1>4, <3>1, <3>2, <3>3, <3>4, <3>5, Zenon DEF BufferHolds
    <2> QED BY <1>1, <1>3, <2>6 DEF PrintfInv, InText
  <1> QED BY <1>8, <1>9

LEMMA PrintfStep == PrintfInv /\ [PrintfNext]_printfVars => PrintfInv'
  <1> SUFFICES ASSUME PrintfInv, [PrintfNext]_printfVars PROVE PrintfInv'
    OBVIOUS
  <1>1. CASE Entry
    BY <1>1, Enters
  <1>2. CASE Plain
    BY <1>2, PrintsPlain
  <1>3. CASE Percent \/ Flag \/ Width \/ Precision \/ Qualifier
    BY <1>3, ReadsFormat
  <1>4. CASE ConvertText \/ ConvertCount \/ ConvertPointer \/ ConvertNumber
    BY <1>4, PrintsConversion
  <1>5. CASE ConvertOther
    BY <1>5, PrintsOther
  <1>6. CASE Finish
    BY <1>6, Finishes
  <1>7. CASE UNCHANGED printfVars
    <2>1. UNCHANGED <<stage, ch, fieldWidth, precision, buf, bufSize, end, str, written, full>>
      BY <1>7, Zenon DEF printfVars
    <2>2. PrintfTypes' /\ (InText' <=> InText)
      BY <2>1 DEF PrintfInv, PrintfTypes, InText
    <2>3. BufferHolds => BufferHolds'
      BY <2>1, Zenon DEF BufferHolds, Below
    <2>4. TextStored => TextStored'
      BY <2>1, Zenon DEF TextStored, Stored, Below
    <2> QED BY <2>1, <2>2, <2>3, <2>4 DEF PrintfInv
  <1> QED BY <1>1, <1>2, <1>3, <1>4, <1>5, <1>6, <1>7 DEF PrintfNext

LEMMA PrintfHolds == PrintfInv => BufferHolds
  <1> SUFFICES ASSUME PrintfInv, InText PROVE BufferHolds
    BY DEF PrintfInv
  <1>1. stage # "refused" /\ stage # "done"
    BY DEF InText
  <1>2. ASSUME Below PROVE DOMAIN written \subseteq buf .. buf + bufSize - 1
    <2>1. buf \in Nat /\ bufSize \in Nat /\ end = buf + (bufSize - 1) /\ DOMAIN written = {a \in buf .. end : a < str}
      BY <1>2, PrintfAssumption DEF PrintfInv, PrintfTypes, TextStored, Stored
    <2> QED BY <2>1
  <1> QED BY <1>1, <1>2, Zenon DEF BufferHolds

\* For memories, buffers, sizes and words of any kind, and any format whose
\* text, were it all stored, ended before memory does: vsnprintf stores nothing
\* outside of the buffer it was given, and has in it as much of the text as
\* there is room for, with a NUL behind it, when it returns the length of the
\* whole.  Of a longer text nothing is said: str goes on at address 0.
THEOREM BufferAlwaysHolds == PrintfSpec => []BufferHolds
  BY PrintfStarts, PrintfStep, PrintfHolds, PTL DEF PrintfSpec

-----------------------------------------------------------------------------
(* The console                                                             *)

ConsoleSpec == ConsoleInit /\ [][ConsoleNext]_consoleVars

\* What texts consist of, and cells of the buffers hold
Char == (Keys \cup Letters \cup {Return, Junk, "#", "\n", "!"}) \ {NUL}
Cell == Char \cup {NUL}

Inside == [at : {"store"}, rest : Seq(Char), k : Nat] \cup [at : {"end", "send"}, k : Nat]
Stage   == {"none", "hello", "create", "wrote", "reopen", "read", "exited", "failed", "return", "gone"}
Pending == {"hello", "create", "wrote", "reopen"}

ConsoleTypes ==
    /\ outBuf \in [0 .. OutSize - 1 -> Cell] /\ command \in [0 .. CommandSize - 1 -> Cell]
    /\ printing \in [Printer -> [at : {"out"}] \cup Inside]
    /\ due \in Seq(Char)
    /\ shellAt \in {"prompt", "read", "newline", "run"}
    /\ readerAt \in [Reader -> Stage] /\ asked \in [Reader -> Seq(Char)]
    /\ line \in Seq(Char) /\ linesDue \in Seq(Seq(Char))
    /\ filled \in Nat /\ receiver \in Keys \cup {NUL, Return}
    /\ garbled \in BOOLEAN /\ misrun \in BOOLEAN /\ misserved \in BOOLEAN

\* What a buffer b holds of the text d that is due, in stage p of its printk
StoredSoFar(p, d, b) ==
    /\ p.k <= OutSize
    /\ Len(d) = p.k + Len(p.rest)
    /\ \A j \in 1 .. p.k : d[j] = b[j - 1]
    /\ \A j \in 1 .. Len(p.rest) : d[p.k + j] = p.rest[j]

SentSoFar(p, d, b) ==
    /\ p.k + Len(d) < OutSize
    /\ b[p.k + Len(d)] = NUL
    /\ \A j \in 0 .. p.k - 1 : b[j] # NUL
    /\ \A j \in 1 .. Len(d) : b[p.k + j - 1] = d[j]
    /\ p.at = "send" => d # <<>>

\* One task at a time is inside printk, and what is due is its text.
PrintState ==
    /\ ~garbled
    /\ \A t, u \in Printer : InPrintk(t) /\ InPrintk(u) => t = u
    /\ (\A t \in Printer : ~InPrintk(t)) => due = <<>>
    /\ \A t \in Printer : /\ printing[t].at = "store" => StoredSoFar(printing[t], due, outBuf)
                          /\ printing[t].at \in {"end", "send"} => SentSoFar(printing[t], due, outBuf)
PrintInv == unheard \subseteq {"early"} => PrintState

\* The line being typed is what the command buffer holds of it and the key the
\* receiver holds; the lines to be run are the one in the command buffer and the
\* one whose end the receiver holds.
Kept  == IF shellAt = "read" THEN [j \in 1 .. filled |-> command[j - 1]] ELSE <<>>
Ended == IF shellAt \in {"newline", "run"} THEN <<TextIn(command, CommandSize)>> ELSE <<>>
LineState ==
    /\ ~misrun
    /\ shellAt = "read" => filled <= CommandSize /\ \A j \in 0 .. filled - 1 : command[j] # NUL
    /\ receiver = NUL => line = Kept /\ linesDue = Ended
    /\ receiver = Return => line = <<>> /\ linesDue = Append(Ended, Kept)
    /\ receiver \notin {NUL, Return} => line = Append(Kept, receiver) /\ linesDue = Ended
LineInv == unheard \subseteq {"shared", "early"} => LineState

\* A forked task that has yet to read its name finds it in the command buffer.
NameState ==
    /\ ~misserved
    /\ \A r \in Reader : readerAt[r] \in Pending => asked[r] = TextIn(command, CommandSize)
NameInv == unheard \subseteq {"shared"} => NameState

ConsoleInv == ConsoleTypes /\ PrintInv /\ LineInv /\ NameInv

-----------------------------------------------------------------------------
(* Texts                                                                   *)

\* The text up to a first NUL
LEMMA TextUpTo ==
    ASSUME NEW cells, NEW n \in Nat, NEW m \in 0 .. n - 1, cells[m] = NUL, \A j \in 0 .. m - 1 : cells[j] # NUL
    PROVE  TextIn(cells, n) = [k \in 1 .. m |-> cells[k - 1]]
  <1> DEFINE ends == {k \in 0 .. n - 1 : cells[k] = NUL}
             stop  == IF ends = {} THEN n ELSE CHOOSE k \in ends : \A j \in ends : k <= j
  <1>1. m \in ends /\ \A j \in ends : m <= j
    <2>1. m \in ends
      OBVIOUS
    <2>2. ASSUME NEW j \in ends PROVE m <= j
      <3>1. j \in 0 .. n - 1 /\ j \notin 0 .. m - 1
        OBVIOUS
      <3> QED BY <3>1
    <2> QED BY <2>1, <2>2
  <1>2. \A k \in ends : (\A j \in ends : k <= j) => k = m
    <2> TAKE k \in ends
    <2> HAVE \A j \in ends : k <= j
    <2>1. k <= m /\ m <= k /\ k \in Nat /\ m \in Nat
      BY <1>1
    <2> QED BY <2>1
  <1>3. stop = m
    BY <1>1, <1>2
  <1>4. TextIn(cells, n) = [k \in 1 .. stop |-> cells[k - 1]]
    BY DEF TextIn
  <1> HIDE DEF stop
  <1> QED BY <1>3, <1>4

\* A text has no NUL within it, wherever it ends.
LEMMA TextWithoutNul ==
    ASSUME NEW n \in Nat, NEW cells \in [0 .. n - 1 -> Cell]
    PROVE  TextIn(cells, n) \in Seq(Char)
  <1> DEFINE ends == {k \in 0 .. n - 1 : cells[k] = NUL}
  <1>1. CASE ends = {}
    <2>1. TextIn(cells, n) = [k \in 1 .. n |-> cells[k - 1]]
      BY <1>1 DEF TextIn
    <2>2. \A k \in 1 .. n : cells[k - 1] \in Char
      <3> TAKE k \in 1 .. n
      <3>1. k - 1 \in 0 .. n - 1
        OBVIOUS
      <3> QED BY <1>1, <3>1 DEF Cell
    <2> QED BY <2>1, <2>2
  <1>2. CASE ends # {}
    <2>1. ends \in SUBSET Nat
      OBVIOUS
    <2>2. PICK m \in ends : \A j \in ends : m <= j
      BY <1>2, <2>1, Smallest
    <2>3. \A j \in 0 .. m - 1 : cells[j] # NUL
      <3> SUFFICES ASSUME NEW j \in 0 .. m - 1, cells[j] = NUL PROVE FALSE
        OBVIOUS
      <3>1. j \in ends /\ ~(m <= j)
        OBVIOUS
      <3> QED BY <2>2, <3>1
    <2>4. m \in 0 .. n - 1 /\ cells[m] = NUL
      OBVIOUS
    <2>5. TextIn(cells, n) = [k \in 1 .. m |-> cells[k - 1]]
      BY <2>3, <2>4, TextUpTo
    <2>6. \A k \in 1 .. m : cells[k - 1] \in Char
      <3> TAKE k \in 1 .. m
      <3>1. k - 1 \in 0 .. m - 1 /\ k - 1 \in 0 .. n - 1
        BY <2>4
      <3> QED BY <2>3, <3>1 DEF Cell
    <2>7. m \in Nat
      BY <2>4
    <2> QED BY <2>5, <2>6, <2>7
  <1> QED BY <1>1, <1>2

-----------------------------------------------------------------------------
(* Types                                                                   *)

LEMMA InsideTypes ==
    ASSUME ConsoleTypes, NEW t \in Printer
    PROVE  /\ printing[t].at \in {"out", "store", "end", "send"}
           /\ printing[t].at = "store" => printing[t] \in [at : {"store"}, rest : Seq(Char), k : Nat]
           /\ printing[t].at \in {"end", "send"} => printing[t] \in [at : {"end", "send"}, k : Nat]
  <1>1. printing[t] \in [at : {"out"}] \cup Inside
    BY DEF ConsoleTypes
  <1> QED BY <1>1 DEF Inside

LEMMA NextStage ==
    ASSUME NEW R, NEW p \in [at : {"store"}, rest : R, k : Nat], NEW x, NEW y,
           NEW q, q = [p EXCEPT !.rest = x, !.k = y]
    PROVE  q = [at |-> "store", rest |-> x, k |-> y]
  <1>1. q = [at |-> p.at, rest |-> x, k |-> y]
    OBVIOUS
  <1>2. p.at = "store"
    OBVIOUS
  <1> QED BY <1>1, <1>2

\* What a call of printk changes
LEMMA PrintkTypes ==
    ASSUME ConsoleTypes, NEW t \in Printer, NEW text \in Seq(Char), printk(t, text)
    PROVE  /\ printing' \in [Printer -> [at : {"out"}] \cup Inside]
           /\ due' \in Seq(Char) /\ garbled' \in BOOLEAN
  <1>1. [at |-> "store", rest |-> text, k |-> 0] \in Inside
    BY DEF Inside
  <1>2. printing' \in [Printer -> [at : {"out"}] \cup Inside]
    BY <1>1 DEF printk, ConsoleTypes
  <1>3. due \o text \in Seq(Char) /\ <<>> \in Seq(Char)
    BY DEF ConsoleTypes
  <1> QED BY <1>2, <1>3 DEF printk

LEMMA TextTypes ==
    /\ <<"#">> \in Seq(Char) /\ <<"\n">> \in Seq(Char)
    /\ ReaderText \in Seq(Char)
    /\ Keys \subseteq Char /\ {Return, Junk, "!"} \subseteq Char /\ NUL \notin Char
    /\ Shell \in Printer /\ Reader \subseteq Printer
    /\ NUL \notin Keys /\ Return \notin Keys /\ Return # NUL
    /\ OutSize \in Nat /\ OutSize > 0 /\ CommandSize \in Nat /\ CommandSize > 0
  <1>1. "#" \in Char /\ "\n" \in Char /\ {Return, Junk, "!"} \subseteq Char /\ Return # NUL
    BY DEF NUL, Return, Junk, Char
  <1>2. Keys \subseteq Char /\ NUL \notin Char /\ NUL \notin Keys /\ Return \notin Keys
    BY TextAssumption DEF Char
  <1>3. ReaderText \in Seq(Char)
    <2>1. Letters \ {NUL} \subseteq Char
      BY DEF Char
    <2> QED BY <2>1, TextAssumption
  <1>4. Shell \in Printer /\ Reader \subseteq Printer
    BY DEF Printer
  <1>5. OutSize \in Nat /\ OutSize > 0 /\ CommandSize \in Nat /\ CommandSize > 0
    BY ConsoleAssumption
  <1> QED BY <1>1, <1>2, <1>3, <1>4, <1>5

LEMMA CommandText ==
    ASSUME ConsoleTypes
    PROVE  /\ TextIn(command, CommandSize) \in Seq(Char)
           /\ Append(TextIn(command, CommandSize), "!") \in Seq(Char)
  <1>1. TextIn(command, CommandSize) \in Seq(Char)
    BY TextWithoutNul, TextTypes DEF ConsoleTypes
  <1> QED BY <1>1, TextTypes

LEMMA TypesInit == ConsoleInit => ConsoleTypes
  <1> SUFFICES ASSUME ConsoleInit PROVE ConsoleTypes
    OBVIOUS
  <1>1. printing \in [Printer -> [at : {"out"}] \cup Inside]
    BY DEF ConsoleInit
  <1>2. outBuf \in [0 .. OutSize - 1 -> Cell] /\ command \in [0 .. CommandSize - 1 -> Cell]
    BY TextTypes DEF ConsoleInit, Cell
  <1>3. readerAt \in [Reader -> Stage] /\ asked \in [Reader -> Seq(Char)]
    BY DEF ConsoleInit, Stage
  <1>4. due \in Seq(Char) /\ line \in Seq(Char) /\ linesDue \in Seq(Seq(Char))
    BY DEF ConsoleInit
  <1>5. /\ filled \in Nat /\ receiver \in Keys \cup {NUL, Return} /\ shellAt = "prompt"
        /\ garbled = FALSE /\ misrun = FALSE /\ misserved = FALSE
    BY DEF ConsoleInit
  <1> QED BY <1>1, <1>2, <1>3, <1>4, <1>5 DEF ConsoleTypes

LEMMA TypesStep ==
    ASSUME ConsoleTypes, [ConsoleNext]_consoleVars
    PROVE  ConsoleTypes'
  <1> USE DEF ConsoleTypes
  <1>1. CASE UNCHANGED consoleVars
    BY <1>1 DEF consoleVars, printVars, shellVars, keyVars, readerVars
  <1>2. ASSUME NEW t \in Printer, Store(t) PROVE ConsoleTypes'
    <2> DEFINE p == printing[t]
    <2>1. p \in [at : {"store"}, rest : Seq(Char), k : Nat]
      BY <1>2, InsideTypes DEF Store
    <2>2. outBuf' \in [0 .. OutSize - 1 -> Cell]
      <3>1. (p.rest # <<>> => Head(p.rest) \in Cell) /\ NUL \in Cell
        BY <2>1 DEF Cell
      <3> QED BY <1>2, <3>1 DEF Store, SetOut
    <2>3. printing' \in [Printer -> [at : {"out"}] \cup Inside]
      <3>1. CASE printing' = [printing EXCEPT ![t] = [at |-> "end", k |-> 0]]
        <4>1. [at |-> "end", k |-> 0] \in Inside
          BY DEF Inside
        <4> QED BY <3>1, <4>1
      <3>2. CASE p.rest # <<>> /\ printing' = [printing EXCEPT ![t].rest = Tail(@), ![t].k = @ + 1]
        <4>1. PICK q : /\ q = [p EXCEPT !.rest = Tail(p.rest), !.k = p.k + 1]
                       /\ printing' = [printing EXCEPT ![t] = q]
          BY <3>2
        <4>2. q = [at |-> "store", rest |-> Tail(p.rest), k |-> p.k + 1]
          BY <2>1, <4>1, NextStage
        <4>3. [at |-> "store", rest |-> Tail(p.rest), k |-> p.k + 1] \in Inside
          <5>1. Tail(p.rest) \in Seq(Char) /\ p.k + 1 \in Nat
            BY <2>1, <3>2
          <5> QED BY <5>1 DEF Inside
        <4> QED BY <4>1, <4>2, <4>3
      <3> QED BY <1>2, <3>1, <3>2 DEF Store
    <2> QED BY <1>2, <2>2, <2>3 DEF Store, shellVars, keyVars, readerVars
  <1>3. ASSUME NEW t \in Printer, FindEnd(t) PROVE ConsoleTypes'
    <2> DEFINE p == printing[t]
    <2>1. p \in [at : {"end", "send"}, k : Nat]
      BY <1>3, InsideTypes DEF FindEnd
    <2>2. /\ [p EXCEPT !.at = "send"] \in Inside
          /\ [at |-> "out"] \in [at : {"out"}]
      BY <2>1 DEF Inside
    <2>3. \/ printing' = [printing EXCEPT ![t] = [p EXCEPT !.at = "send"]]
          \/ printing' = [printing EXCEPT ![t] = [at |-> "out"]]
      BY <1>3 DEF FindEnd
    <2>4. printing' \in [Printer -> [at : {"out"}] \cup Inside]
      BY <2>2, <2>3
    <2> QED BY <1>3, <2>4 DEF FindEnd, shellVars, keyVars, readerVars
  <1>4. ASSUME NEW t \in Printer, Send(t) PROVE ConsoleTypes'
    <2> DEFINE p == printing[t]
    <2>1. p \in [at : {"end", "send"}, k : Nat]
      BY <1>4, InsideTypes DEF Send
    <2>2. [at |-> "end", k |-> p.k + 1] \in Inside
      BY <2>1 DEF Inside
    <2>3. printing' \in [Printer -> [at : {"out"}] \cup Inside]
      BY <1>4, <2>2 DEF Send
    <2>4. due' \in Seq(Char) /\ garbled' \in BOOLEAN
      <3>1. due # <<>> => Tail(due) \in Seq(Char)
        OBVIOUS
      <3>2. due' = due \/ (due # <<>> /\ due' = Tail(due))
        BY <1>4 DEF Send, Appears
      <3>3. garbled' = garbled \/ garbled' = ("shared" \notin unheard)
        BY <1>4 DEF Send, Appears
      <3> QED BY <3>1, <3>2, <3>3
    <2> QED BY <1>4, <2>3, <2>4 DEF Send, shellVars, keyVars, readerVars
  <1>5. ASSUME NEW c \in Keys \cup {Return}, Type(c) PROVE ConsoleTypes'
    <2>1. c \in Char
      BY TextTypes
    <2>2. line' \in Seq(Char) /\ linesDue' \in Seq(Seq(Char))
      <3>1. Append(line, c) \in Seq(Char) /\ Append(linesDue, line) \in Seq(Seq(Char)) /\ <<>> \in Seq(Char)
        BY <2>1
      <3> QED BY <1>5, <3>1 DEF Type
    <2> QED BY <1>5, <2>2 DEF Type, printVars, readerVars
  <1>6. CASE Prompt
    <2>1. printing' \in [Printer -> [at : {"out"}] \cup Inside] /\ due' \in Seq(Char) /\ garbled' \in BOOLEAN
      BY <1>6, PrintkTypes, TextTypes DEF Prompt
    <2> QED BY <1>6, <2>1 DEF Prompt, keyVars, readerVars
  <1>7. CASE ReadKey
    <2>1. receiver \in Cell
      BY TextTypes DEF Cell
    <2>2. command' \in [0 .. CommandSize - 1 -> Cell]
      BY <1>7, <2>1 DEF ReadKey, SetCommand
    <2> QED BY <1>7, <2>2 DEF ReadKey, readerVars
  <1>8. CASE ReadReturn
    <2>1. command' \in [0 .. CommandSize - 1 -> Cell]
      BY <1>8, TextTypes DEF ReadReturn, SetCommand, Cell
    <2> QED BY <1>8, <2>1 DEF ReadReturn, readerVars, printVars
  <1>9. CASE Newline
    <2>1. printing' \in [Printer -> [at : {"out"}] \cup Inside] /\ due' \in Seq(Char) /\ garbled' \in BOOLEAN
      BY <1>9, PrintkTypes, TextTypes DEF Newline
    <2> QED BY <1>9, <2>1 DEF Newline, keyVars, readerVars
  <1>10. CASE Run
    <2> DEFINE text == TextIn(command, CommandSize)
               due0 == IF linesDue = <<>> THEN <<>> ELSE Head(linesDue)
    <2>1. text \in Seq(Char) /\ Append(text, "!") \in Seq(Char)
      BY CommandText
    <2>2. due0 \in Seq(Char) /\ linesDue' \in Seq(Seq(Char)) /\ misrun' \in BOOLEAN
      <3>1. linesDue # <<>> => Head(linesDue) \in Seq(Char) /\ Tail(linesDue) \in Seq(Seq(Char))
        OBVIOUS
      <3>2. <<>> \in Seq(Char) /\ <<>> \in Seq(Seq(Char))
        OBVIOUS
      <3>3. linesDue' = IF linesDue = <<>> THEN <<>> ELSE Tail(linesDue)
        BY <1>10 DEF Run
      <3>4. misrun' \in BOOLEAN
        BY <1>10 DEF Run
      <3> QED BY <3>1, <3>2, <3>3, <3>4
    <2>3. printing' \in [Printer -> [at : {"out"}] \cup Inside] /\ due' \in Seq(Char) /\ garbled' \in BOOLEAN
          /\ outBuf' \in [0 .. OutSize - 1 -> Cell]
      <3>1. CASE UNCHANGED printVars
        BY <3>1 DEF printVars
      <3>2. CASE printk(Shell, Append(text, "!")) /\ UNCHANGED outBuf
        BY <2>1, <3>2, PrintkTypes, TextTypes
      <3> QED BY <1>10, <3>1, <3>2 DEF Run
    <2>4. readerAt' \in [Reader -> Stage] /\ asked' \in [Reader -> Seq(Char)] /\ misserved' = misserved
      <3>1. CASE UNCHANGED readerVars
        BY <3>1 DEF readerVars
      <3>2. CASE \E r \in Reader : /\ readerAt' = [readerAt EXCEPT ![r] = "hello"]
                                   /\ asked' = [asked EXCEPT ![r] = due0]
                                   /\ misserved' = misserved
        BY <2>2, <3>2 DEF Stage
      <3> QED BY <1>10, <3>1, <3>2 DEF Run
    <2> QED BY <1>10, <2>2, <2>3, <2>4 DEF Run, keyVars
  <1>11. ASSUME NEW t \in Reader, fs_task(t) PROVE ConsoleTypes'
    <2>1. ASSUME NEW here, NEW there \in Stage, Report(t, here, there) PROVE ConsoleTypes'
      <3>1. printing' \in [Printer -> [at : {"out"}] \cup Inside] /\ due' \in Seq(Char) /\ garbled' \in BOOLEAN
        BY <2>1, PrintkTypes, TextTypes DEF Report
      <3> QED BY <2>1, <3>1 DEF Report, Moves, shellVars, keyVars
    <2>2. ASSUME NEW here, NEW there \in Stage, Open(t, here, there) PROVE ConsoleTypes'
      <3>1. \E to \in Stage : readerAt' = [readerAt EXCEPT ![t] = to]
        BY <2>2 DEF Open, Moves, Stage
      <3>2. misserved' \in BOOLEAN /\ asked' = asked
        BY <2>2 DEF Open
      <3> QED BY <2>2, <3>1, <3>2 DEF Open, printVars, shellVars, keyVars
    <2>3. CASE ReturnToZero(t)
      <3>1. readerAt' \in [Reader -> Stage]
        BY <2>3 DEF ReturnToZero, Moves, Stage
      <3> QED BY <2>3, <3>1 DEF ReturnToZero, printVars, shellVars, keyVars
    <2> QED BY <1>11, <2>1, <2>2, <2>3 DEF fs_task, Stage
  <1> QED BY <1>1, <1>2, <1>3, <1>4, <1>5, <1>6, <1>7, <1>8, <1>9, <1>10, <1>11 DEF ConsoleNext

-----------------------------------------------------------------------------
(* Printing                                                                *)

\* What has happened stays on record.
LEMMA UnheardGrows == [ConsoleNext]_consoleVars => unheard \subseteq unheard'
  BY DEF ConsoleNext, consoleVars, Store, FindEnd, Send, Type, Prompt, ReadKey, ReadReturn, Newline, Run,
         fs_task, Report, Open, ReturnToZero, printk, Notes, Collected

\* When one task takes a step and no other is inside printk, only its own
\* stage has to be looked at.
LEMMA OnePrinter ==
    ASSUME ConsoleTypes, NEW t \in Printer, \A u \in Printer \ {t} : printing'[u].at = "out",
           ~garbled',
           printing'[t].at = "out" => due' = <<>>,
           printing'[t].at = "store" => StoredSoFar(printing'[t], due', outBuf'),
           printing'[t].at \in {"end", "send"} => SentSoFar(printing'[t], due', outBuf')
    PROVE  PrintState'
  BY DEF PrintState, InPrintk

LEMMA PrintkKeeps ==
    ASSUME ConsoleTypes, PrintInv, unheard \subseteq unheard', unheard' \subseteq {"early"},
           NEW t \in Printer, NEW text \in Seq(Char), printk(t, text)
    PROVE  PrintState'
  <1>1. "shared" \notin unheard' /\ ~Disturbs(t)
    BY DEF printk, Notes
  <1>2. PrintState
    BY DEF PrintInv
  <1>3. /\ \A u \in Printer : ~InPrintk(u)
        /\ due = <<>> /\ ~garbled
    BY <1>1, <1>2 DEF Disturbs, printk, PrintState
  <1> DEFINE q == [at |-> "store", rest |-> text, k |-> 0]
  <1>4. printing'[t] = q /\ \A u \in Printer \ {t} : printing'[u].at = "out"
    BY <1>3 DEF printk, ConsoleTypes, InPrintk
  <1>5. due' = text /\ ~garbled'
    <2>1. <<>> \o text = text
      OBVIOUS
    <2> QED BY <1>1, <1>3, <2>1 DEF printk
  <1>6. StoredSoFar(q, text, outBuf')
    BY TextTypes DEF StoredSoFar
  <1>7. q.at = "store"
    OBVIOUS
  <1> HIDE DEF q
  <1> QED BY <1>4, <1>5, <1>6, <1>7, OnePrinter

LEMMA StoreKeeps ==
    ASSUME ConsoleTypes, PrintInv, unheard \subseteq unheard', unheard' \subseteq {"early"},
           NEW t \in Printer, Store(t)
    PROVE  PrintState'
  <1> DEFINE p == printing[t]
  <1>1. p \in [at : {"store"}, rest : Seq(Char), k : Nat]
    BY InsideTypes DEF Store
  <1>2. PrintState /\ p.k < OutSize
    <2>1. ~(p.k >= OutSize) /\ p.k \in Nat
      BY <1>1 DEF Store, Notes
    <2> QED BY <2>1, TextTypes DEF PrintInv
  <1>3. /\ StoredSoFar(p, due, outBuf) /\ ~garbled
        /\ \A u \in Printer \ {t} : printing[u].at = "out"
    BY <1>2 DEF PrintState, InPrintk, Store
  <1>4. due' = due /\ garbled' = garbled
    BY DEF Store
  <1>5. outBuf \in [0 .. OutSize - 1 -> Cell] /\ due \in Seq(Char) /\ p.k \in 0 .. OutSize - 1
    BY <1>1, <1>2, TextTypes DEF ConsoleTypes
  <1>6. CASE p.rest = <<>>
    <2> DEFINE q == [at |-> "end", k |-> 0]
    <2>1. /\ outBuf' = [j \in DOMAIN outBuf |-> IF j = p.k THEN NUL ELSE outBuf[j]]
          /\ printing'[t] = q /\ \A u \in Printer \ {t} : printing'[u].at = "out"
      BY <1>3, <1>6 DEF Store, SetOut, ConsoleTypes
    <2>2. Len(due) = p.k /\ \A j \in 1 .. p.k : due[j] = outBuf[j - 1]
      BY <1>1, <1>3, <1>6 DEF StoredSoFar
    <2>3. outBuf'[p.k] = NUL
      BY <1>5, <2>1
    <2>4. \A j \in 1 .. Len(due) : outBuf'[j - 1] = due[j]
      <3> TAKE j \in 1 .. Len(due)
      <3>1. j - 1 \in 0 .. OutSize - 1 /\ j - 1 # p.k
        BY <1>5, <2>2, TextTypes
      <3> QED BY <1>5, <2>1, <2>2, <3>1
    <2>5. SentSoFar(q, due, outBuf')
      <3>1. q.k = 0 /\ q.at = "end"
        OBVIOUS
      <3>2. Len(due) \in Nat /\ \A j \in 1 .. Len(due) : 0 + j - 1 = j - 1
        BY <1>5
      <3> HIDE DEF q
      <3> QED BY <1>2, <2>2, <2>3, <2>4, <3>1, <3>2 DEF SentSoFar
    <2>6. q.at = "end"
      OBVIOUS
    <2> HIDE DEF q
    <2> QED BY <1>3, <1>4, <2>1, <2>5, <2>6, OnePrinter
  <1>7. CASE p.rest # <<>>
    <2>1. PICK q : /\ q = [p EXCEPT !.rest = Tail(p.rest), !.k = p.k + 1]
                   /\ printing' = [printing EXCEPT ![t] = q]
      BY <1>7 DEF Store
    <2>2. q = [at |-> "store", rest |-> Tail(p.rest), k |-> p.k + 1]
      BY <1>1, <2>1, NextStage
    <2>3. /\ outBuf' = [j \in DOMAIN outBuf |-> IF j = p.k THEN Head(p.rest) ELSE outBuf[j]]
          /\ printing'[t] = q /\ \A u \in Printer \ {t} : printing'[u].at = "out"
      BY <1>3, <1>7, <2>1 DEF Store, SetOut, ConsoleTypes
    <2>4. /\ Len(p.rest) > 0 /\ Head(p.rest) = p.rest[1] /\ Len(p.rest) \in Nat
          /\ Len(Tail(p.rest)) = Len(p.rest) - 1
          /\ \A j \in 1 .. Len(p.rest) - 1 : Tail(p.rest)[j] = p.rest[j + 1]
      BY <1>1, <1>7
    <2>5. /\ Len(due) = p.k + Len(p.rest)
          /\ \A j \in 1 .. p.k : due[j] = outBuf[j - 1]
          /\ \A j \in 1 .. Len(p.rest) : due[p.k + j] = p.rest[j]
      BY <1>3 DEF StoredSoFar
    <2>6. \A j \in 1 .. p.k + 1 : due[j] = outBuf'[j - 1]
      <3> TAKE j \in 1 .. p.k + 1
      <3>1. CASE j = p.k + 1
        <4>1. j - 1 = p.k /\ 1 \in 1 .. Len(p.rest)
          BY <1>5, <2>4, <3>1
        <4>2. due[j] = p.rest[1]
          BY <2>5, <3>1, <4>1
        <4> QED BY <1>5, <2>3, <2>4, <4>1, <4>2
      <3>2. CASE j # p.k + 1
        <4>1. j \in 1 .. p.k /\ j - 1 # p.k /\ j - 1 \in 0 .. OutSize - 1
          BY <1>5, <3>2, TextTypes
        <4> QED BY <1>5, <2>3, <2>5, <4>1
      <3> QED BY <3>1, <3>2
    <2>7. \A j \in 1 .. Len(Tail(p.rest)) : due[(p.k + 1) + j] = Tail(p.rest)[j]
      <3> TAKE j \in 1 .. Len(Tail(p.rest))
      <3>1. j \in 1 .. Len(p.rest) - 1 /\ j + 1 \in 1 .. Len(p.rest) /\ p.k + (j + 1) = (p.k + 1) + j
        BY <1>5, <2>4
      <3> QED BY <2>4, <2>5, <3>1
    <2>8. p.k + 1 <= OutSize /\ Len(due) = (p.k + 1) + Len(Tail(p.rest))
      <3>1. p.k \in Nat /\ Len(p.rest) \in Nat /\ Len(Tail(p.rest)) = Len(p.rest) - 1
        BY <1>1, <2>4
      <3>2. Len(due) = p.k + Len(p.rest) /\ p.k < OutSize
        BY <1>2, <2>5
      <3> HIDE DEF p
      <3> QED BY <3>1, <3>2, TextTypes
    <2>9. q.at = "store" /\ q.rest = Tail(p.rest) /\ q.k = p.k + 1
      BY <2>2
    <2>10. StoredSoFar(q, due, outBuf')
      BY <2>6, <2>7, <2>8, <2>9 DEF StoredSoFar
    <2> QED BY <1>3, <1>4, <2>3, <2>9, <2>10, OnePrinter
  <1> QED BY <1>6, <1>7

\* The loop over the buffer ends where the text does.
LEMMA FindEndKeeps ==
    ASSUME ConsoleTypes, PrintInv, unheard \subseteq unheard', unheard' \subseteq {"early"},
           NEW t \in Printer, FindEnd(t)
    PROVE  PrintState'
  <1> DEFINE p == printing[t]
             m == p.k + Len(due)
  <1>1. p \in [at : {"end", "send"}, k : Nat] /\ p.at = "end"
    BY InsideTypes DEF FindEnd
  <1>2. /\ PrintState /\ SentSoFar(p, due, outBuf) /\ ~garbled
        /\ \A u \in Printer \ {t} : printing[u].at = "out"
    BY <1>1 DEF PrintInv, FindEnd, PrintState, InPrintk
  <1>3. /\ m < OutSize /\ outBuf[m] = NUL
        /\ \A j \in 0 .. p.k - 1 : outBuf[j] # NUL
        /\ \A j \in 1 .. Len(due) : outBuf[p.k + j - 1] = due[j]
    BY <1>2 DEF SentSoFar
  <1>4. due \in Seq(Char) /\ Len(due) \in Nat /\ p.k \in Nat /\ m \in 0 .. OutSize - 1
    BY <1>1, <1>3, TextTypes DEF ConsoleTypes
  <1>5. \A j \in 0 .. m - 1 : outBuf[j] # NUL
    <2> TAKE j \in 0 .. m - 1
    <2>1. CASE j < p.k
      BY <1>3, <1>4, <2>1
    <2>2. CASE ~(j < p.k)
      <3>1. j - p.k + 1 \in 1 .. Len(due) /\ p.k + (j - p.k + 1) - 1 = j
        BY <1>4, <2>2
      <3>2. due[j - p.k + 1] # NUL
        BY <1>4, <3>1, TextTypes
      <3> QED BY <1>3, <3>1, <3>2
    <2> QED BY <2>1, <2>2
  <1>6. TextIn(outBuf, OutSize) = [k \in 1 .. m |-> outBuf[k - 1]]
    BY <1>3, <1>4, <1>5, TextUpTo, TextTypes
  <1>7. Len(TextIn(outBuf, OutSize)) = m
    BY <1>4, <1>6
  <1>8. printing' = [printing EXCEPT ![t] = IF p.k < m THEN [p EXCEPT !.at = "send"] ELSE [at |-> "out"]]
    <2>1. m # OutSize /\ m + 0 = m
      BY <1>3, <1>4, TextTypes
    <2> QED BY <1>7, <2>1 DEF FindEnd
  <1>9. due' = due /\ garbled' = garbled /\ outBuf' = outBuf
    BY DEF FindEnd
  <1>10. /\ printing'[t] = (IF p.k < m THEN [p EXCEPT !.at = "send"] ELSE [at |-> "out"])
         /\ \A u \in Printer \ {t} : printing'[u].at = "out"
    BY <1>2, <1>8 DEF ConsoleTypes
  <1>11. CASE p.k < m
    <2>1. printing'[t].at = "send" /\ printing'[t].k = p.k
      BY <1>1, <1>10, <1>11
    <2>2. due # <<>>
      BY <1>4, <1>11
    <2>3. SentSoFar(printing'[t], due', outBuf')
      BY <1>2, <1>9, <2>1, <2>2 DEF SentSoFar
    <2> QED BY <1>2, <1>9, <1>10, <2>1, <2>3, OnePrinter
  <1>12. CASE ~(p.k < m)
    <2>1. printing'[t].at = "out" /\ due' = <<>>
      BY <1>4, <1>9, <1>10, <1>12
    <2> QED BY <1>2, <1>9, <1>10, <2>1, OnePrinter
  <1> QED BY <1>11, <1>12

LEMMA SendKeeps ==
    ASSUME ConsoleTypes, PrintInv, unheard \subseteq unheard', unheard' \subseteq {"early"},
           NEW t \in Printer, Send(t)
    PROVE  PrintState'
  <1> DEFINE p == printing[t]
             q == [at |-> "end", k |-> p.k + 1]
  <1>1. p \in [at : {"end", "send"}, k : Nat] /\ p.at = "send"
    BY InsideTypes DEF Send
  <1>2. /\ PrintState /\ SentSoFar(p, due, outBuf) /\ ~garbled
        /\ \A u \in Printer \ {t} : printing[u].at = "out"
    BY <1>1 DEF PrintInv, Send, PrintState, InPrintk
  <1>3. /\ p.k + Len(due) < OutSize /\ outBuf[p.k + Len(due)] = NUL
        /\ \A j \in 0 .. p.k - 1 : outBuf[j] # NUL
        /\ \A j \in 1 .. Len(due) : outBuf[p.k + j - 1] = due[j]
        /\ due # <<>>
    BY <1>1, <1>2 DEF SentSoFar
  <1>4. /\ due \in Seq(Char) /\ Len(due) \in Nat /\ Len(due) > 0 /\ p.k \in Nat /\ Head(due) = due[1]
        /\ Len(Tail(due)) = Len(due) - 1
        /\ \A j \in 1 .. Len(due) - 1 : Tail(due)[j] = due[j + 1]
    BY <1>1, <1>3 DEF ConsoleTypes
  <1>5. outBuf[p.k] = due[1] /\ due[1] # NUL /\ p.k < OutSize
    <2>1. 1 \in 1 .. Len(due) /\ p.k + 1 - 1 = p.k /\ p.k < OutSize
      BY <1>3, <1>4, TextTypes
    <2> QED BY <1>3, <1>4, <2>1, TextTypes
  <1>6. due' = Tail(due) /\ garbled' = garbled /\ outBuf' = outBuf
    BY <1>3, <1>4, <1>5 DEF Send, Appears
  <1>7. printing'[t] = q /\ \A u \in Printer \ {t} : printing'[u].at = "out"
    BY <1>2 DEF Send, ConsoleTypes
  <1>8. q.at = "end" /\ q.k = p.k + 1
    OBVIOUS
  <1> HIDE DEF q
  <1>9. SentSoFar(q, Tail(due), outBuf)
    <2>1. q.k + Len(Tail(due)) = p.k + Len(due)
      BY <1>4, <1>8
    <2>2. \A j \in 0 .. q.k - 1 : outBuf[j] # NUL
      BY <1>3, <1>4, <1>5, <1>8
    <2>3. \A j \in 1 .. Len(Tail(due)) : outBuf[q.k + j - 1] = Tail(due)[j]
      <3> TAKE j \in 1 .. Len(Tail(due))
      <3>1. j \in 1 .. Len(due) - 1 /\ j + 1 \in 1 .. Len(due) /\ q.k + j - 1 = p.k + (j + 1) - 1
        BY <1>4, <1>8
      <3> QED BY <1>3, <1>4, <3>1
    <2> QED BY <1>3, <1>8, <2>1, <2>2, <2>3 DEF SentSoFar
  <1> QED BY <1>2, <1>6, <1>7, <1>8, <1>9, OnePrinter

LEMMA PrintStep ==
    ASSUME ConsoleTypes, PrintInv, [ConsoleNext]_consoleVars
    PROVE  PrintInv'
  <1> SUFFICES ASSUME unheard' \subseteq {"early"} PROVE PrintState'
    BY DEF PrintInv
  <1>1. unheard \subseteq unheard' /\ PrintState
    BY UnheardGrows DEF PrintInv
  <1>2. ASSUME UNCHANGED printVars PROVE PrintState'
    BY <1>1, <1>2 DEF printVars, PrintState, InPrintk
  <1>3. CASE UNCHANGED consoleVars
    BY <1>2, <1>3 DEF consoleVars
  <1>4. ASSUME NEW t \in Printer, Store(t) \/ FindEnd(t) \/ Send(t) PROVE PrintState'
    BY <1>1, <1>4, StoreKeeps, FindEndKeeps, SendKeeps
  <1>5. ASSUME NEW c, Type(c) PROVE PrintState'
    BY <1>2, <1>5 DEF Type
  <1>6. CASE Prompt \/ Newline
    <2>1. printk(Shell, <<"#">>) \/ printk(Shell, <<"\n">>)
      BY <1>6 DEF Prompt, Newline
    <2> QED BY <1>1, <2>1, PrintkKeeps, TextTypes
  <1>7. CASE ReadKey
    <2>1. ~Disturbs(Shell) /\ ~InPrintk(Shell)
      BY <1>7 DEF ReadKey, Collected, ShellAt
    <2>2. \A u \in Printer : ~InPrintk(u)
      BY <2>1 DEF Disturbs
    <2>3. due = <<>>
      BY <1>1, <2>2 DEF PrintState
    <2>4. ~garbled' /\ due' = due /\ printing' = printing /\ outBuf' = outBuf
      BY <1>1, <1>7, <2>3 DEF ReadKey, PrintState
    <2> QED BY <1>1, <2>4 DEF PrintState, InPrintk
  <1>8. CASE ReadReturn
    BY <1>2, <1>8 DEF ReadReturn
  <1>9. CASE Run
    <2>1. UNCHANGED printVars \/ printk(Shell, Append(TextIn(command, CommandSize), "!"))
      BY <1>9 DEF Run
    <2> QED BY <1>1, <1>2, <2>1, PrintkKeeps, CommandText, TextTypes
  <1>10. ASSUME NEW t \in Reader, fs_task(t) PROVE PrintState'
    <2>1. UNCHANGED printVars \/ printk(t, ReaderText)
      BY <1>10 DEF fs_task, Report, Open, ReturnToZero
    <2> QED BY <1>1, <1>2, <2>1, PrintkKeeps, TextTypes
  <1> QED BY <1>3, <1>4, <1>5, <1>6, <1>7, <1>8, <1>9, <1>10 DEF ConsoleNext

-----------------------------------------------------------------------------
(* Lines                                                                   *)

LEMMA LineInit == ConsoleInit => LineState /\ NameState /\ PrintState
  <1> SUFFICES ASSUME ConsoleInit PROVE LineState /\ NameState /\ PrintState
    OBVIOUS
  <1>1. /\ shellAt = "prompt" /\ receiver = NUL /\ line = <<>> /\ linesDue = <<>> /\ ~misrun /\ ~misserved
        /\ ~garbled /\ due = <<>> /\ \A t \in Printer : printing[t].at = "out"
        /\ \A r \in Reader : readerAt[r] = "none"
    BY DEF ConsoleInit
  <1>2. Kept = <<>> /\ Ended = <<>>
    BY <1>1 DEF Kept, Ended
  <1> QED BY <1>1, <1>2, TextTypes DEF LineState, NameState, PrintState, InPrintk, Pending

\* What does not touch the shell's variables or the keyboard's leaves the lines
\* as they were.
LEMMA LinesAside ==
    ASSUME LineState, UNCHANGED <<shellVars, keyVars>>
    PROVE  LineState'
  BY DEF shellVars, keyVars, LineState, Kept, Ended

LEMMA TypeKeeps ==
    ASSUME ConsoleTypes, LineState, NEW c \in Keys \cup {Return}, Type(c), "overrun" \notin unheard'
    PROVE  LineState'
  <1>1. receiver = NUL /\ receiver' = c /\ c # NUL
    BY TextTypes DEF Type, Notes
  <1>2. line = Kept /\ linesDue = Ended
    BY <1>1 DEF LineState
  <1>3. Kept' = Kept /\ Ended' = Ended /\ shellAt' = shellAt /\ filled' = filled /\ command' = command /\ misrun' = misrun
    BY DEF Type, Kept, Ended
  <1>4. c = Return => line' = <<>> /\ linesDue' = Append(linesDue, line)
    BY DEF Type
  <1>5. c # Return => line' = Append(line, c) /\ linesDue' = linesDue
    BY DEF Type
  <1> QED BY <1>1, <1>2, <1>3, <1>4, <1>5 DEF LineState

LEMMA PromptKeeps ==
    ASSUME ConsoleTypes, LineState, Prompt
    PROVE  LineState'
  <1>1. /\ shellAt = "prompt" /\ shellAt' = "read" /\ filled' = 0 /\ misrun' = misrun
        /\ line' = line /\ linesDue' = linesDue /\ receiver' = receiver
    BY DEF Prompt, ShellAt, keyVars
  <1>2. Kept = <<>> /\ Ended = <<>> /\ Ended' = <<>>
    BY <1>1 DEF Kept, Ended
  <1>3. Kept' = <<>>
    <2>1. Kept' = [j \in 1 .. 0 |-> command'[j - 1]]
      BY <1>1 DEF Kept
    <2> QED BY <2>1
  <1>4. filled' <= CommandSize /\ \A j \in 0 .. filled' - 1 : command'[j] # NUL
    BY <1>1, TextTypes
  <1> QED BY <1>1, <1>2, <1>3, <1>4 DEF LineState

LEMMA ReadKeyKeeps ==
    ASSUME ConsoleTypes, LineState, ReadKey, "long" \notin unheard'
    PROVE  LineState'
  <1>1. /\ shellAt = "read" /\ receiver \in Keys /\ receiver \notin {NUL, Return} /\ receiver' = NUL
        /\ filled' = filled + 1 /\ shellAt' = shellAt /\ misrun' = misrun
        /\ line' = line /\ linesDue' = linesDue
        /\ command' = [k \in DOMAIN command |-> IF k = filled THEN receiver ELSE command[k]]
    BY DEF ReadKey, ShellAt, SetCommand, ConsoleTypes
  <1>2. filled \in 0 .. CommandSize - 1
    BY TextTypes DEF ReadKey, Collected, ConsoleTypes
  <1>3. /\ line = Append(Kept, receiver) /\ linesDue = Ended /\ ~misrun
        /\ \A j \in 0 .. filled - 1 : command[j] # NUL
    BY <1>1 DEF LineState
  <1>4. /\ command'[filled] = receiver
        /\ \A j \in 0 .. filled - 1 : command'[j] = command[j]
    <2>1. DOMAIN command = 0 .. CommandSize - 1
      BY DEF ConsoleTypes
    <2>2. \A j \in 0 .. filled - 1 : j \in 0 .. CommandSize - 1 /\ j # filled
      BY <1>2, TextTypes
    <2> QED BY <1>1, <1>2, <2>1, <2>2
  <1>5. Kept = [j \in 1 .. filled |-> command[j - 1]] /\ Kept' = [j \in 1 .. filled + 1 |-> command'[j - 1]]
    BY <1>1 DEF Kept
  <1>6. Kept' = Append(Kept, receiver)
    <2>1. \A j \in 1 .. filled : command'[j - 1] = command[j - 1]
      BY <1>2, <1>4
    <2>2. filled + 1 - 1 = filled /\ Len(Kept) = filled
      BY <1>2, <1>5
    <2>3. Append(Kept, receiver) = [j \in 1 .. filled + 1 |-> IF j = filled + 1 THEN receiver ELSE Kept[j]]
      BY <1>2, <1>5, <2>2
    <2>4. \A j \in 1 .. filled + 1 : command'[j - 1] = IF j = filled + 1 THEN receiver ELSE Kept[j]
      BY <1>2, <1>4, <1>5, <2>1, <2>2
    <2> QED BY <1>5, <2>3, <2>4
  <1>7. Ended = <<>> /\ Ended' = <<>>
    BY <1>1 DEF Ended
  <1>8. \A j \in 0 .. filled' - 1 : command'[j] # NUL
    BY <1>1, <1>2, <1>3, <1>4
  <1>9. filled' <= CommandSize
    BY <1>1, <1>2, TextTypes
  <1> QED BY <1>1, <1>3, <1>6, <1>7, <1>8, <1>9, TextTypes DEF LineState

LEMMA ReadReturnKeeps ==
    ASSUME ConsoleTypes, LineState, ReadReturn, "long" \notin unheard'
    PROVE  LineState'
  <1>1. /\ shellAt = "read" /\ receiver = Return /\ receiver' = NUL
        /\ shellAt' = "newline" /\ misrun' = misrun
        /\ line' = line /\ linesDue' = linesDue
        /\ command' = [k \in DOMAIN command |-> IF k = filled THEN NUL ELSE command[k]]
    BY DEF ReadReturn, ShellAt, SetCommand
  <1>2. filled \in 0 .. CommandSize - 1
    BY TextTypes DEF ReadReturn, Collected, ConsoleTypes
  <1>3. /\ line = <<>> /\ linesDue = Append(Ended, Kept) /\ ~misrun
        /\ \A j \in 0 .. filled - 1 : command[j] # NUL
    BY <1>1 DEF LineState
  <1>4. /\ command'[filled] = NUL
        /\ \A j \in 0 .. filled - 1 : command'[j] = command[j]
    <2>1. DOMAIN command = 0 .. CommandSize - 1
      BY DEF ConsoleTypes
    <2>2. \A j \in 0 .. filled - 1 : j \in 0 .. CommandSize - 1 /\ j # filled
      BY <1>2, TextTypes
    <2> QED BY <1>1, <1>2, <2>1, <2>2
  <1>5. TextIn(command', CommandSize) = [j \in 1 .. filled |-> command'[j - 1]]
    <2>1. \A j \in 0 .. filled - 1 : command'[j] # NUL
      BY <1>3, <1>4
    <2> QED BY <1>2, <1>4, <2>1, TextUpTo, TextTypes
  <1>6. TextIn(command', CommandSize) = Kept
    <2>1. Kept = [j \in 1 .. filled |-> command[j - 1]]
      BY <1>1 DEF Kept
    <2>2. \A j \in 1 .. filled : command'[j - 1] = command[j - 1]
      BY <1>2, <1>4
    <2> QED BY <1>5, <2>1, <2>2
  <1>7. Ended = <<>> /\ Ended' = <<TextIn(command', CommandSize)>> /\ Kept' = <<>>
    BY <1>1 DEF Ended, Kept
  <1>8. linesDue' = Ended'
    <2>1. Append(<<>>, Kept) = <<Kept>>
      OBVIOUS
    <2> QED BY <1>1, <1>3, <1>6, <1>7, <2>1
  <1> QED BY <1>1, <1>3, <1>7, <1>8, TextTypes DEF LineState

LEMMA AppendToOne ==
    ASSUME NEW a, NEW b
    PROVE  Append(<<a>>, b) = <<a, b>>
  <1> DEFINE S == {a, b}
  <1>1. /\ <<a>> \in Seq(S) /\ Len(<<a>>) = 1 /\ <<a>>[1] = a
        /\ <<a, b>> \in Seq(S) /\ Len(<<a, b>>) = 2 /\ <<a, b>>[1] = a /\ <<a, b>>[2] = b
        /\ b \in S
    OBVIOUS
  <1> HIDE DEF S
  <1>2. PICK v \in Seq(S) : v = <<a>>
    BY <1>1
  <1>3. PICK u \in Seq(S) : u = <<a, b>>
    BY <1>1
  <1>4. Append(v, b) \in Seq(S)
    BY <1>1
  <1>5. PICK w \in Seq(S) : w = Append(v, b)
    BY <1>4
  <1>6. Len(w) = Len(v) + 1 /\ w[1] = v[1] /\ w[Len(v) + 1] = b
    BY <1>1, <1>2, <1>5
  <1>7. u = [k \in 1 .. Len(u) |-> u[k]] /\ w = [k \in 1 .. Len(w) |-> w[k]]
    OBVIOUS
  <1>8. Len(u) = Len(w) /\ \A k \in 1 .. Len(u) : u[k] = w[k]
    BY <1>1, <1>2, <1>3, <1>6
  <1> QED BY <1>2, <1>3, <1>5, <1>7, <1>8

\* What is run is the line that was typed first of those not run yet.
LEMMA RunsTheLine ==
    ASSUME ConsoleTypes, LineState, shellAt = "run"
    PROVE  /\ linesDue # <<>> /\ Head(linesDue) = TextIn(command, CommandSize)
           /\ receiver = NUL => line = <<>> /\ Tail(linesDue) = <<>>
           /\ receiver = Return => line = <<>> /\ Tail(linesDue) = <<<<>>>>
           /\ receiver \notin {NUL, Return} => line = <<receiver>> /\ Tail(linesDue) = <<>>
  <1> DEFINE text == TextIn(command, CommandSize)
  <1>1. Kept = <<>> /\ Ended = <<text>>
    BY DEF Kept, Ended
  <1> HIDE DEF text
  <1>2. /\ Head(<<text>>) = text /\ Tail(<<text>>) = <<>> /\ <<text>> # <<>>
        /\ Append(<<text>>, <<>>) = <<text, <<>>>> /\ Append(<<>>, receiver) = <<receiver>>
        /\ Head(<<text, <<>>>>) = text /\ Tail(<<text, <<>>>>) = <<<<>>>> /\ <<text, <<>>>> # <<>>
    <2>1. ASSUME NEW b PROVE Head(<<text, b>>) = text /\ Tail(<<text, b>>) = <<b>> /\ <<text, b>> # <<>>
      OBVIOUS
    <2>2. Head(<<text>>) = text /\ Tail(<<text>>) = <<>> /\ <<text>> # <<>>
      OBVIOUS
    <2>3. Append(<<>>, receiver) = <<receiver>>
      OBVIOUS
    <2> QED BY <2>1, <2>2, <2>3, AppendToOne
  <1>3. /\ receiver = NUL => line = <<>> /\ linesDue = <<text>>
        /\ receiver = Return => line = <<>> /\ linesDue = <<text, <<>>>>
        /\ receiver \notin {NUL, Return} => line = <<receiver>> /\ linesDue = <<text>>
    BY <1>1, <1>2 DEF LineState
  <1>4. text = TextIn(command, CommandSize)
    BY DEF text
  <1> QED BY <1>2, <1>3, <1>4, TextTypes

LEMMA RunKeeps ==
    ASSUME ConsoleTypes, LineState, Run
    PROVE  LineState'
  <1>1. /\ shellAt = "run" /\ shellAt' = "prompt" /\ receiver' = receiver /\ line' = line
        /\ ~misrun
    BY DEF Run, ShellAt, keyVars, LineState
  <1>2. linesDue # <<>> /\ Head(linesDue) = TextIn(command, CommandSize)
    BY <1>1, RunsTheLine
  <1>3. ~misrun' /\ linesDue' = Tail(linesDue)
    BY <1>1, <1>2 DEF Run
  <1>4. Kept' = <<>> /\ Ended' = <<>>
    BY <1>1 DEF Kept, Ended
  <1>5. Append(<<>>, <<>>) = <<<<>>>> /\ Append(<<>>, receiver) = <<receiver>>
    OBVIOUS
  <1> QED BY <1>1, <1>3, <1>4, <1>5, RunsTheLine DEF LineState

LEMMA LineStep ==
    ASSUME ConsoleTypes, LineInv, [ConsoleNext]_consoleVars
    PROVE  LineInv'
  <1> SUFFICES ASSUME unheard' \subseteq {"shared", "early"} PROVE LineState'
    BY DEF LineInv
  <1>1. LineState /\ "overrun" \notin unheard' /\ "long" \notin unheard'
    BY UnheardGrows DEF LineInv
  <1>2. CASE UNCHANGED consoleVars
    BY <1>1, <1>2, LinesAside DEF consoleVars
  <1>3. ASSUME NEW t \in Printer, Store(t) \/ FindEnd(t) \/ Send(t) PROVE LineState'
    BY <1>1, <1>3, LinesAside DEF Store, FindEnd, Send
  <1>4. ASSUME NEW c \in Keys \cup {Return}, Type(c) PROVE LineState'
    BY <1>1, <1>4, TypeKeeps
  <1>5. CASE Newline
    <2>1. /\ shellAt = "newline" /\ shellAt' = "run" /\ UNCHANGED <<command, filled, linesDue, misrun, keyVars>>
      BY <1>5 DEF Newline, ShellAt
    <2> QED BY <1>1, <2>1 DEF LineState, Kept, Ended, keyVars
  <1>6. CASE Prompt \/ ReadKey \/ ReadReturn \/ Run
    BY <1>1, <1>6, PromptKeeps, ReadKeyKeeps, ReadReturnKeeps, RunKeeps
  <1>7. ASSUME NEW t \in Reader, fs_task(t) PROVE LineState'
    BY <1>1, <1>7, LinesAside DEF fs_task, Report, Open, ReturnToZero
  <1> QED BY <1>2, <1>3, <1>4, <1>5, <1>6, <1>7 DEF ConsoleNext

-----------------------------------------------------------------------------
(* Names                                                                   *)

LEMMA NameStep ==
    ASSUME ConsoleTypes, LineInv, NameInv, [ConsoleNext]_consoleVars
    PROVE  NameInv'
  <1> SUFFICES ASSUME unheard' \subseteq {"shared"} PROVE NameState'
    BY DEF NameInv
  <1>1. NameState /\ LineState /\ "early" \notin unheard'
    BY UnheardGrows DEF NameInv, LineInv
  <1>2. ASSUME UNCHANGED <<readerVars, command>> PROVE NameState'
    BY <1>1, <1>2 DEF NameState, readerVars
  <1>3. CASE UNCHANGED consoleVars
    BY <1>2, <1>3 DEF consoleVars, shellVars
  <1>4. ASSUME NEW t \in Printer, Store(t) \/ FindEnd(t) \/ Send(t) PROVE NameState'
    BY <1>2, <1>4 DEF Store, FindEnd, Send, shellVars
  <1>5. ASSUME NEW c, Type(c) PROVE NameState'
    BY <1>2, <1>5 DEF Type
  <1>6. CASE Prompt \/ Newline
    BY <1>2, <1>6 DEF Prompt, Newline
  <1>7. CASE ReadKey \/ ReadReturn
    <2>1. /\ \A r \in Reader : readerAt[r] \notin Pending
          /\ UNCHANGED readerVars
      BY <1>1, <1>7 DEF ReadKey, ReadReturn, Collected, NamePending, Pending
    <2> QED BY <1>1, <2>1 DEF NameState, readerVars
  <1>8. CASE Run
    <2>1. /\ linesDue # <<>> /\ Head(linesDue) = TextIn(command, CommandSize) /\ command' = command
      BY <1>1, <1>8, RunsTheLine DEF Run, ShellAt
    <2>2. CASE UNCHANGED readerVars
      BY <1>2, <2>1, <2>2
    <2>3. CASE /\ misserved' = misserved
               /\ \E r \in Reader : /\ readerAt' = [readerAt EXCEPT ![r] = "hello"]
                                    /\ asked' = [asked EXCEPT ![r] = Head(linesDue)]
      BY <1>1, <2>1, <2>3 DEF NameState, ConsoleTypes
    <2> QED BY <1>8, <2>1, <2>2, <2>3 DEF Run
  <1>9. ASSUME NEW t \in Reader, fs_task(t) PROVE NameState'
    <2>1. command' = command /\ asked' = asked
      BY <1>9 DEF fs_task, Report, Open, ReturnToZero, shellVars
    <2>2. ~misserved'
      BY <1>1, <1>9 DEF fs_task, Report, Open, ReturnToZero, NameState, ReaderAt, Pending
    <2>3. \A r \in Reader : readerAt'[r] \in Pending => readerAt[r] \in Pending
      <3>1. \A r \in Reader \ {t} : readerAt'[r] = readerAt[r]
        BY <1>9 DEF fs_task, Report, Open, ReturnToZero, Moves, ConsoleTypes
      <3>2. readerAt'[t] \in Pending => readerAt[t] \in Pending
        BY <1>9 DEF fs_task, Report, Open, ReturnToZero, Moves, ConsoleTypes, ReaderAt, Pending
      <3> QED BY <3>1, <3>2
    <2> QED BY <1>1, <2>1, <2>2, <2>3 DEF NameState
  <1> QED BY <1>3, <1>4, <1>5, <1>6, <1>7, <1>8, <1>9 DEF ConsoleNext

-----------------------------------------------------------------------------
(* The theorems                                                            *)

THEOREM ConsoleSound == ConsoleSpec => []ConsoleInv
  <1>1. ConsoleInit => ConsoleInv
    BY TypesInit, LineInit DEF ConsoleInv, PrintInv, LineInv, NameInv
  <1>2. ConsoleInv /\ [ConsoleNext]_consoleVars => ConsoleInv'
    BY TypesStep, PrintStep, LineStep, NameStep DEF ConsoleInv
  <1> QED BY <1>1, <1>2, PTL DEF ConsoleSpec

\* As long as one task at a time prints, every text appears on the line whole
\* and in its turn (printf.c: the static buffer of printk and its loop).
THEOREM TextsWhole == ConsoleSpec => []PrintedWhole
  <1>1. ConsoleInv => PrintedWhole
    BY DEF ConsoleInv, PrintInv, PrintState, PrintedWhole
  <1> QED BY <1>1, ConsoleSound, PTL

\* The shell runs the lines that were typed, each once and in order, and a forked
\* task serves the file that was typed for it (main.c: the command buffer and
\* fs_task), under the rules LinesServed names: among them that no line is longer
\* than the command buffer, which the shell does not look after.
THEOREM LinesServedAlways == ConsoleSpec => []LinesServed
  <1>1. ConsoleInv => LinesServed
    BY DEF ConsoleInv, LineInv, LineState, NameInv, NameState, LinesServed, ShellAt, Ended
  <1> QED BY <1>1, ConsoleSound, PTL

-----------------------------------------------------------------------------
(* Division: powers of two, words and quotients                            *)

\* Each power of two is twice the one before.
LEMMA Doubled == \A n \in Nat : 2^(n + 1) = 2 * 2^n
  <1> TAKE n \in Nat
  <1> DEFINE without == SUBSET (1 .. n)
             with == {x \cup {n + 1} : x \in without}
  <1>1. IsFiniteSet(without) /\ Cardinality(without) = 2^n
    <2>1. IsFiniteSet(1 .. n) /\ Cardinality(1 .. n) = n
      BY FS_Interval
    <2> QED BY <2>1, FS_SUBSET
  <1>2. Cardinality(SUBSET (1 .. n + 1)) = 2^(n + 1)
    <2>1. IsFiniteSet(1 .. n + 1) /\ Cardinality(1 .. n + 1) = n + 1
      BY FS_Interval
    <2> QED BY <2>1, FS_SUBSET
  <1>3. \A x \in without : n + 1 \notin x
    OBVIOUS
  <1>4. SUBSET (1 .. n + 1) = without \cup with
    <2>1. \A j : j \in 1 .. n + 1 <=> j \in 1 .. n \/ j = n + 1
      OBVIOUS
    <2>2. ASSUME NEW x \in SUBSET (1 .. n + 1) PROVE x \in without \cup with
      <3>1. x \ {n + 1} \in without
        BY <2>1
      <3>2. n + 1 \in x => x = (x \ {n + 1}) \cup {n + 1}
        OBVIOUS
      <3>3. n + 1 \notin x => x = x \ {n + 1}
        OBVIOUS
      <3> QED BY <3>1, <3>2, <3>3
    <2>3. \A x \in without : x \subseteq 1 .. n + 1 /\ x \cup {n + 1} \subseteq 1 .. n + 1
      BY <2>1
    <2> HIDE DEF without
    <2> QED BY <2>2, <2>3
  <1>5. IsFiniteSet(with) /\ Cardinality(with) = Cardinality(without)
    <2> DEFINE f == [x \in without |-> x \cup {n + 1}]
    <2>1. f \in [without -> with] /\ \A x \in without : f[x] = x \cup {n + 1}
      OBVIOUS
    <2>2. \A y \in with : \E x \in without : f[x] = y
      OBVIOUS
    <2>3. ASSUME NEW x \in without, NEW y \in without, f[x] = f[y] PROVE x = y
      <3>1. x = (x \cup {n + 1}) \ {n + 1} /\ y = (y \cup {n + 1}) \ {n + 1}
        BY <1>3
      <3> QED BY <2>1, <2>3, <3>1
    <2> HIDE DEF f, with, without
    <2>4. f \in Bijection(without, with)
      BY <2>1, <2>2, <2>3 DEF Bijection, Injection, Surjection, IsInjective
    <2> QED BY <2>4, <1>1, FS_Bijection DEF ExistsBijection
  <1>6. without \cap with = {}
    <2>1. \A y \in with : n + 1 \in y
      OBVIOUS
    <2> HIDE DEF with, without
    <2> QED BY <1>3, <2>1
  <1> HIDE DEF with, without
  <1>7. Cardinality(without \cup with) = Cardinality(without) + Cardinality(with) - Cardinality({})
    BY <1>1, <1>5, <1>6, FS_Union
  <1>8. Cardinality(without) \in Nat /\ Cardinality({}) = 0
    BY <1>1, FS_EmptySet, FS_CardinalityType
  <1>9. Cardinality(without \cup with) = 2 * Cardinality(without)
    BY <1>5, <1>7, <1>8
  <1> QED BY <1>1, <1>2, <1>4, <1>9

LEMMA NoPower == 2^0 = 1
  <1>1. IsFiniteSet(1 .. 0) /\ Cardinality(1 .. 0) = 0
    BY FS_Interval
  <1>2. Cardinality(SUBSET (1 .. 0)) = 2^0
    BY <1>1, FS_SUBSET
  <1>3. SUBSET (1 .. 0) = {{}}
    OBVIOUS
  <1> QED BY <1>2, <1>3, FS_Singleton

Power == {2^k : k \in Nat}
Base  == 2^WordBits

\* A power of two is 1 or can be halved.
LEMMA Powers ==
    /\ 1 \in Power
    /\ \A p \in Power : /\ p \in Nat \ {0} /\ 2 * p \in Power
                        /\ p # 1 => p \div 2 \in Power /\ p = 2 * (p \div 2)
                        /\ p = 1 => p \div 2 = 0
  <1>1. 1 \in Power
    BY NoPower DEF Power
  <1>2. ASSUME NEW k \in Nat
        PROVE  /\ 2^k \in Nat \ {0} /\ 2 * 2^k \in Power
               /\ 2^k # 1 => 2^k \div 2 \in Power /\ 2^k = 2 * (2^k \div 2)
               /\ 2^k = 1 => 2^k \div 2 = 0
    <2>1. 2^k \in Nat \ {0}
      BY PowersOfTwo
    <2>2. 2 * 2^k \in Power
      BY Doubled DEF Power
    <2>3. CASE k = 0
      BY <2>1, <2>2, <2>3, NoPower
    <2>4. CASE k # 0
      <3>1. k - 1 \in Nat /\ k = (k - 1) + 1
        BY <2>4
      <3>2. 2^k = 2 * 2^(k - 1) /\ 2^(k - 1) \in Nat \ {0} /\ 2^(k - 1) \in Power
        BY <3>1, Doubled, PowersOfTwo DEF Power
      <3>3. \A n, m \in Nat : m = 2 * n => m \div 2 = n /\ m # 1
        OBVIOUS
      <3>4. 2^k \div 2 = 2^(k - 1) /\ 2^k # 1
        BY <2>1, <3>2, <3>3
      <3> QED BY <2>1, <2>2, <3>2, <3>4
    <2> QED BY <2>3, <2>4
  <1> QED BY <1>1, <1>2 DEF Power

LEMMA Bases == Base \in Nat \ {0} /\ Top \in Power /\ Top \in Nat \ {0} /\ Base = 2 * Top
  <1>1. WordBits \in Nat /\ WordBits - 1 \in Nat /\ WordBits = (WordBits - 1) + 1
    BY DivisionAssumption
  <1>2. 2^WordBits = 2 * 2^(WordBits - 1)
    BY <1>1, Doubled
  <1>3. Top \in Power
    BY <1>1 DEF Top, Power
  <1> QED BY <1>1, <1>2, <1>3, Powers, PowersOfTwo DEF Base, Top

\* A number has one quotient and one remainder.
LEMMA Quotient ==
    ASSUME NEW b \in Nat \ {0}, NEW q \in Int, NEW r \in 0 .. b - 1
    PROVE  (q * b + r) \div b = q /\ (q * b + r) % b = r
  <1> DEFINE a == q * b + r
             e == a \div b
             m == a % b
  <1>1. a \in Int
    <2>1. q * b \in Int
      OBVIOUS
    <2> QED BY <2>1
  <1>2. e \in Int /\ m \in 0 .. b - 1 /\ a = e * b + m
    BY <1>1
  <1>3. q * b + r = e * b + m
    BY <1>2
  <1> HIDE DEF e, m
  <1>4. ASSUME NEW x \in Int, NEW y \in Int, NEW u \in 0 .. b - 1, NEW v \in 0 .. b - 1,
               x * b + u = y * b + v
        PROVE  ~(x < y)
    <2> SUFFICES ASSUME x < y PROVE FALSE
      OBVIOUS
    <2>1. PICK d \in Nat : y = x + 1 + d
      <3>1. y - x - 1 \in Nat /\ y = x + 1 + (y - x - 1)
        OBVIOUS
      <3> QED BY <3>1
    <2>2. y * b = x * b + b + d * b
      BY <2>1
    <2>3. d * b \in Nat /\ x * b \in Int
      OBVIOUS
    <2>4. \A z \in Int, w \in Nat : z + u # z + b + w + v
      OBVIOUS
    <2> QED BY <1>4, <2>2, <2>3, <2>4
  <1>5. e = q
    <2>1. ~(e < q) /\ ~(q < e)
      BY <1>2, <1>3, <1>4
    <2> QED BY <2>1, <1>2
  <1>6. m = r
    BY <1>2, <1>3, <1>5
  <1> QED BY <1>5, <1>6 DEF e, m

\* What a register keeps of a number that is one word too large or too small
LEMMA Wrapped ==
    ASSUME NEW f \in 0 .. Base - 1
    PROVE  f % Base = f /\ (f + Base) % Base = f /\ (f - Base) % Base = f
  <1>1. Base \in Nat \ {0} /\ f \in Nat
    BY Bases
  <1>2. \A q \in Int : (q * Base + f) % Base = f
    BY <1>1, Quotient
  <1>3. PICK zero \in Int, one \in Int, minus \in Int : zero = 0 /\ one = 1 /\ minus = -1
    OBVIOUS
  <1>4. zero * Base + f = f /\ one * Base + f = f + Base /\ minus * Base + f = f - Base
    BY <1>1, <1>3
  <1>5. /\ (zero * Base + f) % Base = f /\ (one * Base + f) % Base = f
        /\ (minus * Base + f) % Base = f
    BY <1>2
  <1> QED BY <1>4, <1>5

\* A shift to the left loses the highest bit.
LEMMA Shifted ==
    ASSUME NEW x \in 0 .. Base - 1
    PROVE  /\ Bit(x) \in {0, 1} /\ (Bit(x) = 1 <=> x >= Top)
           /\ Shl(x) = 2 * x - Bit(x) * Base /\ Shl(x) \in 0 .. Base - 1
  <1>1. Base \in Nat \ {0} /\ Top \in Nat \ {0} /\ Base = 2 * Top
    BY Bases
  <1>2. Shl(x) = (2 * x) % Base
    BY DEF Shl, Base
  <1>3. CASE x < Top
    <2>1. 2 * x \in 0 .. Base - 1 /\ 2 * x = 0 * Base + 2 * x
      BY <1>1, <1>3
    <2>2. (0 * Base + 2 * x) % Base = 2 * x
      BY <1>1, <2>1, Quotient
    <2>3. Bit(x) = 0
      BY <1>1, <1>3 DEF Bit
    <2> QED BY <1>1, <1>2, <1>3, <2>1, <2>2, <2>3
  <1>4. CASE ~(x < Top)
    <2>1. 2 * x - Base \in 0 .. Base - 1 /\ 2 * x = 1 * Base + (2 * x - Base)
      BY <1>1, <1>4
    <2>2. (1 * Base + (2 * x - Base)) % Base = 2 * x - Base
      BY <1>1, <2>1, Quotient
    <2>3. Bit(x) = 1
      BY <1>1, <1>4 DEF Bit
    <2> QED BY <1>1, <1>2, <1>4, <2>1, <2>2, <2>3
  <1> QED BY <1>3, <1>4

LEMMA PowerSum == \A a, b \in Nat : 2^(a + b) = 2^a * 2^b
  <1> TAKE a \in Nat
  <1> DEFINE Bad == {b \in Nat : 2^(a + b) # 2^a * 2^b}
  <1>1. Bad = {}
    <2> SUFFICES ASSUME Bad # {} PROVE FALSE
      OBVIOUS
    <2>1. PICK b \in Bad : \A c \in Bad : b <= c
      BY Smallest
    <2>2. 2^a \in Nat
      BY PowersOfTwo
    <2>3. CASE b = 0
      <3>1. a + b = a
        BY <2>3
      <3> QED BY <2>1, <2>2, <2>3, <3>1, NoPower
    <2>4. CASE b # 0
      <3>1. b - 1 \in Nat /\ ~(b <= b - 1) /\ b = (b - 1) + 1 /\ a + b = (a + (b - 1)) + 1 /\ a + (b - 1) \in Nat
        BY <2>4
      <3>2. 2^(a + (b - 1)) = 2^a * 2^(b - 1)
        BY <2>1, <3>1
      <3>3. 2^((a + (b - 1)) + 1) = 2 * 2^(a + (b - 1))
        BY <3>1, Doubled
      <3>4. 2^((b - 1) + 1) = 2 * 2^(b - 1)
        BY <3>1, Doubled
      <3>5. 2^(a + b) = 2 * (2^a * 2^(b - 1)) /\ 2^b = 2 * 2^(b - 1)
        BY <3>1, <3>2, <3>3, <3>4
      <3>6. 2^(b - 1) \in Nat
        BY <3>1, PowersOfTwo
      <3>7. \A x, y \in Nat : 2 * (x * y) = x * (2 * y)
        OBVIOUS
      <3> QED BY <2>1, <2>2, <3>5, <3>6, <3>7
    <2> QED BY <2>3, <2>4
  <1> QED BY <1>1

\* Dividing a power of two takes from its exponent.
LEMMA Lowered ==
    ASSUME NEW k \in Nat, NEW z \in Nat
    PROVE  /\ 2^k >= 2^z <=> k >= z
           /\ k >= z => 2^k \div (2^z) = 2^(k - z)
  <1>1. 2^k \in Nat \ {0} /\ 2^z \in Nat \ {0}
    BY PowersOfTwo
  <1>2. CASE k >= z
    <2>1. z \in 0 .. k /\ k - z \in Nat /\ (k - z) + z = k
      BY <1>2
    <2>2. 2^z <= 2^k
      BY <2>1, PowersOfTwo
    <2>3. 2^k = 2^(k - z) * 2^z
      BY <2>1, PowerSum
    <2>4. 2^(k - z) \in Nat
      BY <2>1, PowersOfTwo
    <2>5. (2^(k - z) * 2^z + 0) \div (2^z) = 2^(k - z)
      BY <1>1, <2>4, Quotient
    <2>6. 2^(k - z) * 2^z + 0 = 2^k
      BY <1>1, <2>3
    <2> QED BY <1>1, <1>2, <2>2, <2>5, <2>6
  <1>3. CASE ~(k >= z)
    <2>1. k + 1 \in 0 .. z /\ k + 1 \in Nat
      BY <1>3
    <2>2. 2^(k + 1) <= 2^z
      BY <2>1, PowersOfTwo
    <2>3. 2^(k + 1) = 2 * 2^k
      BY Doubled
    <2>4. \A u \in Nat \ {0}, v \in Nat : 2 * u <= v => ~(u >= v)
      OBVIOUS
    <2> QED BY <1>1, <1>3, <2>2, <2>3, <2>4
  <1> QED BY <1>2, <1>3

\* Label 8 finds the exponent of every power of two in a word.
LEMMA ExponentIs == \A k \in 0 .. 31 : Exponent(2^k) = k
  <1> TAKE k \in 0 .. 31
  <1> DEFINE a == IF 2^k >= 2^16 THEN [y |-> 2^k \div (2^16), e |-> 16] ELSE [y |-> 2^k, e |-> 0]
             b == IF a.y >= 2^8 THEN [y |-> a.y \div (2^8), e |-> a.e + 8] ELSE a
             c == IF b.y >= 2^4 THEN [y |-> b.y \div (2^4), e |-> b.e + 4] ELSE b
  <1>1. k \in Nat
    OBVIOUS
  <1>2. PICK m \in 0 .. 15 : a.y = 2^m /\ a.e = k - m
    <2>1. CASE k >= 16
      <3>1. 2^k >= 2^16 /\ 2^k \div (2^16) = 2^(k - 16)
        BY <1>1, <2>1, Lowered
      <3>2. a.y = 2^(k - 16) /\ a.e = 16
        BY <3>1
      <3>3. k - 16 \in 0 .. 15 /\ k - (k - 16) = 16
        BY <2>1
      <3> HIDE DEF a
      <3> QED BY <3>2, <3>3
    <2>2. CASE ~(k >= 16)
      <3>1. ~(2^k >= 2^16)
        BY <1>1, <2>2, Lowered
      <3>2. a.y = 2^k /\ a.e = 0
        BY <3>1
      <3>3. k \in 0 .. 15 /\ k - k = 0
        BY <2>2
      <3> HIDE DEF a
      <3> QED BY <3>2, <3>3
    <2> QED BY <2>1, <2>2
  <1> HIDE DEF a
  <1>3. PICK n \in 0 .. 7 : b.y = 2^n /\ b.e = k - n
    <2>0. m \in Nat
      OBVIOUS
    <2>1. CASE m >= 8
      <3>1. 2^m >= 2^8 /\ 2^m \div (2^8) = 2^(m - 8)
        BY <2>0, <2>1, Lowered
      <3>2. b.y = 2^(m - 8) /\ b.e = (k - m) + 8
        BY <1>2, <3>1
      <3>3. m - 8 \in 0 .. 7 /\ k - (m - 8) = (k - m) + 8
        BY <2>1
      <3> HIDE DEF b
      <3> QED BY <3>2, <3>3
    <2>2. CASE ~(m >= 8)
      <3>1. ~(2^m >= 2^8)
        BY <2>0, <2>2, Lowered
      <3>2. b.y = 2^m /\ b.e = k - m
        BY <1>2, <3>1
      <3>3. m \in 0 .. 7
        BY <2>2
      <3> HIDE DEF b
      <3> QED BY <3>2, <3>3
    <2> QED BY <2>1, <2>2
  <1> HIDE DEF b
  <1>4. PICK l \in 0 .. 3 : c.y = 2^l /\ c.e = k - l
    <2>0. n \in Nat
      OBVIOUS
    <2>1. CASE n >= 4
      <3>1. 2^n >= 2^4 /\ 2^n \div (2^4) = 2^(n - 4)
        BY <2>0, <2>1, Lowered
      <3>2. c.y = 2^(n - 4) /\ c.e = (k - n) + 4
        BY <1>3, <3>1
      <3>3. n - 4 \in 0 .. 3 /\ k - (n - 4) = (k - n) + 4
        BY <2>1
      <3> HIDE DEF c
      <3> QED BY <3>2, <3>3
    <2>2. CASE ~(n >= 4)
      <3>1. ~(2^n >= 2^4)
        BY <2>0, <2>2, Lowered
      <3>2. c.y = 2^n /\ c.e = k - n
        BY <1>3, <3>1
      <3>3. n \in 0 .. 3
        BY <2>2
      <3> HIDE DEF c
      <3> QED BY <3>2, <3>3
    <2> QED BY <2>1, <2>2
  <1> HIDE DEF c
  <1>5. Exponent(2^k) = c.e + (IF c.y > 4 THEN 3 ELSE c.y \div 2)
    BY DEF Exponent, a, b, c
  <1>6. 2^1 = 2 /\ 2^2 = 4 /\ 2^3 = 8
    <2>1. 2^(0 + 1) = 2 * 2^0 /\ 2^(1 + 1) = 2 * 2^1 /\ 2^(2 + 1) = 2 * 2^2
      BY Doubled
    <2> QED BY <2>1, NoPower
  <1>7. (IF c.y > 4 THEN 3 ELSE c.y \div 2) = l
    <2>1. CASE l = 0
      BY <1>4, <2>1, NoPower
    <2>2. CASE l = 1
      BY <1>4, <1>6, <2>2
    <2>3. CASE l = 2
      BY <1>4, <1>6, <2>3
    <2>4. CASE l = 3
      BY <1>4, <1>6, <2>4
    <2> QED BY <2>1, <2>2, <2>3, <2>4
  <1> QED BY <1>4, <1>5, <1>7

\* Shifting the words x and y of b values to the right by p divides them.
Divides(p, q, b, x, y) ==
    LET l == (y \div p) + ((x * q) % b)
        r == ((y * q) % b) \div q
    IN  /\ x \div p \in Nat /\ l \in Nat /\ r \in 0 .. p - 1
        /\ ((x \div p) * b + l) * p + r = x * b + y

LEMMA ShiftedRight ==
    ASSUME NEW p \in Nat \ {0}, NEW q \in Nat \ {0}, NEW b, b = p * q, NEW x \in Nat, NEW y \in Nat
    PROVE  Divides(p, q, b, x, y)
  <1> DEFINE x1 == x \div p
             x0 == x % p
             y1 == y \div p
             y0 == y % p
  <1>1. x1 \in Nat /\ x0 \in 0 .. p - 1 /\ x = x1 * p + x0
    OBVIOUS
  <1>2. y1 \in Nat /\ y0 \in 0 .. p - 1 /\ y = y1 * p + y0
    OBVIOUS
  <1>3. b \in Nat \ {0}
    OBVIOUS
  <1>4. ASSUME NEW z \in 0 .. p - 1 PROVE z * q \in 0 .. b - 1
    <2>1. PICK d \in Nat : p = z + 1 + d
      <3>1. p - z - 1 \in Nat /\ p = z + 1 + (p - z - 1)
        OBVIOUS
      <3> QED BY <3>1
    <2>2. b = z * q + q + d * q
      BY <2>1
    <2>3. d * q \in Nat /\ z * q \in Nat
      BY <2>1
    <2> QED BY <2>2, <2>3
  <1> HIDE DEF x1, x0, y1, y0
  <1>5. (x * q) % b = x0 * q
    <2>1. x * q = x1 * b + x0 * q
      BY <1>1
    <2>2. x0 * q \in 0 .. b - 1
      BY <1>1, <1>4
    <2>3. (x1 * b + x0 * q) % b = x0 * q
      <3>1. x1 \in Int
        BY <1>1, <1>2
      <3> QED BY <3>1, <1>3, <2>2, Quotient
    <2> QED BY <2>1, <2>3
  <1>6. (y * q) % b = y0 * q
    <2>1. y * q = y1 * b + y0 * q
      BY <1>2
    <2>2. y0 * q \in 0 .. b - 1
      BY <1>2, <1>4
    <2>3. (y1 * b + y0 * q) % b = y0 * q
      <3>1. y1 \in Int
        BY <1>1, <1>2
      <3> QED BY <3>1, <1>3, <2>2, Quotient
    <2> QED BY <2>1, <2>3
  <1>7. (y0 * q) \div q = y0
    <2>1. y0 \in Nat /\ 0 \in 0 .. q - 1
      BY <1>2
    <2>2. (y0 * q + 0) \div q = y0
      BY <2>1, Quotient
    <2>3. y0 * q + 0 = y0 * q
      BY <2>1
    <2> QED BY <2>2, <2>3
  <1>8. (x1 * b + (y1 + x0 * q)) * p + y0 = x * b + y
    <2>1. x0 \in Nat /\ y0 \in Nat
      BY <1>1, <1>2
    <2>2. (x1 * b + (y1 + x0 * q)) * p = (x1 * p) * b + y1 * p + x0 * (p * q)
      BY <1>1, <1>2, <1>3, <2>1
    <2>3. x * b = (x1 * p) * b + x0 * b
      BY <1>1, <1>3, <2>1
    <2>4. (x1 * p) * b \in Nat /\ y1 * p \in Nat /\ x0 * b \in Nat
      <3>1. \A m, n \in Nat : m * n \in Nat
        OBVIOUS
      <3> QED BY <1>1, <1>2, <1>3, <2>1, <3>1
    <2> QED BY <1>2, <2>1, <2>2, <2>3, <2>4
  <1>9. x0 * q \in Nat
    BY <1>1, <1>4
  <1>10. x \div p = x1 /\ y \div p = y1
    BY DEF x1, y1
  <1>11. ((y * q) % b) \div q = y0
    BY <1>6, <1>7
  <1>12. (y \div p) + ((x * q) % b) = y1 + x0 * q
    BY <1>5, <1>10
  <1>13. y1 + x0 * q \in Nat
    BY <1>2, <1>9
  <1> QED BY <1>1, <1>2, <1>8, <1>10, <1>11, <1>12, <1>13 DEF Divides

-----------------------------------------------------------------------------
(* Division: what holds at each label                                      *)

\* The quotient so far, by the divisor
Product == (yh * Base + yl) * r4
\* Label 4 and label 7: xl holds the bits of the dividend below w, at the top.
LowBits(w) == \E l \in 0 .. w - 1 : xl * w = l * Base /\ dividend = Product + xh * w + l

DivTypes ==
    /\ {xh, xl, r4} \subseteq 0 .. Base - 1
    /\ {yh, yl, ip, dividend} \subseteq Nat
DivInv ==
    /\ DivTypes
    /\ label \in {"entry", "1", "2", "3", "4", "7", "ret"}
    /\ label = "entry" => dividend = xh * Base + xl
    /\ label \in {"1", "2", "3", "4", "7"} => r4 > 1
    /\ label = "1" => /\ ip \in Power /\ yl = r4 * ip /\ yl < Base /\ yh = 0
                      /\ dividend = xh * Base + xl
    /\ label = "2" => /\ ip \in Power /\ yl = r4 * ip /\ xh < 2 * yl
                      /\ dividend = (yh * r4 + xh) * Base + xl
    /\ label = "3" => xh < r4 /\ dividend = (yh * r4 + xh) * Base + xl
    /\ label = "4" => xh < r4 /\ ip \in Power /\ LowBits(2 * ip)
    /\ label = "7" => xh = 0 /\ xl # 0 /\ ip \in Power /\ LowBits(ip)
    /\ label = "ret" => IF r4 = 0 THEN yh = 0 /\ yl = 0 /\ xh = 0
                        ELSE xh < r4 /\ dividend = Product + xh

-----------------------------------------------------------------------------
(* Division: the steps                                                     *)

LEMMA Products == \A m, n \in Nat : m * n \in Nat
  OBVIOUS

LEMMA TrivialKeeps == ASSUME DivInv, Trivial PROVE DivInv'
  <1>1. /\ r4 \in 0 .. Base - 1 /\ r4 <= 1 /\ xl \in 0 .. Base - 1 /\ xh \in 0 .. Base - 1
        /\ ip \in Nat /\ dividend \in Nat /\ Base \in Nat \ {0} /\ dividend = xh * Base + xl
    BY Bases DEF Trivial, DivInv, DivTypes
  <1>2. xh' = 0 /\ label' = "ret" /\ UNCHANGED <<xl, ip, r4, dividend>>
    BY DEF Trivial
  <1>3. CASE r4 = 1
    <2>1. yl' = xl /\ yh' = xh
      BY <1>3 DEF Trivial
    <2>2. Product' + 0 = dividend
      <3>1. Product' = (xh * Base + xl) * 1
        BY <1>2, <1>3, <2>1 DEF Product, Base
      <3> QED BY <1>1, <3>1
    <2> QED BY <1>1, <1>2, <1>3, <2>1, <2>2 DEF DivInv, DivTypes
  <1>4. CASE r4 # 1
    <2>1. yl' = 0 /\ yh' = 0 /\ r4 = 0
      BY <1>1, <1>4 DEF Trivial
    <2> QED BY <1>1, <1>2, <2>1 DEF DivInv, DivTypes
  <1> QED BY <1>3, <1>4

LEMMA ShiftKeeps == ASSUME DivInv, Shift PROVE DivInv'
  <1>1. /\ r4 \in 0 .. Base - 1 /\ r4 > 1 /\ xl \in 0 .. Base - 1 /\ xh \in 0 .. Base - 1
        /\ ip \in Nat /\ dividend \in Nat /\ Base \in Nat \ {0} /\ dividend = xh * Base + xl
    BY Bases DEF Shift, DivInv, DivTypes
  <1>2. PICK k \in 0 .. WordBits - 1 : r4 = 2^k
    BY DEF Shift, PowerOf2
  <1>3. WordBits \in 1 .. 32
    BY DivisionAssumption
  <1>4. Exponent(r4) = k
    <2>1. k \in 0 .. 31
      BY <1>3
    <2> QED BY <1>2, <2>1, ExponentIs
  <1> DEFINE q == 2^(WordBits - k)
  <1>5. q \in Nat \ {0} /\ Base = r4 * q
    <2>1. k \in Nat /\ WordBits - k \in Nat /\ WordBits = k + (WordBits - k)
      BY <1>3
    <2>2. 2^(k + (WordBits - k)) = 2^k * 2^(WordBits - k)
      BY <2>1, PowerSum
    <2> QED BY <1>2, <2>1, <2>2, PowersOfTwo DEF Base
  <1>6. /\ yh' = xh \div r4
        /\ yl' = (xl \div r4) + ((xh * q) % Base)
        /\ xh' = ((xl * q) % Base) \div q
        /\ label' = "ret" /\ UNCHANGED <<xl, ip, r4, dividend>>
    BY <1>2, <1>4 DEF Shift, Base
  <1> HIDE DEF q
  <1>7. xh \in Nat /\ xl \in Nat /\ r4 \in Nat \ {0}
    BY <1>1
  <1>8. yh' \in Nat /\ yl' \in Nat /\ xh' \in 0 .. r4 - 1 /\ (yh' * Base + yl') * r4 + xh' = xh * Base + xl
    <2>1. Divides(r4, q, Base, xh, xl)
      BY <1>5, <1>7, ShiftedRight
    <2> QED BY <1>6, <2>1 DEF Divides
  <1>9. Product' = (yh' * Base + yl') * r4
    BY <1>6 DEF Product, Base
  <1>10. xh' < r4 /\ xh' \in 0 .. Base - 1 /\ r4 # 0
    BY <1>1, <1>8
  <1> QED BY <1>1, <1>6, <1>8, <1>9, <1>10 DEF DivInv, DivTypes

LEMMA LongKeeps == ASSUME DivInv, Long PROVE DivInv'
  <1>1. /\ r4 \in 0 .. Base - 1 /\ r4 > 1 /\ xl \in 0 .. Base - 1 /\ xh \in 0 .. Base - 1
        /\ ip \in Nat /\ yl \in Nat /\ dividend \in Nat /\ Base \in Nat \ {0} /\ dividend = xh * Base + xl
    BY Bases DEF Long, DivInv, DivTypes
  <1>2. yh' = 0 /\ UNCHANGED <<xh, xl, r4, dividend>>
    BY DEF Long
  <1>3. Base' = Base
    BY DEF Base
  <1>4. CASE xh < r4
    <2>1. label' = "3" /\ UNCHANGED <<yl, ip>>
      BY <1>4 DEF Long
    <2>2. (0 * r4 + xh) * Base + xl = xh * Base + xl
      BY <1>1
    <2> QED BY <1>1, <1>2, <1>3, <1>4, <2>1, <2>2 DEF DivInv, DivTypes
  <1>5. CASE ~(xh < r4)
    <2>1. label' = "1" /\ yl' = r4 /\ ip' = 1
      BY <1>5 DEF Long
    <2>2. 1 \in Power /\ r4 = r4 * 1
      BY <1>1, Powers
    <2> QED BY <1>1, <1>2, <1>3, <2>1, <2>2 DEF DivInv, DivTypes, Power
  <1> QED BY <1>4, <1>5

LEMMA AlignKeeps == ASSUME DivInv, Align PROVE DivInv'
  <1>1. /\ r4 \in 0 .. Base - 1 /\ r4 > 1 /\ xl \in 0 .. Base - 1 /\ xh \in 0 .. Base - 1
        /\ ip \in Nat \ {0} /\ yl \in Nat /\ dividend \in Nat /\ Base \in Nat \ {0} /\ Top \in Nat \ {0}
        /\ Base = 2 * Top
        /\ ip \in Power /\ yl = r4 * ip /\ yl < Base /\ yh = 0 /\ dividend = xh * Base + xl
    BY Bases, Powers DEF Align, DivInv, DivTypes
  <1>2. UNCHANGED <<xh, xl, yh, r4, dividend>>
    BY DEF Align
  <1>3. Base' = Base /\ Power' = Power
    BY DEF Base, Power
  <1>4. yl >= 2 * ip
    <2>1. PICK d \in Nat : r4 = 2 + d
      <3>1. r4 - 2 \in Nat /\ r4 = 2 + (r4 - 2)
        BY <1>1
      <3> QED BY <3>1
    <2>2. yl = 2 * ip + d * ip /\ d * ip \in Nat
      BY <1>1, <2>1
    <2> QED BY <1>1, <2>2
  <1>5. CASE yl < Top /\ yl < xh
    <2>1. yl' = Shl(yl) /\ ip' = Shl(ip) /\ label' = "1"
      BY <1>5 DEF Align
    <2>2. yl \in 0 .. Base - 1 /\ ip \in 0 .. Base - 1 /\ ip < Top
      BY <1>1, <1>4, <1>5
    <2>3. /\ Bit(yl) = 0 /\ Shl(yl) = 2 * yl - 0 * Base /\ Shl(yl) \in 0 .. Base - 1
          /\ Bit(ip) = 0 /\ Shl(ip) = 2 * ip - 0 * Base
      <3>1. \A x : Bit(x) \in {0, 1} /\ (Bit(x) = 1 <=> x >= Top) /\ x < Top /\ x \in 0 .. Base - 1 => Bit(x) = 0
        BY <1>1
      <3> QED BY <1>5, <2>2, <3>1, Shifted
    <2>4. yl' = 2 * yl /\ ip' = 2 * ip /\ yl' < Base
      BY <1>1, <2>1, <2>3
    <2>5. 2 * ip \in Power /\ 2 * yl = r4 * (2 * ip)
      BY <1>1, Powers
    <2>6. yl' = r4 * ip' /\ ip' \in Power /\ ip' \in Nat /\ yl' \in Nat
      BY <1>1, <2>4, <2>5
    <2> QED BY <1>1, <1>2, <1>3, <2>1, <2>4, <2>6 DEF DivInv, DivTypes
  <1>6. CASE ~(yl < Top /\ yl < xh)
    <2>1. label' = "2" /\ UNCHANGED <<yl, ip>>
      BY <1>6 DEF Align
    <2>2. xh < 2 * yl
      BY <1>1, <1>4, <1>6
    <2>3. (0 * r4 + xh) * Base + xl = xh * Base + xl
      BY <1>1
    <2> QED BY <1>1, <1>2, <1>3, <2>1, <2>2, <2>3 DEF DivInv, DivTypes
  <1> QED BY <1>5, <1>6

LEMMA UpperKeeps == ASSUME DivInv, Upper PROVE DivInv'
  <1>1. /\ r4 \in 0 .. Base - 1 /\ r4 > 1 /\ xl \in 0 .. Base - 1 /\ xh \in 0 .. Base - 1
        /\ ip \in Nat \ {0} /\ yl \in Nat /\ yh \in Nat /\ dividend \in Nat /\ Base \in Nat \ {0}
        /\ ip \in Power /\ yl = r4 * ip /\ xh < 2 * yl /\ dividend = (yh * r4 + xh) * Base + xl
    BY Bases, Powers DEF Upper, DivInv, DivTypes
  <1>2. UNCHANGED <<xl, r4, dividend>>
    BY DEF Upper
  <1>3. Base' = Base /\ Power' = Power
    BY DEF Base, Power
  <1>4. /\ xh' \in 0 .. Base - 1 /\ xh' < yl /\ yh' \in Nat
        /\ yh' * r4 + xh' = yh * r4 + xh
        /\ xh = yl => xh' = 0
    <2>1. CASE xh >= yl
      <3>1. yh' = yh + ip /\ xh' = xh - yl
        BY <2>1 DEF Upper
      <3>2. (yh + ip) * r4 = yh * r4 + yl
        BY <1>1
      <3>3. yh * r4 \in Nat
        BY <1>1
      <3> QED BY <1>1, <2>1, <3>1, <3>2, <3>3
    <2>2. CASE ~(xh >= yl)
      <3>1. yh' = yh /\ xh' = xh
        BY <2>2 DEF Upper
      <3> QED BY <1>1, <2>2, <3>1
    <2> QED BY <2>1, <2>2
  <1>5. dividend = (yh' * r4 + xh') * Base + xl
    BY <1>1, <1>4
  <1>6. yl' = yl \div 2 /\ yl' \in Nat
    BY <1>1 DEF Upper
  <1>7. ip' \in Nat /\ label' \in {"2", "3"}
    <2>1. ip \div 2 \in Nat
      BY <1>1
    <2> QED BY <1>1, <2>1 DEF Upper
  <1>8. label' = "3" => xh' < r4
    <2>1. CASE xh = yl
      BY <1>1, <1>4, <2>1
    <2>2. CASE ip = 1
      <3>1. yl = r4
        BY <1>1, <2>2
      <3> QED BY <1>4, <3>1
    <2>3. CASE xh # yl /\ ip # 1
      BY <2>3 DEF Upper
    <2> QED BY <2>1, <2>2, <2>3
  <1>9. label' = "2" => ip' \in Power /\ yl' = r4 * ip' /\ xh' < 2 * yl'
    <2> SUFFICES ASSUME label' = "2" PROVE ip' \in Power /\ yl' = r4 * ip' /\ xh' < 2 * yl'
      OBVIOUS
    <2>1. xh # yl /\ ip # 1 /\ ip' = ip \div 2
      BY DEF Upper
    <2>2. ip' \in Power /\ ip = 2 * ip' /\ ip' \in Nat
      BY <1>1, <1>7, <2>1, Powers
    <2>3. yl = 2 * (r4 * ip') /\ r4 * ip' \in Nat
      <3>1. \A m, n \in Nat : m * (2 * n) = 2 * (m * n) /\ m * n \in Nat
        OBVIOUS
      <3>2. r4 \in Nat
        BY <1>1
      <3>3. PICK m \in Nat, n \in Nat : m = r4 /\ n = ip'
        BY <2>2, <3>2
      <3>4. yl = m * (2 * n)
        BY <1>1, <2>2, <3>3
      <3>5. yl = 2 * (m * n) /\ m * n \in Nat
        BY <3>1, <3>4
      <3> QED BY <3>3, <3>5
    <2>4. yl' = r4 * ip' /\ yl = 2 * yl'
      <3>1. \A m, n \in Nat : m = 2 * n => m \div 2 = n
        OBVIOUS
      <3> QED BY <1>1, <1>6, <2>3, <3>1
    <2> QED BY <1>4, <2>2, <2>4
  <1> QED BY <1>1, <1>2, <1>3, <1>4, <1>5, <1>6, <1>7, <1>8, <1>9 DEF DivInv, DivTypes

LEMMA MiddleKeeps == ASSUME DivInv, Middle PROVE DivInv'
  <1>1. /\ r4 \in 0 .. Base - 1 /\ r4 > 1 /\ xl \in 0 .. Base - 1 /\ xh \in 0 .. Base - 1
        /\ ip \in Nat /\ yh \in Nat /\ dividend \in Nat /\ Base \in Nat \ {0}
        /\ xh < r4 /\ dividend = (yh * r4 + xh) * Base + xl
    BY Bases DEF Middle, DivInv, DivTypes
  <1>2. yl' = 0 /\ UNCHANGED <<xl, yh, r4, dividend>>
    BY DEF Middle
  <1>3. Base' = Base /\ Power' = Power /\ Top \in Power /\ Top \in Nat /\ Base = 2 * Top
    BY Bases DEF Base, Power
  <1>4. Product' = (yh * Base + 0) * r4
    BY <1>2 DEF Product, Base
  <1>5. (yh * Base + 0) * r4 = yh * r4 * Base /\ yh * r4 * Base \in Nat
    BY <1>1
  <1>6. dividend = Product' + xh * Base + xl
    <2>1. (yh * r4 + xh) * Base = yh * r4 * Base + xh * Base
      BY <1>1
    <2> QED BY <1>1, <1>4, <1>5, <2>1
  <1>7. CASE xh = 0 /\ xl < r4
    <2>1. xh' = xl /\ label' = "ret" /\ UNCHANGED ip
      BY <1>7 DEF Middle
    <2>2. dividend = Product' + xh'
      BY <1>1, <1>4, <1>5, <1>6, <1>7, <2>1
    <2> QED BY <1>1, <1>2, <1>3, <1>7, <2>1, <2>2 DEF DivInv, DivTypes
  <1>8. CASE ~(xh = 0 /\ xl < r4)
    <2>1. ip' = Top /\ label' = "4" /\ xh' = xh
      BY <1>8 DEF Middle
    <2>2. 2 * ip' = Base /\ xl' = xl /\ dividend' = dividend
      BY <1>2, <1>3, <2>1
    <2>3. LowBits(2 * ip)'
      BY <1>1, <1>3, <1>6, <2>1, <2>2 DEF LowBits
    <2> QED BY <1>1, <1>2, <1>3, <2>1, <2>3 DEF DivInv, DivTypes
  <1> QED BY <1>7, <1>8

\* The bit that is carried out of xl is the highest of those that are left.
LEMMA CarriedOut ==
    ASSUME NEW x \in 0 .. Base - 1, NEW p \in Nat \ {0}, NEW l \in 0 .. 2 * p - 1,
           x * (2 * p) = l * Base
    PROVE  /\ l - Bit(x) * p \in 0 .. p - 1
           /\ Shl(x) * p = (l - Bit(x) * p) * Base
  <1>1. Base \in Nat \ {0} /\ Top \in Nat \ {0} /\ Base = 2 * Top
    BY Bases
  <1>2. /\ Bit(x) \in {0, 1} /\ (Bit(x) = 1 <=> x >= Top)
        /\ Shl(x) = 2 * x - Bit(x) * Base /\ Shl(x) \in 0 .. Base - 1
    BY Shifted
  <1>3. x * p = l * Top
    <2>1. 2 * (x * p) = 2 * (l * Top)
      BY <1>1
    <2>2. x * p \in Nat /\ l * Top \in Nat
      BY <1>1
    <2> QED BY <2>1, <2>2
  <1>4. CASE x >= Top
    <2>1. PICK d \in Nat : x = Top + d
      <3>1. x - Top \in Nat /\ x = Top + (x - Top)
        BY <1>1, <1>4
      <3> QED BY <3>1
    <2>2. l >= p
      <3> SUFFICES ASSUME ~(l >= p) PROVE FALSE
        OBVIOUS
      <3>1. PICK e \in Nat : p = l + 1 + e
        <4>1. p - l - 1 \in Nat /\ p = l + 1 + (p - l - 1)
          OBVIOUS
        <4> QED BY <4>1
      <3>2. (Top + d) * p = Top * p + d * p /\ Top * p = l * Top + Top + e * Top
        BY <1>1, <2>1, <3>1
      <3>3. d * p \in Nat /\ e * Top \in Nat /\ l * Top \in Nat
        BY <1>1, <2>1, <3>1
      <3> QED BY <1>1, <1>3, <2>1, <3>2, <3>3
    <2>3. Bit(x) = 1 /\ Shl(x) = 2 * x - Base
      BY <1>1, <1>2, <1>4
    <2>4. (2 * x - Base) * p = x * (2 * p) - p * Base
      BY <1>1
    <2>5. (l - p) * Base = l * Base - p * Base
      BY <1>1
    <2>6. 1 * p = p
      OBVIOUS
    <2> QED BY <2>2, <2>3, <2>4, <2>5, <2>6
  <1>5. CASE ~(x >= Top)
    <2>1. PICK d \in Nat : Top = x + 1 + d
      <3>1. Top - x - 1 \in Nat /\ Top = x + 1 + (Top - x - 1)
        BY <1>1, <1>5
      <3> QED BY <3>1
    <2>2. l < p
      <3> SUFFICES ASSUME ~(l < p) PROVE FALSE
        OBVIOUS
      <3>1. PICK e \in Nat : l = p + e
        <4>1. l - p \in Nat /\ l = p + (l - p)
          OBVIOUS
        <4> QED BY <4>1
      <3>2. l * Top = p * Top + e * Top /\ p * Top = x * p + p + d * p
        BY <1>1, <2>1, <3>1
      <3>3. d * p \in Nat /\ e * Top \in Nat /\ x * p \in Nat
        BY <1>1, <2>1, <3>1
      <3> QED BY <1>3, <3>2, <3>3
    <2>3. Bit(x) = 0 /\ Shl(x) = 2 * x
      BY <1>1, <1>2, <1>5
    <2>4. (2 * x) * p = x * (2 * p)
      OBVIOUS
    <2>5. 0 * p = 0 /\ l - 0 = l
      OBVIOUS
    <2> QED BY <2>2, <2>3, <2>4, <2>5
  <1> QED BY <1>4, <1>5

LEMMA LowerKeeps == ASSUME DivInv, Lower4 PROVE DivInv'
  <1>1. /\ r4 \in 0 .. Base - 1 /\ r4 > 1 /\ xl \in 0 .. Base - 1 /\ xh \in 0 .. Base - 1 /\ xh < r4
        /\ ip \in Nat \ {0} /\ ip \in Power /\ yl \in Nat /\ yh \in Nat /\ dividend \in Nat
        /\ Base \in Nat \ {0} /\ Top \in Nat \ {0} /\ Base = 2 * Top /\ LowBits(2 * ip)
    BY Bases, Powers DEF Lower4, DivInv, DivTypes
  <1>2. xl' = Shl(xl) /\ UNCHANGED <<yh, r4, dividend>>
    BY DEF Lower4
  <1>3. Base' = Base /\ Power' = Power
    BY DEF Base, Power
  <1>4. PICK l \in 0 .. 2 * ip - 1 : xl * (2 * ip) = l * Base /\ dividend = Product + xh * (2 * ip) + l
    BY <1>1 DEF LowBits
  <1> DEFINE b == Bit(xl)
             f == 2 * xh + b
             rest == l - b * ip
             h == f % Base
  <1>5. rest \in 0 .. ip - 1 /\ xl' * ip = rest * Base
    BY <1>1, <1>2, <1>4, CarriedOut
  <1>6. xl' \in 0 .. Base - 1 /\ b \in {0, 1}
    BY <1>1, <1>2, Shifted
  <1>7. h = (2 * xh + Bit(xl)) % 2^WordBits
    BY DEF Base
  <1> HIDE DEF b
  <1>8. f \in Nat /\ f < 2 * r4
    BY <1>1, <1>6
  <1>9. Product \in Nat
    <2>1. Product = (yh * Base + yl) * r4
      BY DEF Product
    <2>2. yh * Base + yl \in Nat /\ r4 \in Nat
      BY <1>1, Products
    <2> QED BY <2>1, <2>2, Products
  <1>10. dividend = Product + f * ip + rest
    <2>1. f * ip = xh * (2 * ip) + b * ip
      BY <1>1, <1>6
    <2>2. b * ip \in Nat /\ xh * (2 * ip) \in Nat
      BY <1>1, <1>6
    <2> QED BY <1>1, <1>4, <1>9, <2>1, <2>2
  <1>11. xh < Top => h = f
    <2> SUFFICES ASSUME xh < Top PROVE h = f
      OBVIOUS
    <2>1. f \in 0 .. Base - 1
      BY <1>1, <1>6
    <2> QED BY <2>1, Wrapped
  <1>12. xh >= Top => h = f - Base /\ f >= Base
    <2> SUFFICES ASSUME xh >= Top PROVE h = f - Base /\ f >= Base
      OBVIOUS
    <2>1. f - Base \in 0 .. Base - 1
      BY <1>1, <1>6
    <2>2. ((f - Base) + Base) % Base = f - Base
      BY <2>1, Wrapped
    <2>3. (f - Base) + Base = f
      BY <1>1, <1>8
    <2> QED BY <1>1, <1>8, <2>1, <2>2, <2>3
  <1> HIDE DEF h, f, rest
  <1>13. CASE h = 0 /\ xh < Top
    <2>1. xh' = 0 /\ label' = (IF xl' = 0 THEN "ret" ELSE "7") /\ UNCHANGED <<yl, ip>>
      BY <1>2, <1>7, <1>13 DEF Lower4
    <2>2. Product' = Product
      BY <1>2, <2>1 DEF Product, Base
    <2>3. f = 0 /\ dividend = Product + rest
      BY <1>1, <1>5, <1>9, <1>10, <1>11, <1>13
    <2>4. CASE xl' = 0
      <3>1. rest = 0
        <4>1. rest * Base = 0 /\ rest \in Nat
          BY <1>1, <1>5, <2>4
        <4>2. \A m \in Nat, n \in Nat \ {0} : m * n = 0 => m = 0
          OBVIOUS
        <4> QED BY <1>1, <4>1, <4>2
      <3>2. dividend = Product' + 0
        BY <1>9, <2>2, <2>3, <3>1
      <3> QED BY <1>1, <1>2, <1>3, <1>6, <2>1, <2>4, <3>2 DEF DivInv, DivTypes
    <2>5. CASE xl' # 0
      <3>1. dividend = Product' + 0 * ip + rest
        BY <1>1, <1>5, <1>9, <2>2, <2>3
      <3>2. LowBits(ip)'
        BY <1>2, <1>3, <1>5, <2>1, <3>1 DEF LowBits
      <3> QED BY <1>1, <1>2, <1>3, <1>6, <2>1, <2>5, <3>2 DEF DivInv, DivTypes
    <2> QED BY <2>4, <2>5
  <1>14. CASE ~(h = 0 /\ xh < Top)
    <2>1. /\ yl' = IF xh >= Top \/ h >= r4 THEN yl + ip ELSE yl
          /\ xh' = IF xh >= Top \/ h >= r4 THEN (h - r4) % Base ELSE h
          /\ ip' = ip \div 2
          /\ label' = IF ip = 1 THEN "ret" ELSE "4"
      BY <1>7, <1>14 DEF Lower4, Turn, Base
    <2>2. (xh >= Top \/ h >= r4) <=> f >= r4
      BY <1>1, <1>8, <1>11, <1>12
    <2>3. xh' = IF f >= r4 THEN f - r4 ELSE f
      <3>1. CASE f >= r4
        <4>1. f - r4 \in 0 .. Base - 1
          BY <1>1, <1>8, <3>1
        <4>2. (f - r4) % Base = f - r4 /\ ((f - r4) - Base) % Base = f - r4
          BY <4>1, Wrapped
        <4>3. (f - r4) - Base = (f - Base) - r4
          BY <1>1, <1>8
        <4>4. (f - r4) % Base = f - r4 /\ ((f - Base) - r4) % Base = f - r4
          BY <4>2, <4>3
        <4>5. (h - r4) % Base = f - r4
          <5>1. CASE xh < Top
            BY <1>11, <4>4, <5>1
          <5>2. CASE ~(xh < Top)
            <6>1. xh >= Top
              BY <1>1, <5>2
            <6> QED BY <1>12, <4>4, <6>1
          <5> QED BY <5>1, <5>2
        <4> QED BY <2>1, <2>2, <3>1, <4>5
      <3>2. CASE ~(f >= r4)
        <4>1. xh < Top
          BY <1>1, <1>8, <1>12, <3>2
        <4> QED BY <1>11, <2>1, <2>2, <3>2, <4>1
      <3> QED BY <3>1, <3>2
    <2>4. xh' \in Nat /\ xh' < r4 /\ yl' \in Nat
      BY <1>1, <1>8, <2>1, <2>2, <2>3
    <2>5. Product' + xh' * ip = Product + f * ip /\ Product' \in Nat /\ xh' * ip \in Nat
      <3>1. Product' = (yh * Base + yl') * r4 /\ Product = (yh * Base + yl) * r4
        BY <1>2 DEF Product, Base
      <3>2. PICK m \in Nat, r \in Nat, n \in Nat : m = yh * Base + yl /\ r = r4 /\ n = ip
        BY <1>1, Products
      <3>3. CASE f >= r4
        <4>1. yl' = yl + ip /\ xh' = f - r4
          BY <2>1, <2>2, <2>3, <3>3
        <4>2. yh * Base + yl' = m + n
          BY <1>1, <3>2, <4>1, Products
        <4>3. Product' = (m + n) * r /\ Product = m * r /\ xh' = f - r
          BY <3>1, <3>2, <4>1, <4>2
        <4>4. (m + n) * r + (f - r) * n = m * r + f * n
          BY <1>8
        <4>5. (m + n) * r \in Nat /\ (f - r) * n \in Nat
          BY <2>4, <4>3, Products
        <4> QED BY <3>2, <4>3, <4>4, <4>5
      <3>4. CASE ~(f >= r4)
        <4>1. yl' = yl /\ xh' = f
          BY <2>1, <2>2, <2>3, <3>4
        <4> QED BY <1>1, <1>8, <1>9, <3>1, <4>1, Products
      <3> QED BY <3>3, <3>4
    <2>6. dividend = Product' + xh' * ip + rest
      BY <1>5, <1>10, <2>5
    <2>7. xh' \in 0 .. Base - 1
      BY <1>1, <2>4
    <2>8. CASE ip = 1
      <3>1. rest = 0 /\ xh' * ip = xh'
        <4>1. \A m \in Nat : m * 1 = m
          OBVIOUS
        <4>2. xh' * ip = xh'
          BY <2>4, <2>8, <4>1
        <4>3. rest \in 0 .. 1 - 1
          BY <1>5, <2>8
        <4> QED BY <4>2, <4>3
      <3>2. dividend = Product' + xh'
        BY <2>4, <2>5, <2>6, <3>1
      <3>3. ip' \in Nat /\ label' = "ret" /\ r4 # 0
        BY <1>1, <2>1, <2>8
      <3> QED BY <1>1, <1>2, <1>3, <1>6, <2>4, <2>7, <3>2, <3>3 DEF DivInv, DivTypes
    <2>9. CASE ip # 1
      <3>1. ip' \in Power /\ ip = 2 * ip' /\ ip' \in Nat /\ label' = "4"
        BY <1>1, <2>1, <2>9, Powers
      <3>2. LowBits(2 * ip)'
        BY <1>2, <1>3, <1>5, <2>6, <3>1 DEF LowBits
      <3> QED BY <1>1, <1>2, <1>3, <1>6, <2>4, <2>7, <3>1, <3>2 DEF DivInv, DivTypes
    <2> QED BY <2>8, <2>9
  <1> QED BY <1>13, <1>14

LEMMA SkipKeeps == ASSUME DivInv, Skip PROVE DivInv'
  <1>1. /\ r4 \in 0 .. Base - 1 /\ r4 > 1 /\ xl \in 0 .. Base - 1 /\ xl # 0 /\ xh = 0
        /\ ip \in Nat \ {0} /\ ip \in Power /\ yl \in Nat /\ yh \in Nat /\ dividend \in Nat
        /\ Base \in Nat \ {0} /\ LowBits(ip)
    BY Bases, Powers DEF Skip, DivInv, DivTypes
  <1>2. xl' = Shl(xl) /\ UNCHANGED <<yh, yl, r4, dividend>>
    BY DEF Skip
  <1>3. Base' = Base /\ Power' = Power /\ Product' = Product
    BY <1>2 DEF Base, Power, Product
  <1>4. PICK l \in 0 .. ip - 1 : xl * ip = l * Base /\ dividend = Product + xh * ip + l
    BY <1>1 DEF LowBits
  <1>5. Product \in Nat
    <2>1. Product = (yh * Base + yl) * r4
      BY DEF Product
    <2>2. yh * Base + yl \in Nat /\ r4 \in Nat
      BY <1>1, Products
    <2> QED BY <2>1, <2>2, Products
  <1>6. dividend = Product + l
    BY <1>1, <1>4, <1>5
  <1>7. ip # 1
    BY <1>1, <1>4
  <1> DEFINE p == ip \div 2
             rest == l - Bit(xl) * p
  <1>8. p \in Power /\ p \in Nat \ {0} /\ ip = 2 * p
    BY <1>1, <1>7, Powers
  <1> HIDE DEF p
  <1>9. rest \in 0 .. p - 1 /\ xl' * p = rest * Base
    <2>1. l \in 0 .. 2 * p - 1 /\ xl * (2 * p) = l * Base
      BY <1>4, <1>8
    <2> QED BY <1>1, <1>2, <1>8, <2>1, CarriedOut
  <1>10. xl' \in 0 .. Base - 1 /\ Bit(xl) \in {0, 1} /\ xl' = 2 * xl - Bit(xl) * Base
    BY <1>1, <1>2, Shifted
  <1>11. CASE Bit(xl) = 0
    <2>1. ip' = p /\ xh' = 0 /\ label' = "7"
      BY <1>1, <1>11 DEF Skip, p
    <2>2. rest = l /\ xl' # 0
      BY <1>1, <1>8, <1>10, <1>11
    <2>3. dividend = Product' + 0 * p + l
      BY <1>3, <1>5, <1>6, <1>8
    <2>4. LowBits(ip)'
      BY <1>2, <1>3, <1>9, <2>1, <2>2, <2>3 DEF LowBits
    <2> QED BY <1>1, <1>2, <1>3, <1>8, <1>10, <2>1, <2>2, <2>4 DEF DivInv, DivTypes
  <1>12. CASE Bit(xl) = 1
    <2>1. ip' = ip \div 4 /\ xh' = 1 /\ label' = IF ip' = 0 THEN "ret" ELSE "4"
      BY <1>12 DEF Skip
    <2>2. rest = l - p /\ dividend = Product' + p + rest
      BY <1>3, <1>5, <1>6, <1>8, <1>12
    <2> HIDE DEF rest
    <2>3. 1 \in 0 .. Base - 1 /\ 1 < r4 /\ r4 # 0
      BY <1>1
    <2>4. CASE p = 1
      <3>1. ip' = 0 /\ label' = "ret" /\ rest = 0
        BY <1>8, <1>9, <2>1, <2>4
      <3>2. dividend = Product' + 1
        BY <1>3, <1>5, <2>2, <2>4, <3>1
      <3> QED BY <1>1, <1>2, <1>3, <1>10, <2>1, <2>3, <3>1, <3>2 DEF DivInv, DivTypes
    <2>5. CASE p # 1
      <3>1. PICK n \in Power : p = 2 * n /\ n \in Nat \ {0}
        BY <1>8, <2>5, Powers
      <3>2. ip' = n /\ label' = "4"
        BY <1>8, <2>1, <3>1
      <3>3. dividend = Product' + 1 * p + rest
        BY <1>3, <1>5, <1>8, <1>9, <2>2
      <3>4. LowBits(2 * ip)'
        BY <1>2, <1>3, <1>9, <2>1, <3>1, <3>2, <3>3 DEF LowBits, rest
      <3> QED BY <1>1, <1>2, <1>3, <1>10, <2>1, <2>3, <3>1, <3>2, <3>4 DEF DivInv, DivTypes
    <2> QED BY <2>4, <2>5
  <1> QED BY <1>10, <1>11, <1>12

LEMMA DivStarts == DivInit => DivInv
  <1> SUFFICES ASSUME DivInit PROVE DivInv
    OBVIOUS
  <1>1. DividendWords \subseteq 0 .. Base - 1 /\ Divisors \subseteq 0 .. Base - 1 /\ Base \in Nat \ {0}
    BY DivisionAssumption, Bases DEF Base
  <1>2. xh \in 0 .. Base - 1 /\ xl \in 0 .. Base - 1 /\ dividend = xh * Base + xl
    BY <1>1 DEF DivInit, Base
  <1>3. dividend \in Nat
    BY <1>1, <1>2, Products
  <1> QED BY <1>1, <1>2, <1>3 DEF DivInit, DivInv, DivTypes

LEMMA DivStep == DivInv /\ [DivNext]_divVars => DivInv'
  <1> SUFFICES ASSUME DivInv, [DivNext]_divVars PROVE DivInv'
    OBVIOUS
  <1>1. CASE UNCHANGED divVars
    BY <1>1 DEF divVars, DivInv, DivTypes, LowBits, Product, Base, Power
  <1> QED BY <1>1, TrivialKeeps, ShiftKeeps, LongKeeps, AlignKeeps, UpperKeeps, MiddleKeeps,
             LowerKeeps, SkipKeeps DEF DivNext

\* do_div returns the quotient and the remainder (div64.S:57-205) for every
\* dividend of two words and every divisor of one, for words of any size up to 32.
THEOREM QuotientAlwaysExact == DivSpec => []QuotientExact
<1>1. DivInv => QuotientExact
  <2> SUFFICES ASSUME DivInv, label = "ret", r4 # 0
               PROVE  yh * Base + yl = dividend \div r4 /\ xh = dividend % r4
    BY DEF DivInv, QuotientExact, Base
  <2>1. /\ r4 \in 0 .. Base - 1 /\ xh \in 0 .. Base - 1 /\ yl \in Nat /\ yh \in Nat
        /\ Base \in Nat \ {0} /\ xh < r4 /\ dividend = (yh * Base + yl) * r4 + xh
    BY Bases DEF DivInv, DivTypes, Product
  <2>2. r4 \in Nat \ {0} /\ yh * Base + yl \in Int /\ xh \in 0 .. r4 - 1
    BY <2>1, Products
  <2> QED BY <2>1, <2>2, Quotient
<1> QED BY DivStarts, DivStep, <1>1, PTL DEF DivSpec
-----------------------------------------------------------------------------
(* Strings                                                                 *)

\* A loop over lo .. hi - 1 stops at the first k where it must, or at hi.
First(k, lo, hi, stops) == /\ k \in lo .. hi
                           /\ \A j \in lo .. k - 1 : j \notin stops
                           /\ k # hi => k \in stops

\* Such a loop exists as a recursive function and stops there.
LEMMA ScanIsFirst ==
    ASSUME NEW lo \in Int, NEW hi \in Int, lo <= hi, NEW stops
    PROVE  First(Scan(lo, hi, stops), lo, hi, stops)
<1> DEFINE From(k)  == {j \in k .. hi : j \in stops \/ j = hi}
           f == CHOOSE g : g = [k \in lo .. hi |-> IF k = hi THEN hi ELSE IF k \in stops THEN k ELSE g[k + 1]]
           Good(k, x) == First(x, k, hi, stops)
\* the first place to stop from k on
<1>1. \A k \in lo .. hi : \E x : Good(k, x)
  <2> TAKE k \in lo .. hi
  <2> DEFINE S == {n \in Nat : k + n \in From(k)}
  <2>1. hi - k \in S
    OBVIOUS
  <2>2. PICK n \in S : \A j \in S : n <= j
    BY <2>1, Smallest
  <2>3. \A j \in k .. k + n - 1 : j \notin stops
    <3> SUFFICES ASSUME NEW j \in k .. k + n - 1, j \in stops PROVE FALSE
      OBVIOUS
    <3>1. k + n \in k .. hi
      BY <2>2
    <3>2. j - k \in Nat /\ k + (j - k) = j /\ j \in k .. hi /\ j - k < n
      BY <3>1, <2>2
    <3>3. j - k \in S
      BY <3>2
    <3> QED BY <3>3, <3>2, <2>2
  <2>4. k + n \in k .. hi /\ (k + n # hi => k + n \in stops)
    BY <2>2
  <2>5. Good(k, k + n)
    BY <2>3, <2>4 DEF First
  <2> QED BY <2>5
<1>2. \A k \in lo .. hi : \A x, y : Good(k, x) /\ Good(k, y) => x = y
  BY DEF First
<1>3. \E g : g = [k \in lo .. hi |-> IF k = hi THEN hi ELSE IF k \in stops THEN k ELSE g[k + 1]]
  <2> DEFINE g == [k \in lo .. hi |-> CHOOSE x : Good(k, x)]
  <2>1. \A k \in lo .. hi : Good(k, g[k])
    BY <1>1
  <2> HIDE DEF g
  <2>2. ASSUME NEW k \in lo .. hi
        PROVE  g[k] = IF k = hi THEN hi ELSE IF k \in stops THEN k ELSE g[k + 1]
    <3>1. CASE k = hi
      BY <3>1, <2>1 DEF First
    <3>2. CASE k # hi /\ k \in stops
      <4>1. k \in Int /\ (g[k] > k => k \in k .. g[k] - 1)
        BY <2>1 DEF First
      <4> QED BY <3>2, <4>1, <2>1 DEF First
    <3>3. CASE k # hi /\ k \notin stops
      <4>1. k + 1 \in lo .. hi /\ Good(k + 1, g[k + 1])
        BY <3>3, <2>1
      <4>2. Good(k, g[k + 1])
        BY <4>1, <3>3 DEF First
      <4> QED BY <4>2, <1>2, <2>1, <3>3
    <3> QED BY <3>1, <3>2, <3>3
  <2>3. g = [k \in lo .. hi |-> g[k]]
    BY DEF g
  <2>4. g = [k \in lo .. hi |-> IF k = hi THEN hi ELSE IF k \in stops THEN k ELSE g[k + 1]]
    BY <2>2, <2>3
  <2> QED BY <2>4
<1>4. f = [k \in lo .. hi |-> IF k = hi THEN hi ELSE IF k \in stops THEN k ELSE f[k + 1]]
  BY <1>3
<1>5. Scan(lo, hi, stops) = f[lo]
  BY DEF Scan
<1> HIDE DEF f
<1>6. \A k \in lo .. hi : f[k] = IF k = hi THEN hi ELSE IF k \in stops THEN k ELSE f[k + 1]
  BY <1>4
<1> DEFINE Bad == {n \in Nat : n <= hi - lo /\ ~Good(hi - n, f[hi - n])}
<1>7. Bad = {}
  <2> SUFFICES ASSUME Bad # {} PROVE FALSE
    OBVIOUS
  <2>1. PICK n \in Bad : \A j \in Bad : n <= j
    BY Smallest
  <2>2. hi - n \in lo .. hi /\ n \in Nat
    BY <2>1
  <2>3. CASE n = 0
    BY <2>2, <2>3, <1>6, <2>1 DEF First
  <2>4. CASE n # 0 /\ hi - n \in stops
    BY <2>2, <2>4, <1>6, <2>1 DEF First
  <2>5. CASE n # 0 /\ hi - n \notin stops
    <3>1. n - 1 \in Nat /\ n - 1 <= hi - lo /\ n - 1 \notin Bad /\ hi - (n - 1) = hi - n + 1
      BY <2>1, <2>2, <2>5
    <3>2. Good(hi - n + 1, f[hi - n + 1])
      BY <3>1
    <3>3. f[hi - n] = f[hi - n + 1]
      BY <1>6, <2>2, <2>5
    <3>4. Good(hi - n, f[hi - n + 1])
      BY <3>2, <2>5, <2>2 DEF First
    <3> QED BY <3>3, <3>4, <2>1
  <2> QED BY <2>3, <2>4, <2>5
<1>8. hi - lo \in Nat /\ hi - (hi - lo) = lo
  OBVIOUS
<1>9. hi - lo \notin Bad
  BY <1>7
<1>10. Good(lo, f[lo])
  BY <1>8, <1>9
<1> QED BY <1>5, <1>10

Memory == [Addr -> Byte]

\* The byte at a is that of the source as far as lo .. hi - 1 has been copied.
Copied(m, d, u, lo, hi) == [a \in Addr |-> IF a \in lo .. hi - 1 THEN m[a - d + u] ELSE m[a]]

\* Copying upwards copies when no byte is read after it was written.
LEMMA CopyUpIs ==
    ASSUME NEW m \in Memory, NEW d \in Int, NEW u \in Int, NEW n \in Nat,
           0 <= d, 0 <= u, d + n <= Cells, u + n <= Cells, d <= u \/ Apart(d, n, u, n)
    PROVE  CopyUp(m, d, u, n) = Copied(m, d, u, d, d + n)
<1> DEFINE f == CHOOSE g : g = [k \in 0 .. n |-> IF k = 0 THEN m ELSE [g[k - 1] EXCEPT ![d + k - 1] = g[k - 1][u + k - 1]]]
           C(k) == Copied(m, d, u, d, d + k)
<1>0. Cells \in Nat \ {0}
  BY StringAssumption
<1>1. C(0) = m
  BY DEF Copied, Memory, Addr
<1>2. \A k \in 1 .. n : C(k) = [C(k - 1) EXCEPT ![d + k - 1] = C(k - 1)[u + k - 1]]
  <2> TAKE k \in 1 .. n
  <2>1. d + k - 1 \in Addr /\ u + k - 1 \in Addr /\ u + k - 1 \notin d .. d + (k - 1) - 1
    BY <1>0 DEF Addr, Apart
  <2>2. C(k - 1)[u + k - 1] = m[u + k - 1]
    BY <2>1 DEF Copied
  <2>3. \A a \in Addr : C(k)[a] = IF a = d + k - 1 THEN m[u + k - 1] ELSE C(k - 1)[a]
    <3> TAKE a \in Addr
    <3>1. a \in Int
      BY <1>0 DEF Addr
    <3>2. CASE a = d + k - 1
      <4>1. a \in d .. d + k - 1 /\ a - d + u = u + k - 1
        BY <3>1, <3>2
      <4> QED BY <4>1, <3>2 DEF Copied
    <3>3. CASE a # d + k - 1
      <4>1. a \in d .. d + k - 1 <=> a \in d .. d + (k - 1) - 1
        BY <3>1, <3>3
      <4> QED BY <4>1, <3>3 DEF Copied
    <3> QED BY <3>2, <3>3
  <2>4. C(k) = [a \in Addr |-> C(k)[a]] /\ C(k - 1) = [a \in Addr |-> C(k - 1)[a]]
    BY DEF Copied
  <2> HIDE DEF C
  <2> QED BY <2>2, <2>3, <2>4
<1> HIDE DEF C
<1>3. \E g : g = [k \in 0 .. n |-> IF k = 0 THEN m ELSE [g[k - 1] EXCEPT ![d + k - 1] = g[k - 1][u + k - 1]]]
  <2> DEFINE g == [k \in 0 .. n |-> C(k)]
  <2>1. \A k \in 0 .. n : g[k] = IF k = 0 THEN m ELSE [g[k - 1] EXCEPT ![d + k - 1] = g[k - 1][u + k - 1]]
    <3> TAKE k \in 0 .. n
    <3>1. CASE k = 0
      BY <3>1, <1>1
    <3>2. CASE k # 0
      <4>1. k \in 1 .. n /\ k - 1 \in 0 .. n
        BY <3>2
      <4>2. g[k] = C(k) /\ g[k - 1] = C(k - 1)
        BY <4>1
      <4> HIDE DEF g
      <4> QED BY <4>1, <4>2, <3>2, <1>2
    <3> QED BY <3>1, <3>2
  <2>2. g = [k \in 0 .. n |-> g[k]]
    OBVIOUS
  <2> HIDE DEF g
  <2>3. g = [k \in 0 .. n |-> IF k = 0 THEN m ELSE [g[k - 1] EXCEPT ![d + k - 1] = g[k - 1][u + k - 1]]]
    BY <2>1, <2>2
  <2> QED BY <2>3
<1>4. f = [k \in 0 .. n |-> IF k = 0 THEN m ELSE [f[k - 1] EXCEPT ![d + k - 1] = f[k - 1][u + k - 1]]]
  BY <1>3
<1>5. CopyUp(m, d, u, n) = f[n]
  BY DEF CopyUp
<1> HIDE DEF f
<1>6. \A k \in 0 .. n : f[k] = IF k = 0 THEN m ELSE [f[k - 1] EXCEPT ![d + k - 1] = f[k - 1][u + k - 1]]
  BY <1>4
<1> DEFINE Bad == {k \in 0 .. n : f[k] # C(k)}
<1>7. Bad = {}
  <2> SUFFICES ASSUME Bad # {} PROVE FALSE
    OBVIOUS
  <2>1. PICK k \in Bad : \A j \in Bad : k <= j
    <3>1. Bad \in SUBSET Nat
      OBVIOUS
    <3> QED BY <3>1, Smallest
  <2>2. k # 0
    BY <2>1, <1>6, <1>1
  <2>3. k - 1 \in 0 .. n /\ k - 1 \notin Bad /\ k \in 1 .. n
    BY <2>1, <2>2
  <2>4. f[k - 1] = C(k - 1)
    BY <2>3
  <2>5. f[k] = [f[k - 1] EXCEPT ![d + k - 1] = f[k - 1][u + k - 1]]
    BY <1>6, <2>2, <2>1
  <2>6. f[k] = C(k)
    BY <2>3, <2>4, <2>5, <1>2
  <2> QED BY <2>1, <2>6
<1>8. f[n] = C(n)
  BY <1>7
<1> QED BY <1>5, <1>8 DEF C

\* Copying downwards does so when the bytes go up.
LEMMA CopyDownIs ==
    ASSUME NEW m \in Memory, NEW d \in Int, NEW u \in Int, NEW n \in Nat,
           0 <= d, 0 <= u, d + n <= Cells, u + n <= Cells, u <= d
    PROVE  CopyDown(m, d, u, n) = Copied(m, d, u, d, d + n)
<1> DEFINE f == CHOOSE g : g = [k \in 0 .. n |-> IF k = 0 THEN m ELSE [g[k - 1] EXCEPT ![d + n - k] = g[k - 1][u + n - k]]]
           C(k) == Copied(m, d, u, d + n - k, d + n)
<1>0. Cells \in Nat \ {0}
  BY StringAssumption
<1>1. C(0) = m
  BY DEF Copied, Memory, Addr
<1>2. \A k \in 1 .. n : C(k) = [C(k - 1) EXCEPT ![d + n - k] = C(k - 1)[u + n - k]]
  <2> TAKE k \in 1 .. n
  <2>1. d + n - k \in Addr /\ u + n - k \in Addr /\ u + n - k \notin d + n - (k - 1) .. d + n - 1
    BY <1>0 DEF Addr
  <2>2. C(k - 1)[u + n - k] = m[u + n - k]
    BY <2>1 DEF Copied
  <2>3. \A a \in Addr : C(k)[a] = IF a = d + n - k THEN m[u + n - k] ELSE C(k - 1)[a]
    <3> TAKE a \in Addr
    <3>1. a \in Int
      BY <1>0 DEF Addr
    <3>2. CASE a = d + n - k
      <4>1. a \in d + n - k .. d + n - 1 /\ a - d + u = u + n - k
        BY <3>1, <3>2
      <4> QED BY <4>1, <3>2 DEF Copied
    <3>3. CASE a # d + n - k
      <4>1. a \in d + n - k .. d + n - 1 <=> a \in d + n - (k - 1) .. d + n - 1
        BY <3>1, <3>3
      <4> QED BY <4>1, <3>3 DEF Copied
    <3> QED BY <3>2, <3>3
  <2>4. C(k) = [a \in Addr |-> C(k)[a]] /\ C(k - 1) = [a \in Addr |-> C(k - 1)[a]]
    BY DEF Copied
  <2> HIDE DEF C
  <2> QED BY <2>2, <2>3, <2>4
<1> HIDE DEF C
<1>3. \E g : g = [k \in 0 .. n |-> IF k = 0 THEN m ELSE [g[k - 1] EXCEPT ![d + n - k] = g[k - 1][u + n - k]]]
  <2> DEFINE g == [k \in 0 .. n |-> C(k)]
  <2>1. \A k \in 0 .. n : g[k] = IF k = 0 THEN m ELSE [g[k - 1] EXCEPT ![d + n - k] = g[k - 1][u + n - k]]
    <3> TAKE k \in 0 .. n
    <3>1. CASE k = 0
      BY <3>1, <1>1
    <3>2. CASE k # 0
      <4>1. k \in 1 .. n /\ k - 1 \in 0 .. n
        BY <3>2
      <4>2. g[k] = C(k) /\ g[k - 1] = C(k - 1)
        BY <4>1
      <4> HIDE DEF g
      <4> QED BY <4>1, <4>2, <3>2, <1>2
    <3> QED BY <3>1, <3>2
  <2>2. g = [k \in 0 .. n |-> g[k]]
    OBVIOUS
  <2> HIDE DEF g
  <2>3. g = [k \in 0 .. n |-> IF k = 0 THEN m ELSE [g[k - 1] EXCEPT ![d + n - k] = g[k - 1][u + n - k]]]
    BY <2>1, <2>2
  <2> QED BY <2>3
<1>4. f = [k \in 0 .. n |-> IF k = 0 THEN m ELSE [f[k - 1] EXCEPT ![d + n - k] = f[k - 1][u + n - k]]]
  BY <1>3
<1>5. CopyDown(m, d, u, n) = f[n]
  BY DEF CopyDown
<1> HIDE DEF f
<1>6. \A k \in 0 .. n : f[k] = IF k = 0 THEN m ELSE [f[k - 1] EXCEPT ![d + n - k] = f[k - 1][u + n - k]]
  BY <1>4
<1> DEFINE Bad == {k \in 0 .. n : f[k] # C(k)}
<1>7. Bad = {}
  <2> SUFFICES ASSUME Bad # {} PROVE FALSE
    OBVIOUS
  <2>1. PICK k \in Bad : \A j \in Bad : k <= j
    <3>1. Bad \in SUBSET Nat
      OBVIOUS
    <3> QED BY <3>1, Smallest
  <2>2. k # 0
    BY <2>1, <1>6, <1>1
  <2>3. k - 1 \in 0 .. n /\ k - 1 \notin Bad /\ k \in 1 .. n
    BY <2>1, <2>2
  <2>4. f[k - 1] = C(k - 1)
    BY <2>3
  <2>5. f[k] = [f[k - 1] EXCEPT ![d + n - k] = f[k - 1][u + n - k]]
    BY <1>6, <2>2, <2>1
  <2>6. f[k] = C(k)
    BY <2>3, <2>4, <2>5, <1>2
  <2> QED BY <2>1, <2>6
<1>8. f[n] = C(n) /\ d + n - n = d
  BY <1>7
<1> QED BY <1>5, <1>8 DEF C

\* What is copied are bytes.
LEMMA CopiedType ==
    ASSUME NEW m \in Memory, NEW d \in Int, NEW u \in Int, NEW n \in Nat,
           0 <= d, 0 <= u, d + n <= Cells, u + n <= Cells
    PROVE  Copied(m, d, u, d, d + n) \in Memory
<1> SUFFICES ASSUME NEW a \in Addr, a \in d .. d + n - 1 PROVE m[a - d + u] \in Byte
  BY DEF Copied, Memory
<1>1. a - d + u \in Addr
  BY StringAssumption DEF Addr
<1> QED BY <1>1 DEF Memory

-----------------------------------------------------------------------------
(* Texts                                                                   *)

EndsAt(m, u, e) == /\ e \in u .. Cells - 1
                   /\ m[e] = 0
                   /\ \A j \in u .. e - 1 : m[j] # 0

\* strlen counts the bytes before the first NUL.
LEMMA StrlenIs ==
    ASSUME NEW m \in Memory, NEW u \in Addr, \E k \in u .. Cells - 1 : m[k] = 0
    PROVE  strlen(m, u) \in Nat /\ EndsAt(m, u, u + strlen(m, u))
<1> DEFINE e == Scan(u, Cells, Ends(m))
<1>0. Cells \in Nat \ {0} /\ u \in Int /\ u <= Cells /\ 0 <= u
  BY StringAssumption DEF Addr
<1>1. First(e, u, Cells, Ends(m))
  BY <1>0, ScanIsFirst
<1>2. PICK k \in u .. Cells - 1 : m[k] = 0
  OBVIOUS
<1>3. strlen(m, u) = e - u
  BY DEF strlen
<1> HIDE DEF e
<1>4. k \in Ends(m)
  BY <1>0, <1>2 DEF Ends, Addr
<1>5. e # Cells /\ e \in u .. Cells
  BY <1>0, <1>1, <1>2, <1>4 DEF First
<1>6. \A j \in u .. e - 1 : j \in Addr /\ j \notin Ends(m)
  BY <1>0, <1>1, <1>5 DEF First, Addr
<1>7. m[e] = 0
  BY <1>1, <1>5 DEF First, Ends
<1>8. \A j \in u .. e - 1 : m[j] # 0
  BY <1>6 DEF Ends
<1>9. u + (e - u) = e /\ e - u \in Nat /\ e \in u .. Cells - 1
  BY <1>0, <1>5
<1> QED BY <1>3, <1>7, <1>8, <1>9 DEF EndsAt

\* A text has one end.
LEMMA EndUnique ==
    ASSUME NEW m \in Memory, NEW u \in Addr, NEW e, NEW f, EndsAt(m, u, e), EndsAt(m, u, f)
    PROVE  e = f
<1>0. Cells \in Nat \ {0} /\ u \in Int
  BY StringAssumption DEF Addr
<1> QED BY <1>0 DEF EndsAt

\* A text is the bytes up to its end.
LEMMA TextIs ==
    ASSUME NEW m \in Memory, NEW u \in Addr, NEW e, EndsAt(m, u, e)
    PROVE  /\ Text(m, u) = [k \in 1 .. e - u |-> m[u + k - 1]]
           /\ Len(Text(m, u)) = e - u /\ e - u \in Nat
           /\ strlen(m, u) = e - u
           /\ Text(m, u) \in Seq(Byte)
<1>0. Cells \in Nat \ {0} /\ u \in Int /\ 0 <= u
  BY StringAssumption DEF Addr
<1> DEFINE x == CHOOSE k \in u .. Cells - 1 : m[k] = 0 /\ \A j \in u .. k - 1 : m[j] # 0
<1>1. EndsAt(m, u, x)
  <2>1. \E k \in u .. Cells - 1 : m[k] = 0 /\ \A j \in u .. k - 1 : m[j] # 0
    BY DEF EndsAt
  <2> QED BY <2>1 DEF EndsAt
<1>2. x = e
  BY <1>1, EndUnique
<1>3. Text(m, u) = [k \in 1 .. e - u |-> m[u + k - 1]]
  BY <1>2 DEF Text
<1>4. e - u \in Nat
  BY <1>0 DEF EndsAt
<1>5. \A k \in 1 .. e - u : m[u + k - 1] \in Byte
  <2> TAKE k \in 1 .. e - u
  <2>1. u + k - 1 \in Addr
    BY <1>0 DEF EndsAt, Addr
  <2> QED BY <2>1 DEF Memory
<1>6. Text(m, u) \in Seq(Byte) /\ Len(Text(m, u)) = e - u
  BY <1>3, <1>4, <1>5
<1>7. strlen(m, u) = e - u
  <2>1. \E k \in u .. Cells - 1 : m[k] = 0
    BY DEF EndsAt
  <2>2. strlen(m, u) \in Nat /\ EndsAt(m, u, u + strlen(m, u))
    BY <2>1, StrlenIs
  <2>3. u + strlen(m, u) = e
    BY <2>2, EndUnique
  <2> QED BY <2>2, <2>3, <1>0
<1> QED BY <1>3, <1>4, <1>6, <1>7

\* The first n bytes at u, or fewer: they end behind l of them.
CutsAt(m, u, n, l) == /\ l \in 0 .. n
                      /\ \A j \in 0 .. l - 1 : m[u + j] # 0
                      /\ l # n => m[u + l] = 0

\* strnlen stops at the end of the text or after n bytes.
LEMMA StrnlenIs ==
    ASSUME NEW m \in Memory, NEW u \in Addr, NEW n \in Room(u)
    PROVE  CutsAt(m, u, n, strnlen(m, u, n))
<1> DEFINE e == Scan(u, u + n, Ends(m))
<1>0. Cells \in Nat \ {0} /\ u \in Int /\ 0 <= u /\ n \in Nat /\ u + n <= Cells
  BY StringAssumption DEF Addr, Room
<1>1. First(e, u, u + n, Ends(m))
  BY <1>0, ScanIsFirst
<1>2. strnlen(m, u, n) = e - u
  BY DEF strnlen
<1> HIDE DEF e
<1>3. e \in u .. u + n /\ e - u \in 0 .. n
  BY <1>0, <1>1 DEF First
<1>4. \A j \in 0 .. e - u - 1 : u + j \in Addr /\ u + j \notin Ends(m)
  <2> TAKE j \in 0 .. e - u - 1
  <2>1. u + j \in u .. e - 1 /\ u + j \in Addr
    BY <1>0, <1>3 DEF Addr
  <2> QED BY <2>1, <1>1 DEF First
<1>5. e - u # n => m[u + (e - u)] = 0
  <2>1. e - u # n => e # u + n /\ u + (e - u) = e
    BY <1>0, <1>3
  <2> QED BY <2>1, <1>1 DEF First, Ends
<1> QED BY <1>2, <1>3, <1>4, <1>5 DEF CutsAt, Ends

\* Cut is the bytes strnlen counts.
LEMMA CutIs ==
    ASSUME NEW m \in Memory, NEW u \in Addr, NEW n \in Room(u), NEW l, CutsAt(m, u, n, l)
    PROVE  /\ Cut(m, u, n) = [k \in 1 .. l |-> m[u + k - 1]]
           /\ Len(Cut(m, u, n)) = l /\ l \in Nat
           /\ Cut(m, u, n) \in Seq(Byte)
           /\ strnlen(m, u, n) = l
<1>0. Cells \in Nat \ {0} /\ u \in Int /\ 0 <= u /\ n \in Nat /\ u + n <= Cells /\ l \in Nat /\ l <= n
  BY StringAssumption DEF Addr, Room, CutsAt
<1> DEFINE stop == {k \in 0 .. n - 1 : m[u + k] = 0}
           least == CHOOSE k \in stop : \A j \in stop : k <= j
<1>1. l = IF stop = {} THEN n ELSE least
  <2>1. CASE l = n
    BY <2>1, <1>0 DEF CutsAt
  <2>2. CASE l # n
    <3>1. l \in stop
      BY <2>2, <1>0 DEF CutsAt
    <3>2. \A j \in stop : l <= j
      BY <1>0 DEF CutsAt
    <3>3. least \in stop /\ \A j \in stop : least <= j
      BY <3>1, <3>2
    <3>4. least = l
      BY <3>1, <3>2, <3>3, <1>0
    <3> QED BY <3>1, <3>4
  <2> QED BY <2>1, <2>2
<1>2. Cut(m, u, n) = [k \in 1 .. l |-> m[u + k - 1]]
  BY <1>1 DEF Cut, Row
<1>3. \A k \in 1 .. l : m[u + k - 1] \in Byte
  <2> TAKE k \in 1 .. l
  <2>1. u + k - 1 \in Addr
    BY <1>0 DEF Addr
  <2> QED BY <2>1 DEF Memory
<1>4. Cut(m, u, n) \in Seq(Byte) /\ Len(Cut(m, u, n)) = l
  BY <1>2, <1>3, <1>0
<1>5. strnlen(m, u, n) = l
  <2>1. CutsAt(m, u, n, strnlen(m, u, n))
    BY StrnlenIs
  <2> QED BY <2>1, <1>0 DEF CutsAt
<1> QED BY <1>2, <1>4, <1>5, <1>0

\* Two rows of bytes are equal but for F when every byte is, up to a NUL in both.
Alike(m, u, t, n, F) ==
    \A k \in 0 .. n - 1 : (\A j \in 0 .. k - 1 : m[u + j] # 0)
                              => /\ m[u + k] = 0 <=> m[t + k] = 0
                                 /\ F[m[u + k]] = F[m[t + k]]
Through(F, x) == [k \in DOMAIN x |-> F[x[k]]]

\* Two texts cut at n are alike, through F, if the loops over them find no difference.
LEMMA CutsAlike ==
    ASSUME NEW m \in Memory, NEW u \in Addr, NEW t \in Addr, NEW n \in Room(u) \cap Room(t), NEW F
    PROVE  Through(F, Cut(m, u, n)) = Through(F, Cut(m, t, n)) <=> Alike(m, u, t, n, F)
<1> DEFINE a == strnlen(m, u, n)
           b == strnlen(m, t, n)
<1>0. n \in Nat /\ u \in Int /\ t \in Int
  BY StringAssumption DEF Addr, Room
<1>1. CutsAt(m, u, n, a) /\ CutsAt(m, t, n, b)
  BY StrnlenIs
<1> HIDE DEF a, b
<1>2. /\ Cut(m, u, n) = [k \in 1 .. a |-> m[u + k - 1]]
      /\ Cut(m, t, n) = [k \in 1 .. b |-> m[t + k - 1]]
  BY <1>1, CutIs
<1>3. a \in Nat /\ b \in Nat /\ a <= n /\ b <= n
  BY <1>0, <1>1 DEF CutsAt
<1> DEFINE X == Through(F, Cut(m, u, n))
           Y == Through(F, Cut(m, t, n))
<1>4. /\ X = [k \in 1 .. a |-> F[m[u + k - 1]]]
      /\ Y = [k \in 1 .. b |-> F[m[t + k - 1]]]
  BY <1>2 DEF Through
<1> HIDE DEF X, Y
<1>5. ASSUME X = Y PROVE Alike(m, u, t, n, F)
  <2>1. a = b
    <3>1. DOMAIN X = 1 .. a /\ DOMAIN Y = 1 .. b
      BY <1>4
    <3>2. 1 .. a = 1 .. b
      BY <3>1, <1>5
    <3>3. (a > 0 => a \in 1 .. b) /\ (b > 0 => b \in 1 .. a)
      BY <3>2, <1>3
    <3> QED BY <3>3, <1>3
  <2> SUFFICES ASSUME NEW k \in 0 .. n - 1, \A j \in 0 .. k - 1 : m[u + j] # 0
               PROVE  (m[u + k] = 0 <=> m[t + k] = 0) /\ F[m[u + k]] = F[m[t + k]]
    BY DEF Alike
  <2>2. k <= a
    <3> SUFFICES ASSUME a < k PROVE FALSE
      BY <1>3
    <3>1. a \in 0 .. k - 1 /\ a # n
      BY <1>3
    <3> QED BY <3>1, <1>1 DEF CutsAt
  <2>3. CASE k = a
    <3>1. m[u + k] = 0 /\ m[t + k] = 0
      BY <2>3, <2>1, <1>1, <1>3, <1>0 DEF CutsAt
    <3> QED BY <3>1
  <2>4. CASE k # a
    <3>1. k \in 0 .. a - 1 /\ k + 1 \in 1 .. a /\ u + (k + 1) - 1 = u + k /\ t + (k + 1) - 1 = t + k
      BY <2>2, <2>4, <1>0, <1>3
    <3>2. m[u + k] # 0 /\ m[t + k] # 0
      BY <3>1, <2>1, <1>1 DEF CutsAt
    <3>3. X[k + 1] = F[m[u + k]]
      BY <3>1, <1>4
    <3>4. Y[k + 1] = F[m[t + k]]
      BY <3>1, <1>4, <2>1
    <3> QED BY <3>2, <3>3, <3>4, <1>5
  <2> QED BY <2>3, <2>4
<1>6. ASSUME Alike(m, u, t, n, F) PROVE X = Y
  <2>1. \A k \in 0 .. a - 1 : m[t + k] # 0 /\ F[m[u + k]] = F[m[t + k]]
    <3> TAKE k \in 0 .. a - 1
    <3>1. k \in 0 .. n - 1 /\ m[u + k] # 0
      BY <1>1, <1>3, <1>0 DEF CutsAt
    <3>2. \A j \in 0 .. k - 1 : m[u + j] # 0
      <4>1. \A j \in 0 .. k - 1 : j \in 0 .. a - 1
        BY <1>3
      <4> QED BY <4>1, <1>1 DEF CutsAt
    <3> QED BY <3>1, <3>2, <1>6 DEF Alike
  <2>2. a # n => m[t + a] = 0
    <3> SUFFICES ASSUME a # n PROVE m[t + a] = 0
      OBVIOUS
    <3>1. a \in 0 .. n - 1 /\ m[u + a] = 0 /\ \A j \in 0 .. a - 1 : m[u + j] # 0
      BY <1>1, <1>3, <1>0 DEF CutsAt
    <3> QED BY <3>1, <1>6 DEF Alike
  <2>3. CutsAt(m, t, n, a)
    BY <2>1, <2>2, <1>1 DEF CutsAt
  <2>4. a = b
    <3>1. strnlen(m, t, n) = a
      BY <2>3, CutIs
    <3> QED BY <3>1 DEF b
  <2>5. \A k \in 1 .. a : F[m[u + k - 1]] = F[m[t + k - 1]]
    <3> TAKE k \in 1 .. a
    <3>1. k - 1 \in 0 .. a - 1 /\ u + (k - 1) = u + k - 1 /\ t + (k - 1) = t + k - 1
      BY <1>0, <1>3
    <3> QED BY <3>1, <2>1
  <2> QED BY <1>4, <2>4, <2>5
<1> QED BY <1>5, <1>6 DEF X, Y

Same == [b \in Byte |-> b]
\* Nothing is changed by the function that changes nothing.
LEMMA ThroughSame == ASSUME NEW x \in Seq(Byte) PROVE Through(Same, x) = x
<1>1. \A k \in DOMAIN x : Same[x[k]] = x[k]
  BY DEF Same
<1> QED BY <1>1 DEF Through

\* What is left of a number not far from the range
LEMMA ResWrapped ==
    ASSUME NEW z \in Int, NEW b \in Nat \ {0}, -b <= z, z < 2 * b
    PROVE  z % b = IF z < 0 THEN z + b ELSE IF z < b THEN z ELSE z - b
<1>1. CASE z < 0
  BY <1>1, SMT
<1>2. CASE z >= b
  BY <1>2, SMT
<1>3. CASE 0 <= z /\ z < b
  BY <1>3, SMT
<1> QED BY <1>1, <1>2, <1>3

\* A signed char tells whether two bytes differ.
LEMMA ResDiffers == ASSUME NEW x \in Byte, NEW y \in Byte PROVE Res(x - y) = 0 <=> x = y
<1> DEFINE h == Bytes \div 2
           z == x - y + h
<1>0. Bytes \in Nat \ {0} /\ x \in 0 .. Bytes - 1 /\ y \in 0 .. Bytes - 1
  BY StringAssumption DEF Byte
<1>1. h \in 0 .. Bytes - 1 /\ 2 * h <= Bytes
  BY <1>0
<1>2. Res(x - y) = (z % Bytes) - h
  BY DEF Res
<1> HIDE DEF h
<1>3. z \in Int /\ -Bytes <= z /\ z < 2 * Bytes
  BY <1>0, <1>1
<1>4. z % Bytes = IF z < 0 THEN z + Bytes ELSE IF z < Bytes THEN z ELSE z - Bytes
  BY <1>0, <1>3, ResWrapped
<1> QED BY <1>0, <1>1, <1>2, <1>4

-----------------------------------------------------------------------------
(* Comparisons                                                             *)

\* u is a text in m.
IsText(m, u) == u \in Addr /\ \E k \in u .. Cells - 1 : m[k] = 0

\* What lies in an area that has room are bytes.
LEMMA BytesOf ==
    ASSUME NEW m \in Memory, NEW u \in Addr, NEW n \in Room(u)
    PROVE  n \in Nat /\ u \in Nat /\ \A j \in 0 .. n - 1 : u + j \in Addr /\ m[u + j] \in Byte
<1>1. Cells \in Nat \ {0} /\ u \in Nat /\ n \in Nat /\ u + n <= Cells
  BY StringAssumption DEF Addr, Room
<1>2. \A j \in 0 .. n - 1 : u + j \in Addr
  BY <1>1 DEF Addr
<1> QED BY <1>1, <1>2 DEF Memory

\* strncmp says 0 exactly for texts that agree up to n.
LEMMA StrncmpIs ==
    ASSUME NEW m \in Memory, NEW u \in Addr, NEW t \in Addr, NEW n \in Room(u) \cap Room(t)
    PROVE  strncmp(m, u, t, n) = 0 <=> Cut(m, u, n) = Cut(m, t, n)
<1> DEFINE stops == {j \in 0 .. n - 1 : Res(m[u + j] - m[t + j]) # 0 \/ m[u + j] = 0}
           k == Scan(0, n, stops)
<1>0. n \in Nat /\ \A j \in 0 .. n - 1 : m[u + j] \in Byte /\ m[t + j] \in Byte
  BY BytesOf
<1>1. First(k, 0, n, stops)
  BY <1>0, ScanIsFirst
<1>2. strncmp(m, u, t, n) = IF k = n THEN 0 ELSE Res(m[u + k] - m[t + k])
  BY DEF strncmp
<1>3. \A j \in 0 .. n - 1 : j \in stops <=> m[u + j] # m[t + j] \/ m[u + j] = 0
  BY <1>0, ResDiffers
<1> HIDE DEF stops, k
<1>4. k \in 0 .. n /\ \A j \in 0 .. k - 1 : j \in 0 .. n - 1 /\ m[u + j] = m[t + j] /\ m[u + j] # 0
  BY <1>0, <1>1, <1>3 DEF First
<1>5. Alike(m, u, t, n, Same) <=> k = n \/ m[u + k] = m[t + k]
  <2>1. ASSUME Alike(m, u, t, n, Same), k # n PROVE m[u + k] = m[t + k]
    <3>1. k \in 0 .. n - 1
      BY <1>4, <2>1, <1>0
    <3>2. Same[m[u + k]] = Same[m[t + k]]
      BY <3>1, <2>1, <1>4 DEF Alike
    <3> QED BY <3>1, <3>2, <1>0 DEF Same
  <2>2. ASSUME k = n \/ m[u + k] = m[t + k] PROVE Alike(m, u, t, n, Same)
    <3> SUFFICES ASSUME NEW z \in 0 .. n - 1, \A j \in 0 .. z - 1 : m[u + j] # 0
                 PROVE  m[u + z] = m[t + z]
      BY DEF Alike
    <3>1. CASE z < k
      BY <3>1, <1>4
    <3>2. CASE z = k
      BY <3>2, <2>2, <1>4
    <3>3. CASE z > k
      <4>1. k \in 0 .. n - 1 /\ k \in 0 .. z - 1 /\ k # n
        BY <3>3, <1>4, <1>0
      <4>2. k \in stops
        BY <4>1, <1>1 DEF First
      <4> QED BY <4>1, <4>2, <1>3, <2>2
    <3> QED BY <3>1, <3>2, <3>3, <1>4
  <2> QED BY <2>1, <2>2
<1>6. k # n => (Res(m[u + k] - m[t + k]) = 0 <=> m[u + k] = m[t + k])
  <2>1. k # n => k \in 0 .. n - 1
    BY <1>4, <1>0
  <2> QED BY <2>1, <1>0, ResDiffers
<1>7. Alike(m, u, t, n, Same) <=> Cut(m, u, n) = Cut(m, t, n)
  <2>1. Cut(m, u, n) \in Seq(Byte) /\ Cut(m, t, n) \in Seq(Byte)
    BY StrnlenIs, CutIs
  <2> QED BY <2>1, ThroughSame, CutsAlike
<1> QED BY <1>2, <1>5, <1>6, <1>7

\* strnicmp says 0 exactly for texts that agree up to n in lower case.
LEMMA StrnicmpIs ==
    ASSUME NEW m \in Memory, NEW u \in Addr, NEW t \in Addr, NEW n \in Room(u) \cap Room(t)
    PROVE  strnicmp(m, u, t, n) = 0 <=> Fold(Cut(m, u, n)) = Fold(Cut(m, t, n))
<1> DEFINE Over(j) == m[u + j] = 0 \/ m[t + j] = 0
           Diff(j) == Lower[m[u + j]] - Lower[m[t + j]]
           stops == {j \in 0 .. n - 1 : Over(j) \/ Diff(j) # 0}
           k == Scan(0, n, stops)
<1>0. /\ n \in Nat
      /\ \A j \in 0 .. n - 1 : m[u + j] \in Byte /\ m[t + j] \in Byte
      /\ \A b \in Byte : b \in Int /\ Lower[b] \in Int
  <2>1. \A b \in Byte : b \in Int /\ Lower[b] \in Int
    BY StringAssumption DEF Byte
  <2> QED BY <2>1, BytesOf
<1>1. First(k, 0, n, stops)
  BY <1>0, ScanIsFirst
<1>2. strnicmp(m, u, t, n) = IF k = n THEN 0 ELSE IF Over(k) THEN m[u + k] - m[t + k] ELSE Diff(k)
  BY DEF strnicmp
<1>3. \A j \in 0 .. n - 1 : j \in stops <=> Over(j) \/ Lower[m[u + j]] # Lower[m[t + j]]
  BY <1>0
<1>4. k \in 0 .. n /\ \A j \in 0 .. k - 1 : /\ j \in 0 .. n - 1
                                            /\ m[u + j] # 0 /\ m[t + j] # 0
                                            /\ Lower[m[u + j]] = Lower[m[t + j]]
  <2> HIDE DEF stops, k
  <2>1. k \in 0 .. n /\ \A j \in 0 .. k - 1 : j \in 0 .. n - 1 /\ j \notin stops
    BY <1>0, <1>1 DEF First
  <2> QED BY <2>1, <1>3
<1>5. k # n => k \in 0 .. n - 1 /\ k \in stops
  BY <1>4, <1>1 DEF First
<1> HIDE DEF stops, k
<1> DEFINE Agree == (m[u + k] = 0 <=> m[t + k] = 0) /\ Lower[m[u + k]] = Lower[m[t + k]]
<1>6. Alike(m, u, t, n, Lower) <=> k = n \/ Agree
  <2>1. ASSUME Alike(m, u, t, n, Lower), k # n PROVE Agree
    BY <1>5, <2>1, <1>4 DEF Alike
  <2>2. ASSUME k = n \/ Agree PROVE Alike(m, u, t, n, Lower)
    <3> SUFFICES ASSUME NEW z \in 0 .. n - 1, \A j \in 0 .. z - 1 : m[u + j] # 0
                 PROVE  (m[u + z] = 0 <=> m[t + z] = 0) /\ Lower[m[u + z]] = Lower[m[t + z]]
      BY DEF Alike
    <3>1. CASE z < k
      BY <3>1, <1>4
    <3>2. CASE z = k
      BY <3>2, <2>2, <1>4
    <3>3. CASE z > k
      <4>1. k \in 0 .. n - 1 /\ k \in 0 .. z - 1 /\ k # n
        BY <3>3, <1>4, <1>0
      <4> QED BY <4>1, <1>5, <1>3, <2>2
    <3> QED BY <3>1, <3>2, <3>3, <1>4
  <2> QED BY <2>1, <2>2
<1>7. k # n => ((IF Over(k) THEN m[u + k] - m[t + k] ELSE Diff(k)) = 0 <=> Agree)
  <2> SUFFICES ASSUME k # n
               PROVE  (IF Over(k) THEN m[u + k] - m[t + k] ELSE Diff(k)) = 0 <=> Agree
    OBVIOUS
  <2>1. m[u + k] \in Int /\ m[t + k] \in Int /\ Lower[m[u + k]] \in Int /\ Lower[m[t + k]] \in Int
    BY <1>5, <1>0
  <2>2. Over(k) \/ Lower[m[u + k]] # Lower[m[t + k]]
    BY <1>5, <1>3
  <2> QED BY <2>1, <2>2
<1>8. Alike(m, u, t, n, Lower) <=> Fold(Cut(m, u, n)) = Fold(Cut(m, t, n))
  BY CutsAlike DEF Through, Fold
<1> QED BY <1>2, <1>6, <1>7, <1>8

\* Two areas are equal if they are byte by byte.
LEMMA RowsEqual ==
    ASSUME NEW m, NEW p, NEW u \in Int, NEW t \in Int, NEW n \in Nat
    PROVE  Row(m, u, n) = Row(p, t, n) <=> \A j \in 0 .. n - 1 : m[u + j] = p[t + j]
<1>1. ASSUME Row(m, u, n) = Row(p, t, n), NEW j \in 0 .. n - 1 PROVE m[u + j] = p[t + j]
  <2>1. j + 1 \in 1 .. n /\ u + (j + 1) - 1 = u + j /\ t + (j + 1) - 1 = t + j
    OBVIOUS
  <2>2. Row(m, u, n)[j + 1] = m[u + j] /\ Row(p, t, n)[j + 1] = p[t + j]
    BY <2>1 DEF Row
  <2> QED BY <2>2, <1>1
<1>2. ASSUME \A j \in 0 .. n - 1 : m[u + j] = p[t + j] PROVE Row(m, u, n) = Row(p, t, n)
  <2>1. ASSUME NEW k \in 1 .. n PROVE m[u + k - 1] = p[t + k - 1]
    <3>1. k - 1 \in 0 .. n - 1 /\ u + (k - 1) = u + k - 1 /\ t + (k - 1) = t + k - 1
      OBVIOUS
    <3> QED BY <3>1, <1>2
  <2> QED BY <2>1 DEF Row
<1> QED BY <1>1, <1>2

\* memcmp says 0 exactly for equal areas.
LEMMA MemcmpIs ==
    ASSUME NEW m \in Memory, NEW u \in Addr, NEW t \in Addr, NEW n \in Room(u) \cap Room(t)
    PROVE  memcmp(m, u, t, n) = 0 <=> Row(m, u, n) = Row(m, t, n)
<1> DEFINE stops == {j \in 0 .. n - 1 : m[u + j] # m[t + j]}
           k == Scan(0, n, stops)
<1>0. /\ n \in Nat /\ u \in Int /\ t \in Int
      /\ \A j \in 0 .. n - 1 : m[u + j] \in Int /\ m[t + j] \in Int
  <2>1. \A b \in Byte : b \in Int
    BY StringAssumption DEF Byte
  <2> QED BY <2>1, BytesOf
<1>1. First(k, 0, n, stops)
  BY <1>0, ScanIsFirst
<1>2. memcmp(m, u, t, n) = IF k = n THEN 0 ELSE m[u + k] - m[t + k]
  BY DEF memcmp
<1> HIDE DEF k
<1>3. CASE k = n
  <2>1. \A j \in 0 .. n - 1 : m[u + j] = m[t + j]
    BY <1>1, <1>3 DEF First
  <2> QED BY <2>1, <1>0, <1>2, <1>3, RowsEqual
<1>4. CASE k # n
  <2>1. k \in 0 .. n - 1 /\ m[u + k] # m[t + k]
    BY <1>1, <1>4, <1>0 DEF First
  <2>2. m[u + k] - m[t + k] # 0
    BY <2>1, <1>0
  <2> QED BY <2>1, <2>2, <1>0, <1>2, <1>4, RowsEqual
<1> QED BY <1>3, <1>4

\* strcmp says 0 exactly for equal texts.
LEMMA StrcmpIs ==
    ASSUME NEW m \in Memory, NEW u, NEW t, IsText(m, u), IsText(m, t)
    PROVE  strcmp(m, u, t) = 0 <=> Text(m, u) = Text(m, t)
<1> DEFINE both == {j \in Addr : u + j \in Addr /\ t + j \in Addr}
           stops == {j \in both : Res(m[u + j] - m[t + j]) # 0 \/ m[u + j] = 0}
           k == Scan(0, Cells, stops)
           a == strlen(m, u)
           b == strlen(m, t)
<1>0. Cells \in Nat \ {0} /\ u \in Addr /\ t \in Addr /\ u \in Nat /\ t \in Nat
  BY StringAssumption DEF Addr, IsText
<1>1. First(k, 0, Cells, stops)
  BY <1>0, ScanIsFirst
<1>2. strcmp(m, u, t) = Res(m[u + k] - m[t + k])
  BY DEF strcmp
<1>3. \A j \in both : j \in stops <=> m[u + j] # m[t + j] \/ m[u + j] = 0
  BY ResDiffers DEF Memory
<1> HIDE DEF stops, k, a, b
<1>4. a \in Nat /\ b \in Nat /\ EndsAt(m, u, u + a) /\ EndsAt(m, t, t + b)
  BY StrlenIs DEF IsText, a, b
<1>5. /\ Text(m, u) = [z \in 1 .. a |-> m[u + z - 1]] /\ Len(Text(m, u)) = a
      /\ Text(m, t) = [z \in 1 .. b |-> m[t + z - 1]] /\ Len(Text(m, t)) = b
  <2>1. u + a - u = a /\ t + b - t = b
    BY <1>0, <1>4
  <2> QED BY <1>0, <1>4, <2>1, TextIs
<1> DEFINE l == IF a <= b THEN a ELSE b
<1>6. \A j \in 0 .. l : j \in both
  BY <1>0, <1>4 DEF EndsAt, Addr
<1>7. l \in stops
  <2>1. l \in both
    BY <1>4, <1>6
  <2>2. a <= b => m[u + l] = 0
    BY <1>4 DEF EndsAt
  <2>3. ~(a <= b) => m[t + l] = 0 /\ m[u + l] # 0
    <3> SUFFICES ASSUME b < a PROVE m[t + b] = 0 /\ m[u + b] # 0
      BY <1>4
    <3>1. u + b \in u .. (u + a) - 1
      BY <1>0, <1>4
    <3> QED BY <3>1, <1>4 DEF EndsAt
  <2> QED BY <2>1, <2>2, <2>3, <1>3
<1>8. k \in 0 .. l /\ k \in stops /\ k \in Nat
  <2>1. l \in 0 .. Cells - 1
    BY <1>6, <1>4 DEF Addr
  <2>2. k \in 0 .. Cells /\ ~(l < k)
    BY <1>1, <1>7, <2>1, <1>0 DEF First
  <2>3. k \in 0 .. l /\ k # Cells
    BY <2>1, <2>2
  <2> QED BY <2>3, <1>1, <2>2 DEF First
<1>9. \A j \in 0 .. k - 1 : m[u + j] = m[t + j]
  <2> TAKE j \in 0 .. k - 1
  <2>1. j \in both
    BY <1>6, <1>8, <1>4
  <2>2. j \notin stops
    BY <1>1 DEF First
  <2> QED BY <2>1, <2>2, <1>3
<1>10. m[u + k] \in Byte /\ m[t + k] \in Byte
  <2>1. k \in both
    BY <1>6, <1>8
  <2> QED BY <2>1 DEF Memory
<1>11. Res(m[u + k] - m[t + k]) = 0 <=> m[u + k] = m[t + k]
  BY <1>10, ResDiffers
<1>12. ASSUME m[u + k] = m[t + k] PROVE Text(m, u) = Text(m, t)
  <2>1. m[u + k] = 0
    BY <1>12, <1>8, <1>6, <1>3
  <2>2. a = k
    <3>1. ~(k < a)
      <4> SUFFICES ASSUME k < a PROVE FALSE
        OBVIOUS
      <4>1. u + k \in u .. (u + a) - 1
        BY <1>8, <1>0, <1>4
      <4> QED BY <4>1, <2>1, <1>4 DEF EndsAt
    <3> QED BY <3>1, <1>8, <1>4
  <2>3. b = k
    <3>1. ~(k < b)
      <4> SUFFICES ASSUME k < b PROVE FALSE
        OBVIOUS
      <4>1. t + k \in t .. (t + b) - 1
        BY <1>8, <1>0, <1>4
      <4> QED BY <4>1, <2>1, <1>12, <1>4 DEF EndsAt
    <3> QED BY <3>1, <1>8, <1>4
  <2>4. \A z \in 1 .. k : m[u + z - 1] = m[t + z - 1]
    <3> TAKE z \in 1 .. k
    <3>1. z - 1 \in 0 .. k - 1 /\ u + (z - 1) = u + z - 1 /\ t + (z - 1) = t + z - 1
      BY <1>0, <1>8
    <3> QED BY <3>1, <1>9
  <2> QED BY <2>2, <2>3, <2>4, <1>5
<1>13. ASSUME Text(m, u) = Text(m, t) PROVE m[u + k] = m[t + k]
  <2>1. a = b
    BY <1>5, <1>13
  <2>2. CASE k = a
    BY <2>1, <2>2, <1>4 DEF EndsAt
  <2>3. CASE k # a
    <3>1. k + 1 \in 1 .. a /\ k + 1 \in 1 .. b /\ u + (k + 1) - 1 = u + k /\ t + (k + 1) - 1 = t + k
      BY <2>1, <2>3, <1>8, <1>4, <1>0
    <3> QED BY <3>1, <1>5, <1>13
  <2> QED BY <2>2, <2>3
<1> QED BY <1>2, <1>11, <1>12, <1>13

-----------------------------------------------------------------------------
(* Searches                                                                *)

\* A least number of a set is its least, a greatest its greatest.
LEMMA LeastIs ==
    /\ \A S \in SUBSET Int : \A r \in S : (\A j \in S : r <= j) => Least(S) = r
    /\ \A S \in SUBSET Int : \A r \in S : (\A j \in S : r >= j) => Greatest(S) = r
    /\ Least({}) = Null /\ Greatest({}) = Null
<1>1. ASSUME NEW S \in SUBSET Int, NEW r \in S, \A j \in S : r <= j
      PROVE  Least(S) = r
  <2> DEFINE x == CHOOSE k \in S : \A j \in S : k <= j
  <2>1. x \in S /\ \A j \in S : x <= j
    BY <1>1
  <2> HIDE DEF x
  <2>2. x \in Int /\ r \in Int /\ x <= r /\ r <= x
    BY <2>1, <1>1
  <2>3. x = r
    BY <2>2
  <2> QED BY <2>3 DEF x, Least
<1>2. ASSUME NEW S \in SUBSET Int, NEW r \in S, \A j \in S : r >= j
      PROVE  Greatest(S) = r
  <2> DEFINE x == CHOOSE k \in S : \A j \in S : k >= j
  <2>1. x \in S /\ \A j \in S : x >= j
    BY <1>2
  <2> HIDE DEF x
  <2>2. x \in Int /\ r \in Int /\ x <= r /\ r <= x
    BY <2>1, <1>2
  <2>3. x = r
    BY <2>2
  <2> QED BY <2>3 DEF x, Greatest
<1> QED BY <1>1, <1>2 DEF Least, Greatest

\* The end of a text
LEMMA EndOfText ==
    ASSUME NEW m \in Memory, NEW u, IsText(m, u)
    PROVE  LET e == u + Len(Text(m, u))
           IN  /\ u \in Addr /\ u \in Nat /\ Cells \in Nat \ {0}
               /\ e \in Nat /\ u <= e /\ e < Cells /\ m[e] = 0
               /\ \A j \in u .. e - 1 : m[j] # 0
               /\ Len(Text(m, u)) \in Nat
               /\ Len(Text(m, u)) = strlen(m, u)
               /\ Text(m, u) = [k \in 1 .. strlen(m, u) |-> m[u + k - 1]]
               /\ \A j \in u .. e : j \in Addr
<1>0. Cells \in Nat \ {0} /\ u \in Addr /\ u \in Nat
  BY StringAssumption DEF Addr, IsText
<1>1. strlen(m, u) \in Nat /\ EndsAt(m, u, u + strlen(m, u))
  BY StrlenIs DEF IsText
<1>2. u + strlen(m, u) - u = strlen(m, u)
  BY <1>0, <1>1
<1>3. Len(Text(m, u)) = strlen(m, u) /\ Text(m, u) = [k \in 1 .. strlen(m, u) |-> m[u + k - 1]]
  BY <1>0, <1>1, <1>2, TextIs
<1>4. \A j \in u .. u + strlen(m, u) : j \in Addr
  BY <1>0, <1>1 DEF EndsAt, Addr
<1> QED BY <1>0, <1>1, <1>3, <1>4 DEF EndsAt

\* A loop over a text that stops in it, or at its end
LEMMA ScanText ==
    ASSUME NEW m \in Memory, NEW u, IsText(m, u), NEW stops, u + Len(Text(m, u)) \in stops
    PROVE  LET k == Scan(u, Cells, stops)
           IN  /\ k \in u .. u + Len(Text(m, u)) /\ k \in Addr /\ k \in stops
               /\ \A j \in u .. k - 1 : j \notin stops
<1> DEFINE e == u + Len(Text(m, u))
           k == Scan(u, Cells, stops)
<1>0. Cells \in Nat /\ u \in Nat /\ e \in Nat /\ u <= e /\ e < Cells /\ \A j \in u .. e : j \in Addr
  BY EndOfText
<1>1. First(k, u, Cells, stops)
  BY <1>0, ScanIsFirst
<1> HIDE DEF k, e
<1>2. ~(e < k)
  BY <1>0, <1>1 DEF First, e
<1>3. k \in u .. e /\ k # Cells
  BY <1>0, <1>1, <1>2 DEF First
<1>4. k \in Addr /\ k \in stops /\ \A j \in u .. k - 1 : j \notin stops
  BY <1>0, <1>1, <1>3 DEF First
<1> QED BY <1>3, <1>4 DEF k, e

\* strchr finds the first place of a byte, strrchr the last.
LEMMA StrchrIs ==
    ASSUME NEW m \in Memory, NEW u, IsText(m, u), NEW c
    PROVE  strchr(m, u, c) = Least({k \in u .. u + Len(Text(m, u)) : m[k] = c})
<1> DEFINE e == u + Len(Text(m, u))
           stops == {j \in Addr : m[j] = c} \cup Ends(m)
           k == Scan(u, Cells, stops)
           S == {j \in u .. e : m[j] = c}
<1>0. u \in Nat /\ e \in Nat /\ u <= e /\ m[e] = 0 /\ e \in Addr /\ \A j \in u .. e : j \in Addr
  BY EndOfText
<1>1. e \in stops
  BY <1>0 DEF Ends
<1>2. k \in u .. e /\ k \in stops /\ \A j \in u .. k - 1 : j \notin stops
  BY <1>1, ScanText
<1>3. strchr(m, u, c) = IF m[k] = c THEN k ELSE Null
  BY DEF strchr
<1> HIDE DEF k, e
<1>4. S \in SUBSET Int
  BY <1>0
<1>5. CASE m[k] = c
  <2>1. k \in S
    BY <1>2, <1>5
  <2>2. ASSUME NEW j \in S PROVE k <= j
    <3>1. ~(j < k)
      BY <1>0, <1>2, <2>2
    <3> QED BY <3>1, <1>2, <1>0
  <2> QED BY <2>1, <2>2, <1>3, <1>4, <1>5, LeastIs DEF e
<1>6. CASE m[k] # c
  <2>1. m[k] = 0
    BY <1>2, <1>6 DEF Ends
  <2>2. k = e
    BY <2>1, <1>2, <1>0, EndOfText DEF e
  <2>3. S = {}
    <3> SUFFICES ASSUME NEW j \in S PROVE FALSE
      OBVIOUS
    <3>1. j = e \/ j \in u .. k - 1
      BY <2>2, <1>0
    <3> QED BY <3>1, <2>2, <1>2, <1>6, <1>0
  <2> QED BY <2>3, <1>3, <1>6, LeastIs DEF e
<1> QED BY <1>5, <1>6

LEMMA StrrchrIs ==
    ASSUME NEW m \in Memory, NEW u, IsText(m, u), NEW c
    PROVE  strrchr(m, u, c) = Greatest({k \in u .. u + Len(Text(m, u)) : m[k] = c})
<1> DEFINE l == strlen(m, u)
           stops == {j \in 0 .. l : m[u + l - j] = c}
           back == Scan(0, l + 1, stops)
           S == {j \in u .. u + l : m[j] = c}
<1>0. u \in Nat /\ l \in Nat /\ l = Len(Text(m, u))
  BY EndOfText
<1>1. First(back, 0, l + 1, stops)
  BY <1>0, ScanIsFirst
<1>2. strrchr(m, u, c) = IF back > l THEN Null ELSE u + l - back
  BY DEF strrchr
<1> HIDE DEF back, l
<1>3. S \in SUBSET Int /\ back \in 0 .. l + 1
  BY <1>0, <1>1 DEF First
<1>4. ASSUME NEW j \in S PROVE u + l - j \in stops
  <2>1. u + l - j \in 0 .. l /\ u + l - (u + l - j) = j
    BY <1>0
  <2> QED BY <2>1
<1>5. CASE back > l
  <2>1. S = {}
    <3> SUFFICES ASSUME NEW j \in S PROVE FALSE
      OBVIOUS
    <3>1. u + l - j \in 0 .. back - 1
      BY <1>0, <1>3, <1>5
    <3> QED BY <3>1, <1>4, <1>1 DEF First
  <2> QED BY <2>1, <1>2, <1>5, <1>0, LeastIs
<1>6. CASE ~(back > l)
  <2>1. back \in stops
    BY <1>0, <1>1, <1>3, <1>6 DEF First
  <2>2. u + l - back \in S
    BY <2>1, <1>0
  <2>3. ASSUME NEW j \in S PROVE u + l - back >= j
    <3>1. ~(u + l - j \in 0 .. back - 1)
      BY <1>4, <1>1 DEF First
    <3> QED BY <3>1, <1>0, <1>3
  <2> QED BY <2>2, <2>3, <1>2, <1>3, <1>6, <1>0, LeastIs
<1> QED BY <1>5, <1>6

Places(m, u, n, c) == {k \in u .. u + n - 1 : m[k] = c}
\* memscan and memchr find the first place of a byte, or the end of the area, or nothing.
LEMMA MemscanIs ==
    ASSUME NEW m \in Memory, NEW u \in Addr, NEW n \in Room(u), NEW c
    PROVE  /\ memscan(m, u, c, n) = Least(Places(m, u, n, c) \cup {u + n})
           /\ memchr(m, u, c, n) = Least(Places(m, u, n, c))
<1> DEFINE stops == {k \in Addr : m[k] = c}
           k == Scan(u, u + n, stops)
           S == {j \in u .. u + n - 1 : m[j] = c}
<1>0. u \in Nat /\ n \in Nat /\ Cells \in Nat /\ u + n <= Cells
  BY StringAssumption DEF Addr, Room
<1>1. First(k, u, u + n, stops)
  BY <1>0, ScanIsFirst
<1>2. memscan(m, u, c, n) = k /\ memchr(m, u, c, n) = IF k = u + n THEN Null ELSE k
  BY DEF memscan, memchr
<1> HIDE DEF k
<1>3. k \in u .. u + n /\ S \in SUBSET Int /\ S \cup {u + n} \in SUBSET Int
  BY <1>0, <1>1 DEF First
<1>4. ASSUME NEW j \in S PROVE k <= j
  <2>1. j \in stops
    BY <1>0 DEF Addr
  <2>2. ~(j \in u .. k - 1)
    BY <2>1, <1>1 DEF First
  <2> QED BY <2>2, <1>0, <1>3
<1>5. k # u + n => k \in S
  BY <1>0, <1>1, <1>3 DEF First
<1>6. memscan(m, u, c, n) = Least(S \cup {u + n})
  <2>1. k \in S \cup {u + n} /\ \A j \in S \cup {u + n} : k <= j
    BY <1>3, <1>4, <1>5, <1>0
  <2> QED BY <2>1, <1>2, <1>3, LeastIs
<1>7. memchr(m, u, c, n) = Least(S)
  <2>1. CASE k = u + n
    <3>1. S = {}
      BY <1>0, <1>3, <1>4, <2>1
    <3> QED BY <3>1, <2>1, <1>2, LeastIs
  <2>2. CASE k # u + n
    BY <2>2, <1>2, <1>3, <1>4, <1>5, LeastIs
  <2> QED BY <2>1, <2>2
<1> QED BY <1>6, <1>7 DEF Places

\* The places in a text where a byte is in a set, and where it is not
Within(m, u, set) == {k \in u .. u + Len(Text(m, u)) - 1 : m[k] \in set}
Beside(m, u, set) == {k \in u .. u + Len(Text(m, u)) - 1 : m[k] \notin set}

\* The marks are the bytes of the text that lists them.
LEMMA MarksAre ==
    ASSUME NEW m \in Memory, NEW t, IsText(m, t), NEW c
    PROVE  c \in Marks(m, t) <=> \E j \in t .. t + Len(Text(m, t)) - 1 : m[j] = c
<1> DEFINE l == strlen(m, t)
<1>0. t \in Nat /\ l \in Nat /\ l = Len(Text(m, t)) /\ Text(m, t) = [k \in 1 .. l |-> m[t + k - 1]]
  BY EndOfText
<1> HIDE DEF l
<1>1. c \in Marks(m, t) <=> \E k \in 1 .. l : m[t + k - 1] = c
  BY <1>0 DEF Marks
<1>2. ASSUME NEW k \in 1 .. l PROVE t + k - 1 \in t .. t + l - 1
  BY <1>0
<1>3. ASSUME NEW j \in t .. t + l - 1 PROVE j - t + 1 \in 1 .. l /\ t + (j - t + 1) - 1 = j
  BY <1>0
<1> QED BY <1>0, <1>1, <1>2, <1>3

\* The inner loop of strspn finds out whether a byte is a mark.
LEMMA AmongIs ==
    ASSUME NEW m \in Memory, NEW c, NEW t, IsText(m, t)
    PROVE  Among(m, c, t) <=> c \in Marks(m, t)
<1> DEFINE e == t + Len(Text(m, t))
           stops == {j \in Addr : m[j] = c} \cup Ends(m)
           k == Scan(t, Cells, stops)
<1>0. t \in Nat /\ e \in Nat /\ t <= e /\ m[e] = 0 /\ \A j \in t .. e : j \in Addr
  BY EndOfText
<1>1. \A j \in t .. e - 1 : m[j] # 0
  BY EndOfText
<1>2. e \in stops
  BY <1>0 DEF Ends
<1>3. k \in t .. e /\ k \in stops /\ \A j \in t .. k - 1 : j \notin stops
  BY <1>2, ScanText
<1>4. Among(m, c, t) <=> m[k] # 0
  BY DEF Among
<1>5. c \in Marks(m, t) <=> \E j \in t .. e - 1 : m[j] = c
  <2>1. t + Len(Text(m, t)) - 1 = e - 1
    BY EndOfText
  <2> HIDE DEF e
  <2> QED BY <2>1, MarksAre
<1> HIDE DEF k, e
<1>6. ASSUME m[k] # 0 PROVE \E j \in t .. e - 1 : m[j] = c
  <2>1. m[k] = c
    BY <1>3, <1>6 DEF Ends
  <2>2. k # e
    BY <1>0, <1>6
  <2>3. k \in t .. e - 1
    BY <2>2, <1>3, <1>0
  <2> QED BY <2>1, <2>3
<1>7. ASSUME NEW j \in t .. e - 1, m[j] = c PROVE m[k] # 0
  <2>1. j \in stops
    BY <1>0, <1>7
  <2>2. ~(j \in t .. k - 1)
    BY <2>1, <1>3
  <2>3. k \in t .. e - 1
    BY <2>2, <1>3, <1>0
  <2> QED BY <2>3, <1>1
<1> QED BY <1>4, <1>5, <1>6, <1>7

\* strspn stops at the first byte that is no mark.
LEMMA StrspnIs ==
    ASSUME NEW m \in Memory, NEW u, NEW t, IsText(m, u), IsText(m, t)
    PROVE  LET k == u + strspn(m, u, t)
           IN  /\ k = Least(Beside(m, u, Marks(m, t)) \cup {u + Len(Text(m, u))})
               /\ k \in u .. u + Len(Text(m, u)) /\ strspn(m, u, t) \in Nat
               /\ m[k] = 0 <=> Beside(m, u, Marks(m, t)) = {}
               /\ m[k] # 0 => k = Least(Beside(m, u, Marks(m, t)))
<1> DEFINE e == u + Len(Text(m, u))
           stops == {k \in Addr : m[k] = 0 \/ ~Among(m, m[k], t)}
           k == Scan(u, Cells, stops)
           S == {j \in u .. e - 1 : m[j] \notin Marks(m, t)}
<1>0. u \in Nat /\ e \in Nat /\ u <= e /\ m[e] = 0 /\ (\A j \in u .. e : j \in Addr) /\ \A j \in u .. e - 1 : m[j] # 0
  BY EndOfText
<1>1. e \in stops
  BY <1>0
<1>2. k \in u .. e /\ k \in stops /\ \A j \in u .. k - 1 : j \notin stops
  BY <1>1, ScanText
<1>3. strspn(m, u, t) = k - u
  BY DEF strspn
<1>4. S = Beside(m, u, Marks(m, t))
  <2>1. u + Len(Text(m, u)) - 1 = e - 1
    BY EndOfText
  <2> HIDE DEF e
  <2> QED BY <2>1 DEF Beside
<1>5. \A j \in u .. e : j \in stops <=> m[j] = 0 \/ m[j] \notin Marks(m, t)
  BY <1>0, AmongIs
<1> HIDE DEF k, e, stops
<1>6. u + strspn(m, u, t) = k /\ k - u \in Nat /\ S \in SUBSET Int /\ S \cup {e} \in SUBSET Int
  BY <1>0, <1>2, <1>3
<1>7. ASSUME NEW j \in S PROVE k <= j
  <2>1. j \in stops
    BY <1>5, <1>0
  <2>2. ~(j \in u .. k - 1)
    BY <2>1, <1>2
  <2> QED BY <2>2, <1>0, <1>2
<1>8. k # e => k \in S /\ m[k] # 0
  <2> SUFFICES ASSUME k # e PROVE k \in S /\ m[k] # 0
    OBVIOUS
  <2>1. k \in u .. e - 1
    BY <1>0, <1>2
  <2> QED BY <2>1, <1>0, <1>2, <1>5
<1>9. k = Least(S \cup {e})
  <2>1. k \in S \cup {e} /\ \A j \in S \cup {e} : k <= j
    BY <1>0, <1>2, <1>7, <1>8
  <2> QED BY <2>1, <1>6, LeastIs
<1>10. m[k] = 0 <=> S = {}
  <2>1. k = e => S = {}
    BY <1>0, <1>7
  <2> QED BY <2>1, <1>8, <1>0
<1>11. m[k] # 0 => k = Least(S)
  <2>1. m[k] # 0 => k \in S
    BY <1>8, <1>0
  <2> QED BY <2>1, <1>7, <1>6, LeastIs
<1> QED BY <1>2, <1>3, <1>4, <1>6, <1>9, <1>10, <1>11 DEF e

\* strpbrk finds the first mark.
LEMMA StrpbrkIs ==
    ASSUME NEW m \in Memory, NEW u, NEW t, IsText(m, u), IsText(m, t)
    PROVE  /\ strpbrk(m, u, t) = Least(Within(m, u, Marks(m, t)))
           /\ strpbrk(m, u, t) = Null <=> Within(m, u, Marks(m, t)) = {}
           /\ strpbrk(m, u, t) # Null => strpbrk(m, u, t) \in u .. u + Len(Text(m, u)) - 1
<1> DEFINE e == u + Len(Text(m, u))
           stops == {k \in Addr : m[k] = 0 \/ Among(m, m[k], t)}
           k == Scan(u, Cells, stops)
           S == {j \in u .. e - 1 : m[j] \in Marks(m, t)}
<1>0. u \in Nat /\ e \in Nat /\ u <= e /\ m[e] = 0 /\ (\A j \in u .. e : j \in Addr) /\ \A j \in u .. e - 1 : m[j] # 0
  BY EndOfText
<1>1. e \in stops
  BY <1>0
<1>2. k \in u .. e /\ k \in stops /\ \A j \in u .. k - 1 : j \notin stops
  BY <1>1, ScanText
<1>3. strpbrk(m, u, t) = IF m[k] = 0 THEN Null ELSE k
  BY DEF strpbrk
<1>4. S = Within(m, u, Marks(m, t))
  <2>1. u + Len(Text(m, u)) - 1 = e - 1
    BY EndOfText
  <2> HIDE DEF e
  <2> QED BY <2>1 DEF Within
<1>5. \A j \in u .. e : j \in stops <=> m[j] = 0 \/ m[j] \in Marks(m, t)
  BY <1>0, AmongIs
<1> HIDE DEF k, e, stops
<1>6. S \in SUBSET Int
  BY <1>0
<1>7. ASSUME NEW j \in S PROVE k <= j
  <2>1. j \in stops
    BY <1>5, <1>0
  <2>2. ~(j \in u .. k - 1)
    BY <2>1, <1>2
  <2> QED BY <2>2, <1>0, <1>2
<1>8. k # e => k \in S /\ m[k] # 0 /\ k \in u .. e - 1 /\ k # Null
  <2> SUFFICES ASSUME k # e PROVE k \in S /\ m[k] # 0 /\ k \in u .. e - 1 /\ k # Null
    OBVIOUS
  <2>1. k \in u .. e - 1 /\ k # Null
    BY <1>0, <1>2 DEF Null
  <2> QED BY <2>1, <1>0, <1>2, <1>5
<1>9. CASE k = e
  <2>1. S = {}
    BY <1>0, <1>7, <1>9
  <2>2. strpbrk(m, u, t) = Null
    BY <1>9, <1>0, <1>3
  <2> QED BY <2>1, <2>2, <1>4, LeastIs
<1>10. CASE k # e
  <2>1. strpbrk(m, u, t) = k /\ k = Least(S) /\ S # {}
    BY <1>10, <1>8, <1>7, <1>6, <1>3, LeastIs
  <2>2. u + Len(Text(m, u)) - 1 = e - 1
    BY EndOfText DEF e
  <2> QED BY <2>1, <2>2, <1>10, <1>8, <1>4
<1> QED BY <1>9, <1>10

\* strstr finds the first place where the text t stands.
LEMMA StrstrIs ==
    ASSUME NEW m \in Memory, NEW u, NEW t, IsText(m, u), IsText(m, t)
    PROVE  strstr(m, u, t) = Least({k \in u .. u + Len(Text(m, u)) :
                                      /\ k + Len(Text(m, t)) <= u + Len(Text(m, u))
                                      /\ Row(m, k, Len(Text(m, t))) = Text(m, t)})
<1> DEFINE l1 == strlen(m, u)
           l2 == strlen(m, t)
           stops == {j \in 0 .. l1 - l2 : memcmp(m, u + j, t, l2) = 0}
           k == Scan(0, l1 - l2 + 1, stops)
           S == {j \in u .. u + l1 : j + l2 <= u + l1 /\ Row(m, j, l2) = Text(m, t)}
<1>0. /\ u \in Nat /\ l1 \in Nat /\ l1 = Len(Text(m, u)) /\ u + l1 < Cells /\ Cells \in Nat
      /\ \A j \in u .. u + l1 : j \in Addr
  <2>1. u + l1 < Cells
    BY EndOfText
  <2> QED BY <2>1, EndOfText
<1>1. /\ t \in Nat /\ t \in Addr /\ l2 \in Nat /\ l2 = Len(Text(m, t)) /\ t + l2 < Cells
      /\ Text(m, t) = [z \in 1 .. l2 |-> m[t + z - 1]]
  <2>1. t + l2 < Cells
    BY EndOfText
  <2> QED BY <2>1, EndOfText
<1>2. strstr(m, u, t) = IF l2 = 0 THEN u ELSE IF l1 < l2 \/ k > l1 - l2 THEN Null ELSE u + k
  BY DEF strstr
<1>3. Row(m, t, l2) = Text(m, t)
  BY <1>1 DEF Row
<1>4. \A j \in 0 .. l1 - l2 : j \in stops <=> Row(m, u + j, l2) = Text(m, t)
  <2> TAKE j \in 0 .. l1 - l2
  <2> HIDE DEF l1, l2
  <2>1. u + j \in Addr /\ l2 \in Room(u + j) \cap Room(t)
    BY <1>0, <1>1 DEF Room
  <2>2. memcmp(m, u + j, t, l2) = 0 <=> Row(m, u + j, l2) = Row(m, t, l2)
    BY <2>1, <1>1, MemcmpIs
  <2> QED BY <2>2, <1>3
<1>5. l2 <= l1 => First(k, 0, l1 - l2 + 1, stops)
  <2> HIDE DEF l1, l2, stops
  <2>1. l2 <= l1 => l1 - l2 + 1 \in Int /\ 0 <= l1 - l2 + 1
    BY <1>0, <1>1
  <2> QED BY <2>1, ScanIsFirst
<1> HIDE DEF k, l1, l2, stops
<1>6. S \in SUBSET Int
  BY <1>0
<1>7. ASSUME NEW j \in S PROVE l2 <= l1 /\ j - u \in 0 .. l1 - l2 /\ j - u \in stops
  <2>1. l2 <= l1 /\ j - u \in 0 .. l1 - l2 /\ u + (j - u) = j
    BY <1>0, <1>1
  <2> QED BY <2>1, <1>4
<1>8. strstr(m, u, t) = Least(S)
  <2>1. CASE l2 = 0
    <3>1. Row(m, u, 0) = Text(m, t)
      BY <1>1, <2>1 DEF Row
    <3>2. u \in S /\ \A j \in S : u <= j
      BY <3>1, <1>0, <2>1
    <3> QED BY <3>2, <1>2, <1>6, <2>1, LeastIs
  <2>2. CASE l2 # 0 /\ l1 < l2
    <3>1. S = {}
      BY <1>7, <2>2, <1>0, <1>1
    <3> QED BY <3>1, <1>2, <2>2, LeastIs
  <2>3. CASE l2 # 0 /\ l2 <= l1
    <3>1. k \in 0 .. l1 - l2 + 1
      BY <1>5, <2>3 DEF First
    <3>2. ASSUME NEW j \in S PROVE k <= j - u
      <4>1. ~(j - u \in 0 .. k - 1)
        BY <1>7, <1>5, <2>3 DEF First
      <4> QED BY <4>1, <1>7, <3>1, <1>0, <1>1
    <3>3. CASE k > l1 - l2
      <4>1. S = {}
        <5> SUFFICES ASSUME NEW j \in S PROVE FALSE
          OBVIOUS
        <5>1. k <= j - u /\ j - u \in 0 .. l1 - l2
          BY <3>2, <1>7
        <5> QED BY <5>1, <3>1, <3>3, <1>0, <1>1
      <4> QED BY <4>1, <1>2, <2>3, <3>3, LeastIs
    <3>4. CASE ~(k > l1 - l2)
      <4>1. k \in 0 .. l1 - l2 /\ k \in stops
        BY <3>1, <3>4, <1>5, <2>3, <1>0, <1>1 DEF First
      <4>2. u + k \in S
        BY <4>1, <1>4, <1>0, <1>1
      <4>3. \A j \in S : u + k <= j
        BY <3>2, <3>1, <1>0, <1>6
      <4>4. ~(l1 < l2)
        BY <2>3, <1>0, <1>1
      <4> QED BY <4>2, <4>3, <4>4, <1>2, <1>6, <2>3, <3>4, LeastIs
    <3> QED BY <3>3, <3>4
  <2> HIDE DEF S
  <2> QED BY <2>1, <2>2, <2>3, <1>0, <1>1
<1>9. l1 = Len(Text(m, u)) /\ l2 = Len(Text(m, t))
  BY <1>0, <1>1
<1> QED BY <1>8, <1>9

-----------------------------------------------------------------------------
(* Copies                                                                  *)

\* p is m but for the n cells from d on.
Spares(p, m, d, n) == \A a \in Addr \ (d .. d + n - 1) : p[a] = m[a]

\* What a copy upwards leaves behind
LEMMA CopiedIs ==
    ASSUME NEW m \in Memory, NEW d \in Int, NEW u \in Int, NEW n \in Nat,
           0 <= d, 0 <= u, d + n <= Cells, u + n <= Cells, d <= u \/ Apart(d, n, u, n)
    PROVE  LET p == CopyUp(m, d, u, n)
           IN  p \in Memory /\ (\A j \in 0 .. n - 1 : p[d + j] = m[u + j]) /\ Spares(p, m, d, n)
<1> DEFINE p == CopyUp(m, d, u, n)
<1>0. Cells \in Nat
  BY StringAssumption
<1>1. p = Copied(m, d, u, d, d + n)
  BY CopyUpIs
<1>2. p \in Memory
  BY <1>1, CopiedType
<1> HIDE DEF p
<1>3. ASSUME NEW j \in 0 .. n - 1 PROVE p[d + j] = m[u + j]
  <2>1. d + j \in Addr /\ d + j \in d .. (d + n) - 1 /\ d + j - d + u = u + j
    BY <1>0 DEF Addr
  <2>2. p[d + j] = m[d + j - d + u]
    BY <1>1, <2>1 DEF Copied
  <2> QED BY <2>1, <2>2
<1>4. d + n - 1 = (d + n) - 1
  OBVIOUS
<1>5. Spares(p, m, d, n)
  BY <1>1, <1>4 DEF Spares, Copied
<1> QED BY <1>2, <1>3, <1>5 DEF p

\* memmove copies an area, however the two overlap, and nothing else.
LEMMA MemmoveIs ==
    ASSUME NEW m \in Memory, NEW d \in Addr, NEW u \in Addr, NEW n \in Room(d) \cap Room(u)
    PROVE  LET p == memmove(m, d, u, n)
           IN  p \in Memory /\ Row(p, d, n) = Row(m, u, n) /\ Spares(p, m, d, n)
<1> DEFINE p == memmove(m, d, u, n)
<1>0. /\ Cells \in Nat /\ d \in Int /\ u \in Int /\ n \in Nat /\ 0 <= d /\ 0 <= u
      /\ d + n <= Cells /\ u + n <= Cells
  BY StringAssumption DEF Addr, Room
<1>1. p = Copied(m, d, u, d, d + n)
  BY <1>0, CopyUpIs, CopyDownIs DEF memmove
<1>2. p \in Memory
  BY <1>0, <1>1, CopiedType
<1> HIDE DEF p
<1>3. ASSUME NEW j \in 0 .. n - 1 PROVE p[d + j] = m[u + j]
  <2>1. d + j \in Addr /\ d + j \in d .. (d + n) - 1 /\ (d + j) - d + u = u + j
    BY <1>0 DEF Addr
  <2>2. p[d + j] = m[(d + j) - d + u]
    BY <1>1, <2>1 DEF Copied
  <2> QED BY <2>1, <2>2
<1>4. d + n - 1 = (d + n) - 1
  BY <1>0
<1>5. Spares(p, m, d, n)
  BY <1>1, <1>4 DEF Spares, Copied
<1>6. Row(p, d, n) = Row(m, u, n)
  <2>1. \A j \in 0 .. n - 1 : p[d + j] = m[u + j]
    BY <1>3
  <2>2. d \in Int /\ u \in Int /\ n \in Nat
    BY <1>0
  <2> QED BY <2>1, <2>2, RowsEqual
<1> QED BY <1>2, <1>5, <1>6 DEF p

\* memcpy copies an area that does not overlap, and nothing else.
LEMMA MemcpyIs ==
    ASSUME NEW m \in Memory, NEW d \in Addr, NEW u \in Addr, NEW n \in Room(d) \cap Room(u), Apart(d, n, u, n)
    PROVE  LET p == memcpy(m, d, u, n)
           IN  p \in Memory /\ Row(p, d, n) = Row(m, u, n) /\ Spares(p, m, d, n)
<1>0. /\ Cells \in Nat /\ d \in Int /\ u \in Int /\ n \in Nat /\ 0 <= d /\ 0 <= u
      /\ d + n <= Cells /\ u + n <= Cells
  BY StringAssumption DEF Addr, Room
<1> DEFINE p == CopyUp(m, d, u, n)
<1>1. p \in Memory /\ (\A j \in 0 .. n - 1 : p[d + j] = m[u + j]) /\ Spares(p, m, d, n)
  BY <1>0, CopiedIs
<1>2. memcpy(m, d, u, n) = p
  BY DEF memcpy
<1> HIDE DEF p
<1>3. d \in Int /\ u \in Int /\ n \in Nat
  BY <1>0
<1>4. Row(p, d, n) = Row(m, u, n)
  BY <1>1, <1>3, RowsEqual
<1> QED BY <1>1, <1>2, <1>4

\* memset fills an area, and nothing else.
LEMMA MemsetIs ==
    ASSUME NEW m \in Memory, NEW u \in Addr, NEW n \in Room(u), NEW c \in Byte
    PROVE  LET p == memset(m, u, c, n)
           IN  p \in Memory /\ (\A k \in u .. u + n - 1 : p[k] = c) /\ Spares(p, m, u, n)
<1>0. Cells \in Nat /\ u \in Nat /\ n \in Nat /\ u + n <= Cells
  BY StringAssumption DEF Addr, Room
<1>1. \A k \in u .. u + n - 1 : k \in Addr
  BY <1>0 DEF Addr
<1> QED BY <1>1 DEF memset, Memory, Spares

\* A row of bytes and a NUL behind it are a text.
LEMMA TextAt ==
    ASSUME NEW p \in Memory, NEW d \in Addr, NEW l \in Nat, d + l < Cells,
           p[d + l] = 0, \A j \in 0 .. l - 1 : p[d + j] # 0
    PROVE  Text(p, d) = [k \in 1 .. l |-> p[d + k - 1]] /\ Len(Text(p, d)) = l
<1>0. Cells \in Nat /\ d \in Nat
  BY StringAssumption DEF Addr
<1>1. EndsAt(p, d, d + l)
  <2>1. d + l \in d .. Cells - 1
    BY <1>0
  <2>2. ASSUME NEW j \in d .. (d + l) - 1 PROVE p[j] # 0
    <3>1. j - d \in 0 .. l - 1 /\ d + (j - d) = j
      BY <1>0
    <3> QED BY <3>1
  <2> QED BY <2>1, <2>2 DEF EndsAt
<1>2. (d + l) - d = l
  BY <1>0
<1> QED BY <1>1, <1>2, TextIs

\* strcpy copies a text with its NUL, and nothing else.
LEMMA StrcpyIs ==
    ASSUME NEW m \in Memory, NEW d \in Addr, NEW u, IsText(m, u), strlen(m, u) + 1 \in Room(d),
           Apart(d, strlen(m, u) + 1, u, strlen(m, u) + 1)
    PROVE  LET p == strcpy(m, d, u)
           IN  /\ p \in Memory /\ Spares(p, m, d, Len(Text(m, u)) + 1)
               /\ \A j \in 0 .. strlen(m, u) : p[d + j] = m[u + j]
               /\ Text(p, d) = Text(m, u)
<1> DEFINE l == strlen(m, u)
           p == strcpy(m, d, u)
<1>0. /\ Cells \in Nat /\ d \in Nat /\ u \in Nat /\ u \in Addr /\ l \in Nat /\ l = Len(Text(m, u))
      /\ d + l < Cells /\ u + l < Cells /\ Text(m, u) = [k \in 1 .. l |-> m[u + k - 1]]
  <2>1. u + Len(Text(m, u)) < Cells /\ Len(Text(m, u)) = l
    BY EndOfText
  <2> QED BY <2>1, EndOfText, StringAssumption DEF Addr, Room
<1>1. m[u + l] = 0 /\ \A j \in 0 .. l - 1 : m[u + j] # 0
  <2>1. Len(Text(m, u)) = l /\ m[u + Len(Text(m, u))] = 0 /\ \A j \in u .. (u + Len(Text(m, u))) - 1 : m[j] # 0
    BY EndOfText
  <2> HIDE DEF l
  <2>2. \A j \in 0 .. l - 1 : u + j \in u .. (u + l) - 1
    BY <1>0
  <2> QED BY <2>1, <2>2
<1> HIDE DEF l
<1>2. p = CopyUp(m, d, u, l + 1)
  BY DEF strcpy, l
<1>3. Apart(d, l + 1, u, l + 1)
  BY DEF l
<1>4. p \in Memory /\ (\A j \in 0 .. (l + 1) - 1 : p[d + j] = m[u + j]) /\ Spares(p, m, d, l + 1)
  <2>1. d \in Int /\ u \in Int /\ l + 1 \in Nat /\ 0 <= d /\ 0 <= u /\ d + (l + 1) <= Cells /\ u + (l + 1) <= Cells
    BY <1>0
  <2> HIDE DEF p
  <2> QED BY <1>2, <1>3, <2>1, CopiedIs
<1> HIDE DEF p
<1>5. \A j \in 0 .. l : p[d + j] = m[u + j]
  BY <1>0, <1>4
<1>6. Text(p, d) = [k \in 1 .. l |-> p[d + k - 1]]
  <2>1. p[d + l] = 0
    BY <1>0, <1>1, <1>5
  <2>2. \A j \in 0 .. l - 1 : p[d + j] # 0
    <3> TAKE j \in 0 .. l - 1
    <3>1. j \in 0 .. l
      BY <1>0
    <3>2. p[d + j] = m[u + j]
      BY <3>1, <1>5
    <3> QED BY <3>2, <1>1
  <2>3. p \in Memory /\ l \in Nat /\ d + l < Cells
    BY <1>0, <1>4
  <2> QED BY <2>1, <2>2, <2>3, TextAt
<1>7. \A k \in 1 .. l : p[d + k - 1] = m[u + k - 1]
  <2> TAKE k \in 1 .. l
  <2>1. k - 1 \in 0 .. l /\ d + (k - 1) = d + k - 1 /\ u + (k - 1) = u + k - 1
    BY <1>0
  <2> QED BY <2>1, <1>5
<1>8. Text(p, d) = Text(m, u)
  BY <1>0, <1>6, <1>7
<1> QED BY <1>0, <1>4, <1>5, <1>8 DEF p, l

\* How much of a text strncpy and strncat take
LEMMA CutOfText ==
    ASSUME NEW m \in Memory, NEW u, IsText(m, u), NEW n \in Room(u)
    PROVE  LET c == strnlen(m, u, n)
               l == strlen(m, u)
           IN  /\ c \in Nat /\ c <= n /\ c <= l /\ (c # n => c = l)
               /\ Cut(m, u, n) = [k \in 1 .. c |-> m[u + k - 1]]
               /\ \A j \in 0 .. c - 1 : m[u + j] # 0
<1> DEFINE c == strnlen(m, u, n)
           l == strlen(m, u)
<1>0. u \in Addr /\ u \in Nat /\ l \in Nat /\ n \in Nat /\ m[u + l] = 0
  BY EndOfText DEF Room
<1>1. \A j \in u .. (u + l) - 1 : m[j] # 0
  <2>1. Len(Text(m, u)) = l
    BY EndOfText
  <2> QED BY <2>1, EndOfText
<1>2. CutsAt(m, u, n, c)
  BY <1>0, StrnlenIs
<1>3. Cut(m, u, n) = [k \in 1 .. c |-> m[u + k - 1]]
  BY <1>0, <1>2, CutIs
<1> HIDE DEF c, l
<1>4. c \in Nat /\ c <= n
  BY <1>0, <1>2 DEF CutsAt
<1>5. ~(l < c)
  BY <1>0, <1>2, <1>4 DEF CutsAt
<1>6. ASSUME c # n PROVE ~(c < l)
  <2> SUFFICES ASSUME c < l PROVE FALSE
    OBVIOUS
  <2>1. u + c \in u .. (u + l) - 1 /\ m[u + c] = 0
    BY <1>0, <1>2, <1>4, <1>6 DEF CutsAt
  <2> QED BY <2>1, <1>1
<1> QED BY <1>0, <1>2, <1>3, <1>4, <1>5, <1>6 DEF CutsAt, c, l

\* strncpy copies a text as far as there is room, and nothing else.
LEMMA StrncpyIs ==
    ASSUME NEW m \in Memory, NEW d \in Addr, NEW u, IsText(m, u), NEW n \in Room(d) \cap Room(u),
           Apart(d, n, u, strlen(m, u) + 1)
    PROVE  LET p == strncpy(m, d, u, n)
           IN  p \in Memory /\ Spares(p, m, d, n) /\ Cut(p, d, n) = Cut(m, u, n)
<1> DEFINE l == strlen(m, u)
           c == strnlen(m, u, n)
           w == IF c = n THEN n ELSE c + 1
           p == strncpy(m, d, u, n)
<1>0. /\ Cells \in Nat /\ d \in Nat /\ u \in Nat /\ u \in Addr /\ l \in Nat /\ n \in Nat
      /\ d + n <= Cells /\ u + n <= Cells /\ m[u + l] = 0
  BY EndOfText, StringAssumption DEF Addr, Room
<1>1. /\ c \in Nat /\ c <= n /\ c <= l /\ (c # n => c = l)
      /\ Cut(m, u, n) = [k \in 1 .. c |-> m[u + k - 1]]
      /\ \A j \in 0 .. c - 1 : m[u + j] # 0
  BY CutOfText
<1>2. p = CopyUp(m, d, u, w)
  BY DEF strncpy
<1>3. d + n <= u \/ u + (l + 1) <= d
  BY DEF Apart
<1> HIDE DEF l, c, p
<1>4. w \in Nat /\ w <= n /\ d + w <= Cells /\ u + w <= Cells /\ Apart(d, w, u, w)
  BY <1>0, <1>1, <1>3 DEF Apart
<1>5. p \in Memory /\ (\A j \in 0 .. w - 1 : p[d + j] = m[u + j]) /\ Spares(p, m, d, w)
  <2> HIDE DEF w
  <2>1. d \in Int /\ u \in Int /\ 0 <= d /\ 0 <= u
    BY <1>0
  <2> QED BY <1>2, <1>4, <2>1, CopiedIs
<1>6. Spares(p, m, d, n)
  <2>1. \A a \in Addr \ (d .. d + n - 1) : a \notin d .. d + w - 1
    BY <1>0, <1>4 DEF Addr
  <2> QED BY <2>1, <1>5 DEF Spares
<1>7. \A j \in 0 .. c - 1 : p[d + j] = m[u + j]
  BY <1>1, <1>4, <1>5
<1>8. c # n => p[d + c] = 0
  BY <1>0, <1>1, <1>5
<1>9. CutsAt(p, d, n, c)
  <2>1. \A j \in 0 .. c - 1 : p[d + j] # 0
    BY <1>1, <1>7
  <2> QED BY <2>1, <1>0, <1>1, <1>8 DEF CutsAt
<1>10. Cut(p, d, n) = [k \in 1 .. c |-> p[d + k - 1]]
  BY <1>5, <1>9, CutIs
<1>11. \A k \in 1 .. c : p[d + k - 1] = m[u + k - 1]
  <2> TAKE k \in 1 .. c
  <2>1. k - 1 \in 0 .. c - 1 /\ d + (k - 1) = d + k - 1 /\ u + (k - 1) = u + k - 1
    BY <1>0, <1>1
  <2> QED BY <2>1, <1>7
<1>12. Cut(p, d, n) = Cut(m, u, n)
  BY <1>1, <1>10, <1>11
<1> QED BY <1>5, <1>6, <1>12 DEF p

OneAfter(a, b) == [k \in 1 .. Len(a) + Len(b) |-> IF k <= Len(a) THEN a[k] ELSE b[k - Len(a)]]
\* Two sequences joined, element by element
LEMMA Joined ==
    ASSUME NEW X, NEW a \in Seq(X), NEW b \in Seq(X)
    PROVE  a \o b \in Seq(X) /\ Len(a \o b) = Len(a) + Len(b) /\ a \o b = OneAfter(a, b)
<1>1. a \o b \in Seq(X) /\ Len(a \o b) = Len(a) + Len(b)
  BY SMT
<1>2. \A k \in 1 .. Len(a) + Len(b) : (a \o b)[k] = IF k <= Len(a) THEN a[k] ELSE b[k - Len(a)]
  BY SMT
<1> DEFINE q == a \o b
<1> HIDE DEF q
<1>3. q \in Seq(X)
  BY <1>1 DEF q
<1>4. q = [k \in 1 .. Len(q) |-> q[k]]
  BY <1>3
<1>5. Len(q) = Len(a) + Len(b)
  BY <1>1 DEF q
<1>6. \A k \in 1 .. Len(a) + Len(b) : q[k] = IF k <= Len(a) THEN a[k] ELSE b[k - Len(a)]
  BY <1>2 DEF q
<1>7. q = [k \in 1 .. Len(a) + Len(b) |-> IF k <= Len(a) THEN a[k] ELSE b[k - Len(a)]]
  BY <1>4, <1>5, <1>6
<1> QED BY <1>1, <1>7 DEF q, OneAfter

\* n bytes at d that are those at u of m, none a NUL
Repeats(p, d, m, u, n) == \A j \in 0 .. n - 1 : p[d + j] = m[u + j] /\ m[u + j] # 0

\* Two rows of bytes one behind the other, and a NUL, are the two texts joined.
LEMMA JoinedText ==
    ASSUME NEW p \in Memory, NEW m \in Memory, NEW d \in Addr, NEW u \in Addr, NEW x \in Nat, NEW y \in Nat,
           d + (x + y) < Cells, p[d + (x + y)] = 0,
           Repeats(p, d, m, d, x), Repeats(p, d + x, m, u, y)
    PROVE  /\ Text(p, d) = Row(m, d, x) \o Row(m, u, y)
           /\ Len(Text(p, d)) = x + y
<1> DEFINE A == [k \in 1 .. x |-> m[d + k - 1]]
           B == [k \in 1 .. y |-> m[u + k - 1]]
           Whole == [k \in 1 .. x + y |-> IF k <= x THEN m[d + k - 1] ELSE m[u + (k - x) - 1]]
<1>0. d \in Nat /\ u \in Nat
  BY StringAssumption DEF Addr
<1>1. ASSUME NEW j \in 0 .. (x + y) - 1
      PROVE  p[d + j] = (IF j + 1 <= x THEN m[d + j] ELSE m[u + (j - x)]) /\ p[d + j] # 0
  <2>1. CASE j + 1 <= x
    <3>1. j \in 0 .. x - 1
      BY <2>1
    <3> QED BY <3>1, <2>1 DEF Repeats
  <2>2. CASE ~(j + 1 <= x)
    <3>1. j - x \in 0 .. y - 1 /\ d + x + (j - x) = d + j
      BY <2>2, <1>0
    <3>2. p[d + x + (j - x)] = m[u + (j - x)] /\ m[u + (j - x)] # 0
      BY <3>1 DEF Repeats
    <3> QED BY <3>1, <3>2, <2>2
  <2> QED BY <2>1, <2>2
<1>2. Text(p, d) = [k \in 1 .. x + y |-> p[d + k - 1]] /\ Len(Text(p, d)) = x + y
  <2>1. x + y \in Nat /\ \A j \in 0 .. (x + y) - 1 : p[d + j] # 0
    BY <1>1
  <2> QED BY <2>1, TextAt
<1>3. \A k \in 1 .. x + y : p[d + k - 1] = Whole[k]
  <2> TAKE k \in 1 .. x + y
  <2>1. k - 1 \in 0 .. (x + y) - 1 /\ (k - 1) + 1 = k /\ d + (k - 1) = d + k - 1 /\ u + ((k - 1) - x) = u + (k - x) - 1
    BY <1>0
  <2> QED BY <2>1, <1>1
<1>4. [k \in 1 .. x + y |-> p[d + k - 1]] = Whole
  BY <1>3
<1>5. A \o B = Whole
  <2> DEFINE X == {m[k] : k \in Int}
  <2>1. A \in Seq(X) /\ B \in Seq(X) /\ Len(A) = x /\ Len(B) = y
    <3>1. \A k \in 1 .. x : d + k - 1 \in Int
      BY <1>0
    <3>2. \A k \in 1 .. y : u + k - 1 \in Int
      BY <1>0
    <3> QED BY <3>1, <3>2
  <2>2. \A k \in 1 .. x + y : Whole[k] = IF k <= x THEN A[k] ELSE B[k - x]
    BY <1>0
  <2> HIDE DEF A, B, X
  <2>3. A \o B = OneAfter(A, B)
    BY <2>1, Joined
  <2> HIDE DEF Whole
  <2>4. Whole = [k \in 1 .. x + y |-> Whole[k]]
    BY DEF Whole
  <2> QED BY <2>1, <2>2, <2>3, <2>4 DEF OneAfter
<1> QED BY <1>2, <1>4, <1>5 DEF Row

\* The text d, and the first y bytes of the text u written behind it with a NUL
LEMMA AppendedIs ==
    ASSUME NEW m \in Memory, NEW d, NEW u, IsText(m, d), IsText(m, u), NEW y \in 0 .. strlen(m, u),
           NEW p \in Memory, d + (strlen(m, d) + y) < Cells, p[d + (strlen(m, d) + y)] = 0,
           \A j \in 0 .. y - 1 : p[d + strlen(m, d) + j] = m[u + j],
           Spares(p, m, d + strlen(m, d), y + 1)
    PROVE  /\ Text(p, d) = Text(m, d) \o Row(m, u, y)
           /\ Spares(p, m, d, Len(Text(p, d)) + 1)
<1> DEFINE x == strlen(m, d)
           l == strlen(m, u)
<1>0. Cells \in Nat /\ d \in Addr /\ d \in Nat /\ u \in Addr /\ u \in Nat /\ x \in Nat /\ l \in Nat
  BY EndOfText, StringAssumption
<1>t. Text(m, d) = Row(m, d, x)
  BY EndOfText DEF Row
<1>1. (\A j \in d .. (d + x) - 1 : m[j] # 0) /\ \A j \in u .. (u + l) - 1 : m[j] # 0
  <2>1. Len(Text(m, d)) = x /\ Len(Text(m, u)) = l
    BY EndOfText
  <2> QED BY <2>1, EndOfText
<1>2. /\ y \in 0 .. l /\ d + (x + y) < Cells /\ p[d + (x + y)] = 0
      /\ \A j \in 0 .. y - 1 : p[d + x + j] = m[u + j]
      /\ Spares(p, m, d + x, y + 1)
  OBVIOUS
<1> HIDE DEF x, l
<1>3. ASSUME NEW j \in 0 .. x - 1 PROVE p[d + j] = m[d + j] /\ m[d + j] # 0
  <2>1. d + j \in d .. (d + x) - 1 /\ d + j \in Addr /\ d + j \notin d + x .. d + x + (y + 1) - 1
    BY <1>0, <1>2 DEF Addr
  <2> QED BY <2>1, <1>1, <1>2 DEF Spares
<1>4. ASSUME NEW j \in 0 .. y - 1 PROVE p[d + x + j] = m[u + j] /\ m[u + j] # 0
  <2>1. u + j \in u .. (u + l) - 1
    BY <1>0, <1>2
  <2> QED BY <2>1, <1>1, <1>2
<1>5. /\ Text(p, d) = Row(m, d, x) \o Row(m, u, y)
      /\ Len(Text(p, d)) = x + y
  <2>1. y \in Nat /\ x \in Nat /\ d \in Addr /\ u \in Addr /\ d + (x + y) < Cells /\ p[d + (x + y)] = 0
    BY <1>0, <1>2
  <2>2. Repeats(p, d, m, d, x)
    BY <1>3 DEF Repeats
  <2>3. Repeats(p, d + x, m, u, y)
    BY <1>4 DEF Repeats
  <2> QED BY <2>1, <2>2, <2>3, JoinedText
<1>6. Spares(p, m, d, Len(Text(p, d)) + 1)
  <2> SUFFICES ASSUME NEW a \in Addr \ (d .. d + (x + y + 1) - 1) PROVE p[a] = m[a]
    BY <1>5 DEF Spares
  <2>1. a \notin d + x .. d + x + (y + 1) - 1
    BY <1>0, <1>2 DEF Addr
  <2> QED BY <2>1, <1>2 DEF Spares
<1> QED BY <1>t, <1>5, <1>6

\* strcat joins two texts, and changes nothing else.
LEMMA StrcatIs ==
    ASSUME NEW m \in Memory, NEW d, NEW u, IsText(m, d), IsText(m, u),
           strlen(m, d) + (strlen(m, u) + 1) \in Room(d),
           Apart(d, strlen(m, d) + (strlen(m, u) + 1), u, strlen(m, u) + 1)
    PROVE  LET p == strcat(m, d, u)
           IN  /\ p \in Memory
               /\ Text(p, d) = Text(m, d) \o Text(m, u)
               /\ Spares(p, m, d, Len(Text(p, d)) + 1)
<1> DEFINE x == strlen(m, d)
           l == strlen(m, u)
           p == strcat(m, d, u)
<1>0. /\ Cells \in Nat /\ d \in Addr /\ d \in Nat /\ u \in Addr /\ u \in Nat /\ x \in Nat /\ l \in Nat
      /\ m[u + l] = 0 /\ d + x \in Addr
  <2>1. d + Len(Text(m, d)) \in Addr /\ Len(Text(m, d)) = x
    BY EndOfText
  <2>2. m[u + Len(Text(m, u))] = 0 /\ Len(Text(m, u)) = l
    BY EndOfText
  <2> QED BY <2>1, <2>2, EndOfText, StringAssumption
<1>t. Text(m, u) = Row(m, u, l)
  BY EndOfText DEF Row
<1>1. x + (l + 1) \in Room(d) /\ Apart(d, x + (l + 1), u, l + 1)
  OBVIOUS
<1>2. p = strcpy(m, d + x, u)
  BY DEF strcat
<1> HIDE DEF p, x, l
<1>3. l + 1 \in Room(d + x) /\ Apart(d + x, l + 1, u, l + 1) /\ d + (x + l) < Cells
  BY <1>0, <1>1 DEF Room, Apart
<1>4. /\ p \in Memory /\ Spares(p, m, d + x, l + 1)
      /\ \A j \in 0 .. l : p[d + x + j] = m[u + j]
  <2>1. Spares(p, m, d + x, Len(Text(m, u)) + 1) /\ Len(Text(m, u)) = l
    BY <1>0, <1>2, <1>3, StrcpyIs, EndOfText DEF l
  <2> QED BY <2>1, <1>0, <1>2, <1>3, StrcpyIs DEF l
<1>5. p[d + (x + l)] = 0
  <2>1. l \in 0 .. l /\ d + x + l = d + (x + l)
    BY <1>0
  <2> QED BY <2>1, <1>0, <1>4
<1>6. l \in 0 .. l /\ \A j \in 0 .. l - 1 : p[d + x + j] = m[u + j]
  <2>1. \A j \in 0 .. l - 1 : j \in 0 .. l
    BY <1>0
  <2> QED BY <2>1, <1>0, <1>4
<1>7. Text(p, d) = Text(m, d) \o Text(m, u) /\ Spares(p, m, d, Len(Text(p, d)) + 1)
  <2>1. l \in 0 .. strlen(m, u)
    BY <1>6 DEF l
  <2>2. Text(p, d) = Text(m, d) \o Row(m, u, l) /\ Spares(p, m, d, Len(Text(p, d)) + 1)
    BY <2>1, <1>3, <1>4, <1>5, <1>6, AppendedIs DEF x
  <2> QED BY <2>2, <1>t
<1> QED BY <1>4, <1>7 DEF p

\* strncat joins a text and the first n bytes of another, and changes nothing else.
LEMMA StrncatIs ==
    ASSUME NEW m \in Memory, NEW d, NEW u, IsText(m, d), IsText(m, u), NEW n \in Room(u),
           strlen(m, d) + n + 1 \in Room(d),
           Apart(d, strlen(m, d) + n + 1, u, strlen(m, u) + 1)
    PROVE  LET p == strncat(m, d, u, n)
           IN  /\ p \in Memory
               /\ Text(p, d) = Text(m, d) \o Cut(m, u, n)
               /\ Spares(p, m, d, Len(Text(p, d)) + 1)
<1> DEFINE x == strlen(m, d)
           l == strlen(m, u)
           c == strnlen(m, u, n)
           p == strncat(m, d, u, n)
           long == n > 0 /\ c = n
<1>0. /\ Cells \in Nat /\ d \in Addr /\ d \in Nat /\ u \in Addr /\ u \in Nat /\ x \in Nat /\ l \in Nat
      /\ m[u + l] = 0 /\ d + x \in Addr /\ m[d + x] = 0 /\ n \in Nat /\ u + n <= Cells /\ u + l < Cells
      /\ Len(Text(m, u)) = l
  <2>1. d + Len(Text(m, d)) \in Addr /\ Len(Text(m, d)) = x /\ m[d + Len(Text(m, d))] = 0
    BY EndOfText
  <2>2. u + Len(Text(m, u)) < Cells /\ Len(Text(m, u)) = l /\ m[u + Len(Text(m, u))] = 0 /\ u \in Nat /\ l \in Nat
    BY EndOfText
  <2>3. d \in Nat /\ d \in Addr /\ u \in Addr /\ x \in Nat /\ Cells \in Nat
    BY EndOfText
  <2>4. n \in Nat /\ u + n <= Cells
    BY <2>2, <2>3 DEF Room
  <2> QED BY <2>1, <2>2, <2>3, <2>4
<1>1. x + n + 1 \in Room(d) /\ Apart(d, x + n + 1, u, l + 1)
  OBVIOUS
<1>2. /\ c \in Nat /\ c <= n /\ c <= l /\ (c # n => c = l)
      /\ Cut(m, u, n) = [k \in 1 .. c |-> m[u + k - 1]]
  BY CutOfText
<1>3. p = IF n = 0 THEN m ELSE IF long THEN [CopyUp(m, d + x, u, n) EXCEPT ![d + x + n] = 0]
          ELSE strcpy(m, d + x, u)
  BY DEF strncat
<1> HIDE DEF p, x, l, c
<1>4. d + (x + n) < Cells /\ c \in 0 .. l /\ d + (x + c) < Cells
  BY <1>0, <1>1, <1>2 DEF Room
<1>5. /\ p \in Memory /\ p[d + (x + c)] = 0
      /\ \A j \in 0 .. c - 1 : p[d + x + j] = m[u + j]
      /\ Spares(p, m, d + x, c + 1)
  <2>1. CASE n = 0
    <3>1. c = 0 /\ p = m /\ d + (x + c) = d + x
      BY <2>1, <1>0, <1>2, <1>3
    <3>2. \A j \in 0 .. c - 1 : FALSE
      BY <3>1
    <3> QED BY <3>1, <3>2, <1>0 DEF Spares
  <2>2. CASE n # 0 /\ c = n
    <3> DEFINE q == CopyUp(m, d + x, u, n)
    <3>1. d + x \in Int /\ u \in Int /\ 0 <= d + x /\ 0 <= u /\ (d + x) + n <= Cells /\ u + n <= Cells
      BY <1>0, <1>4
    <3>2. Apart(d + x, n, u, n)
      BY <1>0, <1>1, <1>2, <2>2 DEF Apart
    <3>3. q \in Memory /\ (\A j \in 0 .. n - 1 : q[d + x + j] = m[u + j]) /\ Spares(q, m, d + x, n)
      BY <3>1, <3>2, <1>0, CopiedIs
    <3>4. p = [q EXCEPT ![d + x + n] = 0]
      BY <1>0, <1>3, <2>2
    <3> HIDE DEF q
    <3>5. d + x + n \in Addr /\ d + x + n = d + (x + c) /\ 0 \in Byte
      BY <1>0, <1>4, <2>2, StringAssumption DEF Addr, Byte
    <3>6. p \in Memory /\ p[d + (x + c)] = 0
      BY <3>3, <3>4, <3>5 DEF Memory
    <3>7. ASSUME NEW j \in 0 .. c - 1 PROVE p[d + x + j] = m[u + j]
      <4>1. d + x + j # d + x + n /\ j \in 0 .. n - 1 /\ d + x + j \in Addr
        BY <1>0, <1>4, <2>2 DEF Addr
      <4> QED BY <4>1, <3>3, <3>4 DEF Memory
    <3>8. Spares(p, m, d + x, c + 1)
      <4> SUFFICES ASSUME NEW a \in Addr \ (d + x .. d + x + (c + 1) - 1) PROVE p[a] = m[a]
        BY DEF Spares
      <4>1. a # d + x + n /\ a \notin d + x .. d + x + n - 1
        BY <1>0, <2>2 DEF Addr
      <4> QED BY <4>1, <3>3, <3>4 DEF Memory, Spares
    <3> QED BY <3>6, <3>7, <3>8
  <2>3. CASE n # 0 /\ c # n
    <3>1. p = strcpy(m, d + x, u) /\ c = l
      BY <1>2, <1>3, <2>3
    <3>2. l + 1 \in Room(d + x) /\ Apart(d + x, l + 1, u, l + 1)
      BY <1>0, <1>1, <1>2, <2>3 DEF Room, Apart
    <3>3. /\ p \in Memory /\ Spares(p, m, d + x, l + 1)
          /\ \A j \in 0 .. l : p[d + x + j] = m[u + j]
      BY <3>1, <3>2, <1>0, StrcpyIs DEF l
    <3>4. l \in 0 .. l /\ d + x + l = d + (x + l) /\ \A j \in 0 .. l - 1 : j \in 0 .. l
      BY <1>0
    <3> QED BY <3>1, <3>3, <3>4, <1>0
  <2> QED BY <2>1, <2>2, <2>3
<1>6. Text(p, d) = Text(m, d) \o Cut(m, u, n) /\ Spares(p, m, d, Len(Text(p, d)) + 1)
  <2>1. c \in 0 .. strlen(m, u)
    BY <1>4 DEF l
  <2>2. Text(p, d) = Text(m, d) \o Row(m, u, c) /\ Spares(p, m, d, Len(Text(p, d)) + 1)
    BY <2>1, <1>4, <1>5, AppendedIs DEF x
  <2>3. Cut(m, u, n) = Row(m, u, c)
    BY <1>2 DEF Row
  <2> QED BY <2>2, <2>3
<1> QED BY <1>5, <1>6 DEF p

-----------------------------------------------------------------------------
(* Splitting                                                               *)

\* The rest of a text is a text.
LEMMA EndedBehind ==
    ASSUME NEW m \in Memory, NEW u, IsText(m, u), NEW b \in u .. u + Len(Text(m, u))
    PROVE  IsText(m, b)
<1> DEFINE e == u + Len(Text(m, u))
<1>1. u \in Nat /\ e \in Nat /\ e < Cells /\ Cells \in Nat /\ m[e] = 0 /\ \A j \in u .. e : j \in Addr
  BY EndOfText
<1>2. b \in u .. e
  OBVIOUS
<1> HIDE DEF e
<1>3. b \in Addr /\ e \in b .. Cells - 1
  BY <1>1, <1>2
<1> QED BY <1>1, <1>3 DEF IsText

\* x is what strtok makes of the text from, and strsep of the text u.
Token(m, from, t, x) ==
    IF from = Null \/ Beside(m, from, Marks(m, t)) = {}
    THEN x.r = Null /\ x.on = Null /\ x.m = m
    ELSE LET e == Least(Within(m, x.r, Marks(m, t)))
         IN  /\ x.r = Least(Beside(m, from, Marks(m, t)))
             /\ IF e = Null THEN x.on = Null /\ x.m = m
                ELSE x.on = e + 1 /\ x.m = [m EXCEPT ![e] = 0]
Piece(m, u, t, x) ==
    /\ x.r = u
    /\ IF u = Null \/ Within(m, u, Marks(m, t)) = {} THEN x.on = Null /\ x.m = m
       ELSE LET e == Least(Within(m, u, Marks(m, t)))
            IN  x.on = e + 1 /\ x.m = [m EXCEPT ![e] = 0]

\* strtok cuts off the next token and remembers what is behind it.
LEMMA StrtokIs ==
    ASSUME NEW m \in Memory, NEW u, NEW t, IsText(m, t), NEW from,
           from = IF u # Null THEN u ELSE strtokAt, from = Null \/ IsText(m, from)
    PROVE  strtok(m, u, t).m \in Memory /\ Token(m, from, t, strtok(m, u, t))
<1> DEFINE b == from + strspn(m, from, t)
           e == strpbrk(m, b, t)
           x == strtok(m, u, t)
<1>1. x = IF from = Null THEN [m |-> m, on |-> strtokAt, r |-> Null]
          ELSE IF m[b] = 0 THEN [m |-> m, on |-> Null, r |-> Null]
          ELSE IF e = Null THEN [m |-> m, on |-> Null, r |-> b]
          ELSE [m |-> [m EXCEPT ![e] = 0], on |-> e + 1, r |-> b]
  BY DEF strtok
<1>2. \A k : [m EXCEPT ![k] = 0] \in Memory
  <2>1. 0 \in Byte
    BY StringAssumption DEF Byte
  <2> QED BY <2>1 DEF Memory
<1> HIDE DEF x, Token
<1>3. CASE from = Null
  <2>1. strtokAt = Null
    BY <1>3
  <2> QED BY <2>1, <1>1, <1>3 DEF x, Token
<1>4. CASE from # Null
  <2>1. /\ b \in from .. from + Len(Text(m, from))
        /\ m[b] = 0 <=> Beside(m, from, Marks(m, t)) = {}
        /\ m[b] # 0 => b = Least(Beside(m, from, Marks(m, t)))
    BY <1>4, StrspnIs
  <2>2. IsText(m, b)
    BY <1>4, <2>1, EndedBehind
  <2>3. e = Least(Within(m, b, Marks(m, t)))
    BY <2>2, StrpbrkIs
  <2> HIDE DEF b, e
  <2>4. CASE m[b] = 0
    <3>1. x = [m |-> m, on |-> Null, r |-> Null]
      BY <1>1, <1>4, <2>4
    <3> QED BY <3>1, <2>1, <2>4 DEF x, Token
  <2>5. CASE m[b] # 0 /\ e = Null
    <3>1. x = [m |-> m, on |-> Null, r |-> b]
      BY <1>1, <1>4, <2>5
    <3>2. x.m = m /\ x.on = Null /\ x.r = b
      BY <3>1
    <3>3. b = Least(Beside(m, from, Marks(m, t))) /\ Beside(m, from, Marks(m, t)) # {}
      BY <2>1, <2>5
    <3> QED BY <3>2, <3>3, <1>4, <2>3, <2>5 DEF x, Token
  <2>6. CASE m[b] # 0 /\ e # Null
    <3>1. x = [m |-> [m EXCEPT ![e] = 0], on |-> e + 1, r |-> b]
      BY <1>1, <1>4, <2>6
    <3>2. x.m = [m EXCEPT ![e] = 0] /\ x.on = e + 1 /\ x.r = b
      BY <3>1
    <3>3. b = Least(Beside(m, from, Marks(m, t))) /\ Beside(m, from, Marks(m, t)) # {}
      BY <2>1, <2>6
    <3>4. x.m \in Memory
      BY <3>2, <1>2
    <3>5. Least(Within(m, x.r, Marks(m, t))) = e
      BY <3>2, <2>3
    <3> QED BY <3>2, <3>3, <3>4, <3>5, <1>4, <2>6 DEF x, Token
  <2> QED BY <2>4, <2>5, <2>6
<1> QED BY <1>3, <1>4

\* strsep cuts off what is before the next mark.
LEMMA StrsepIs ==
    ASSUME NEW m \in Memory, NEW u, NEW t, IsText(m, t), u = Null \/ IsText(m, u)
    PROVE  strsep(m, u, t).m \in Memory /\ Piece(m, u, t, strsep(m, u, t))
<1> DEFINE e == strpbrk(m, u, t)
           x == strsep(m, u, t)
<1>1. x = IF u = Null THEN [m |-> m, on |-> Null, r |-> Null]
          ELSE IF e = Null THEN [m |-> m, on |-> Null, r |-> u]
          ELSE [m |-> [m EXCEPT ![e] = 0], on |-> e + 1, r |-> u]
  BY DEF strsep
<1>2. \A k : [m EXCEPT ![k] = 0] \in Memory
  <2>1. 0 \in Byte
    BY StringAssumption DEF Byte
  <2> QED BY <2>1 DEF Memory
<1> HIDE DEF x, Piece
<1>3. CASE u = Null
  BY <1>1, <1>3 DEF x, Piece
<1>4. CASE u # Null
  <2>1. e = Least(Within(m, u, Marks(m, t))) /\ (e = Null <=> Within(m, u, Marks(m, t)) = {})
    BY <1>4, StrpbrkIs
  <2> HIDE DEF e
  <2>2. CASE e = Null
    <3>1. x = [m |-> m, on |-> Null, r |-> u]
      BY <1>1, <1>4, <2>2
    <3> QED BY <3>1, <1>4, <2>1, <2>2 DEF x, Piece
  <2>3. CASE e # Null
    <3>1. x = [m |-> [m EXCEPT ![e] = 0], on |-> e + 1, r |-> u]
      BY <1>1, <1>4, <2>3
    <3>2. x.m = [m EXCEPT ![e] = 0] /\ x.on = e + 1 /\ x.r = u
      BY <3>1
    <3>3. x.m \in Memory
      BY <3>2, <1>2
    <3> QED BY <3>2, <3>3, <1>4, <2>1, <2>3 DEF x, Piece
  <2> QED BY <2>2, <2>3
<1> QED BY <1>3, <1>4

-----------------------------------------------------------------------------
(* Every call keeps its promise                                            *)

StringSpec == StringInit /\ [][StringNext]_stringVars
StringInv == mem \in Memory /\ StringsRight

\* Each kind of call returns what the comment of its function promises.
LEMMA MeasureKeeps == ASSUME StringInv, Measure PROVE StringInv'
<1>1. PICK u \in Str : \/ Looks("strlen", <<u>>, strlen(mem, u))
                       \/ \E n \in Room(u) : Looks("strnlen", <<u, n>>, strnlen(mem, u, n))
  BY DEF Measure
<1>2. mem \in Memory /\ IsText(mem, u) /\ u \in Addr
  BY DEF StringInv, Str, IsText
<1>3. CASE Looks("strlen", <<u>>, strlen(mem, u))
  <2>1. call' = [f |-> "strlen", a |-> <<u>>, r |-> strlen(mem, u), was |-> mem] /\ mem' = mem
    BY <1>3 DEF Looks, Call
  <2>2. strlen(mem, u) = Len(Text(mem, u))
    BY <1>2, EndOfText
  <2>3. Promise'
    BY <2>1, <2>2 DEF Promise
  <2> QED BY <1>2, <2>1, <2>3 DEF StringInv, StringsRight
<1>4. CASE \E n \in Room(u) : Looks("strnlen", <<u, n>>, strnlen(mem, u, n))
  <2>1. PICK n \in Room(u) : Looks("strnlen", <<u, n>>, strnlen(mem, u, n))
    BY <1>4
  <2>2. call' = [f |-> "strnlen", a |-> <<u, n>>, r |-> strnlen(mem, u, n), was |-> mem] /\ mem' = mem
    BY <2>1 DEF Looks, Call
  <2>3. strnlen(mem, u, n) = Len(Cut(mem, u, n))
    BY <1>2, StrnlenIs, CutIs
  <2>4. Promise'
    BY <2>2, <2>3 DEF Promise
  <2> QED BY <1>2, <2>2, <2>4 DEF StringInv, StringsRight
<1> QED BY <1>1, <1>3, <1>4

LEMMA CompareKeeps == ASSUME StringInv, Compare PROVE StringInv'
<1>0. mem \in Memory
  BY DEF StringInv
<1>1. ASSUME NEW u \in Str, NEW t \in Str, Looks("strcmp", <<u, t>>, strcmp(mem, u, t)) PROVE StringInv'
  <2>1. call' = [f |-> "strcmp", a |-> <<u, t>>, r |-> strcmp(mem, u, t), was |-> mem] /\ mem' = mem
    BY <1>1 DEF Looks, Call
  <2>2. strcmp(mem, u, t) = 0 <=> Text(mem, u) = Text(mem, t)
    BY <1>0, StrcmpIs DEF Str, IsText
  <2>3. Promise'
    BY <2>1, <2>2 DEF Promise
  <2> QED BY <1>0, <2>1, <2>3 DEF StringInv, StringsRight
<1>2. ASSUME NEW u \in Addr, NEW t \in Addr, NEW n \in Room(u) \cap Room(t),
             \/ Looks("memcmp", <<u, t, n>>, memcmp(mem, u, t, n))
             \/ Looks("strncmp", <<u, t, n>>, strncmp(mem, u, t, n))
             \/ Looks("strnicmp", <<u, t, n>>, strnicmp(mem, u, t, n))
      PROVE  StringInv'
  <2>1. CASE Looks("memcmp", <<u, t, n>>, memcmp(mem, u, t, n))
    <3>1. call' = [f |-> "memcmp", a |-> <<u, t, n>>, r |-> memcmp(mem, u, t, n), was |-> mem] /\ mem' = mem
      BY <2>1 DEF Looks, Call
    <3>2. memcmp(mem, u, t, n) = 0 <=> Row(mem, u, n) = Row(mem, t, n)
      BY <1>0, MemcmpIs
    <3>3. Promise'
      BY <3>1, <3>2 DEF Promise
    <3> QED BY <1>0, <3>1, <3>3 DEF StringInv, StringsRight
  <2>2. CASE Looks("strncmp", <<u, t, n>>, strncmp(mem, u, t, n))
    <3>1. call' = [f |-> "strncmp", a |-> <<u, t, n>>, r |-> strncmp(mem, u, t, n), was |-> mem] /\ mem' = mem
      BY <2>2 DEF Looks, Call
    <3>2. strncmp(mem, u, t, n) = 0 <=> Cut(mem, u, n) = Cut(mem, t, n)
      BY <1>0, StrncmpIs
    <3>3. Promise'
      BY <3>1, <3>2 DEF Promise
    <3> QED BY <1>0, <3>1, <3>3 DEF StringInv, StringsRight
  <2>3. CASE Looks("strnicmp", <<u, t, n>>, strnicmp(mem, u, t, n))
    <3>1. call' = [f |-> "strnicmp", a |-> <<u, t, n>>, r |-> strnicmp(mem, u, t, n), was |-> mem] /\ mem' = mem
      BY <2>3 DEF Looks, Call
    <3>2. strnicmp(mem, u, t, n) = 0 <=> Fold(Cut(mem, u, n)) = Fold(Cut(mem, t, n))
      BY <1>0, StrnicmpIs
    <3>3. Promise'
      BY <3>1, <3>2 DEF Promise
    <3> QED BY <1>0, <3>1, <3>3 DEF StringInv, StringsRight
  <2> QED BY <1>2, <2>1, <2>2, <2>3
<1> QED BY <1>1, <1>2 DEF Compare

LEMMA FindKeeps == ASSUME StringInv, Find PROVE StringInv'
<1>0. mem \in Memory
  BY DEF StringInv
<1>1. ASSUME NEW u \in Str, NEW c \in Byte,
             \/ Looks("strchr", <<u, c>>, strchr(mem, u, c))
             \/ Looks("strrchr", <<u, c>>, strrchr(mem, u, c))
      PROVE  StringInv'
  <2>0. IsText(mem, u)
    BY DEF Str, IsText
  <2>1. CASE Looks("strchr", <<u, c>>, strchr(mem, u, c))
    <3>1. call' = [f |-> "strchr", a |-> <<u, c>>, r |-> strchr(mem, u, c), was |-> mem] /\ mem' = mem
      BY <2>1 DEF Looks, Call
    <3>2. strchr(mem, u, c) = Least({k \in u .. u + Len(Text(mem, u)) : mem[k] = c})
      BY <1>0, <2>0, StrchrIs
    <3>3. Promise'
      BY <3>1, <3>2 DEF Promise
    <3> QED BY <1>0, <3>1, <3>3 DEF StringInv, StringsRight
  <2>2. CASE Looks("strrchr", <<u, c>>, strrchr(mem, u, c))
    <3>1. call' = [f |-> "strrchr", a |-> <<u, c>>, r |-> strrchr(mem, u, c), was |-> mem] /\ mem' = mem
      BY <2>2 DEF Looks, Call
    <3>2. strrchr(mem, u, c) = Greatest({k \in u .. u + Len(Text(mem, u)) : mem[k] = c})
      BY <1>0, <2>0, StrrchrIs
    <3>3. Promise'
      BY <3>1, <3>2 DEF Promise
    <3> QED BY <1>0, <3>1, <3>3 DEF StringInv, StringsRight
  <2> QED BY <1>1, <2>1, <2>2
<1>2. ASSUME NEW u \in Addr, NEW c \in Byte, NEW n \in Room(u),
             \/ Looks("memscan", <<u, c, n>>, memscan(mem, u, c, n))
             \/ Looks("memchr", <<u, c, n>>, memchr(mem, u, c, n))
      PROVE  StringInv'
  <2>0. /\ memscan(mem, u, c, n) = Least(Places(mem, u, n, c) \cup {u + n})
        /\ memchr(mem, u, c, n) = Least(Places(mem, u, n, c))
    BY <1>0, MemscanIs
  <2>1. CASE Looks("memscan", <<u, c, n>>, memscan(mem, u, c, n))
    <3>1. call' = [f |-> "memscan", a |-> <<u, c, n>>, r |-> memscan(mem, u, c, n), was |-> mem] /\ mem' = mem
      BY <2>1 DEF Looks, Call
    <3>2. Promise'
      BY <3>1, <2>0 DEF Promise, Places
    <3> QED BY <1>0, <3>1, <3>2 DEF StringInv, StringsRight
  <2>2. CASE Looks("memchr", <<u, c, n>>, memchr(mem, u, c, n))
    <3>1. call' = [f |-> "memchr", a |-> <<u, c, n>>, r |-> memchr(mem, u, c, n), was |-> mem] /\ mem' = mem
      BY <2>2 DEF Looks, Call
    <3>2. Promise'
      BY <3>1, <2>0 DEF Promise, Places
    <3> QED BY <1>0, <3>1, <3>2 DEF StringInv, StringsRight
  <2> QED BY <1>2, <2>1, <2>2
<1>3. ASSUME NEW u \in Str, NEW t \in Str,
             \/ Looks("strspn", <<u, t>>, strspn(mem, u, t))
             \/ Looks("strpbrk", <<u, t>>, strpbrk(mem, u, t))
             \/ Looks("strstr", <<u, t>>, strstr(mem, u, t))
      PROVE  StringInv'
  <2>0. IsText(mem, u) /\ IsText(mem, t)
    BY DEF Str, IsText
  <2>1. CASE Looks("strspn", <<u, t>>, strspn(mem, u, t))
    <3>1. call' = [f |-> "strspn", a |-> <<u, t>>, r |-> strspn(mem, u, t), was |-> mem] /\ mem' = mem
      BY <2>1 DEF Looks, Call
    <3>2. u + strspn(mem, u, t) = Least(Beside(mem, u, Marks(mem, t)) \cup {u + Len(Text(mem, u))})
      BY <1>0, <2>0, StrspnIs
    <3>3. Promise'
      BY <3>1, <3>2 DEF Promise, Beside
    <3> QED BY <1>0, <3>1, <3>3 DEF StringInv, StringsRight
  <2>2. CASE Looks("strpbrk", <<u, t>>, strpbrk(mem, u, t))
    <3>1. call' = [f |-> "strpbrk", a |-> <<u, t>>, r |-> strpbrk(mem, u, t), was |-> mem] /\ mem' = mem
      BY <2>2 DEF Looks, Call
    <3>2. strpbrk(mem, u, t) = Least(Within(mem, u, Marks(mem, t)))
      BY <1>0, <2>0, StrpbrkIs
    <3>3. Promise'
      BY <3>1, <3>2 DEF Promise, Within
    <3> QED BY <1>0, <3>1, <3>3 DEF StringInv, StringsRight
  <2>3. CASE Looks("strstr", <<u, t>>, strstr(mem, u, t))
    <3>1. call' = [f |-> "strstr", a |-> <<u, t>>, r |-> strstr(mem, u, t), was |-> mem] /\ mem' = mem
      BY <2>3 DEF Looks, Call
    <3>2. strstr(mem, u, t) = Least({k \in u .. u + Len(Text(mem, u)) :
                                       /\ k + Len(Text(mem, t)) <= u + Len(Text(mem, u))
                                       /\ Row(mem, k, Len(Text(mem, t))) = Text(mem, t)})
      BY <1>0, <2>0, StrstrIs
    <3>3. Promise'
      BY <3>1, <3>2 DEF Promise
    <3> QED BY <1>0, <3>1, <3>3 DEF StringInv, StringsRight
  <2> QED BY <1>3, <2>1, <2>2, <2>3
<1>4. QED
  <2>1. CASE \E u \in Str, c \in Byte : \/ Looks("strchr", <<u, c>>, strchr(mem, u, c))
                                        \/ Looks("strrchr", <<u, c>>, strrchr(mem, u, c))
    BY <2>1, <1>1
  <2>2. CASE \E u \in Addr, c \in Byte : \E n \in Room(u) :
                \/ Looks("memscan", <<u, c, n>>, memscan(mem, u, c, n))
                \/ Looks("memchr", <<u, c, n>>, memchr(mem, u, c, n))
    BY <2>2, <1>2
  <2>3. CASE \E u, t \in Str : \/ Looks("strspn", <<u, t>>, strspn(mem, u, t))
                               \/ Looks("strpbrk", <<u, t>>, strpbrk(mem, u, t))
                               \/ Looks("strstr", <<u, t>>, strstr(mem, u, t))
    BY <2>3, <1>3
  <2> QED BY <2>1, <2>2, <2>3 DEF Find

LEMMA MoveKeeps == ASSUME StringInv, Move PROVE StringInv'
<1>0. mem \in Memory
  BY DEF StringInv
<1>1. PICK d \in Addr, u \in Addr : \E n \in Room(d) \cap Room(u) :
          \/ Writes("memmove", <<d, u, n>>, memmove(mem, d, u, n), d)
          \/ /\ Apart(d, n, u, n)
             /\ Writes("memcpy", <<d, u, n>>, memcpy(mem, d, u, n), d)
          \/ u \in Byte /\ Writes("memset", <<d, u, n>>, memset(mem, d, u, n), d)
  BY DEF Move
<1>2. PICK n \in Room(d) \cap Room(u) :
          \/ Writes("memmove", <<d, u, n>>, memmove(mem, d, u, n), d)
          \/ /\ Apart(d, n, u, n)
             /\ Writes("memcpy", <<d, u, n>>, memcpy(mem, d, u, n), d)
          \/ u \in Byte /\ Writes("memset", <<d, u, n>>, memset(mem, d, u, n), d)
  BY <1>1
<1>3. CASE Writes("memmove", <<d, u, n>>, memmove(mem, d, u, n), d)
  <2>1. call' = [f |-> "memmove", a |-> <<d, u, n>>, r |-> d, was |-> mem] /\ mem' = memmove(mem, d, u, n)
    BY <1>3 DEF Writes, Call
  <2>2. mem' \in Memory /\ Row(mem', d, n) = Row(mem, u, n) /\ Spares(mem', mem, d, n)
    BY <1>0, <2>1, MemmoveIs
  <2>3. Promise'
    BY <2>1, <2>2 DEF Promise, Spares, Keeps
  <2> QED BY <2>2, <2>3 DEF StringInv, StringsRight
<1>4. CASE Apart(d, n, u, n) /\ Writes("memcpy", <<d, u, n>>, memcpy(mem, d, u, n), d)
  <2>1. call' = [f |-> "memcpy", a |-> <<d, u, n>>, r |-> d, was |-> mem] /\ mem' = memcpy(mem, d, u, n)
    BY <1>4 DEF Writes, Call
  <2>2. mem' \in Memory /\ Row(mem', d, n) = Row(mem, u, n) /\ Spares(mem', mem, d, n)
    BY <1>0, <1>4, <2>1, MemcpyIs
  <2>3. Promise'
    BY <2>1, <2>2 DEF Promise, Spares, Keeps
  <2> QED BY <2>2, <2>3 DEF StringInv, StringsRight
<1>5. CASE u \in Byte /\ Writes("memset", <<d, u, n>>, memset(mem, d, u, n), d)
  <2>1. call' = [f |-> "memset", a |-> <<d, u, n>>, r |-> d, was |-> mem] /\ mem' = memset(mem, d, u, n)
    BY <1>5 DEF Writes, Call
  <2>2. mem' \in Memory /\ (\A k \in d .. d + n - 1 : mem'[k] = u) /\ Spares(mem', mem, d, n)
    BY <1>0, <1>5, <2>1, MemsetIs
  <2>3. Promise'
    BY <2>1, <2>2 DEF Promise, Spares, Keeps
  <2> QED BY <2>2, <2>3 DEF StringInv, StringsRight
<1> QED BY <1>2, <1>3, <1>4, <1>5

LEMMA CopyKeeps == ASSUME StringInv, Copy PROVE StringInv'
<1>0. mem \in Memory
  BY DEF StringInv
<1>1. PICK d \in Addr, u \in Str :
          LET ls == strlen(mem, u) + 1 IN
          \/ /\ ls \in Room(d) /\ Apart(d, ls, u, ls)
             /\ Writes("strcpy", <<d, u>>, strcpy(mem, d, u), d)
          \/ \E n \in Room(d) : /\ Apart(d, n, u, ls)
                                /\ n \in Room(u)
                                /\ Writes("strncpy", <<d, u, n>>, strncpy(mem, d, u, n), d)
  BY DEF Copy
<1>2. IsText(mem, u)
  BY DEF Str, IsText
<1>3. CASE /\ strlen(mem, u) + 1 \in Room(d) /\ Apart(d, strlen(mem, u) + 1, u, strlen(mem, u) + 1)
           /\ Writes("strcpy", <<d, u>>, strcpy(mem, d, u), d)
  <2>1. call' = [f |-> "strcpy", a |-> <<d, u>>, r |-> d, was |-> mem] /\ mem' = strcpy(mem, d, u)
    BY <1>3 DEF Writes, Call
  <2>2. mem' \in Memory /\ Text(mem', d) = Text(mem, u) /\ Spares(mem', mem, d, Len(Text(mem, u)) + 1)
    BY <1>0, <1>2, <1>3, <2>1, StrcpyIs
  <2>3. Promise'
    BY <2>1, <2>2 DEF Promise, Spares, Keeps
  <2> QED BY <2>2, <2>3 DEF StringInv, StringsRight
<1>4. CASE \E n \in Room(d) : /\ Apart(d, n, u, strlen(mem, u) + 1)
                              /\ n \in Room(u)
                              /\ Writes("strncpy", <<d, u, n>>, strncpy(mem, d, u, n), d)
  <2>0. PICK n \in Room(d) \cap Room(u) : /\ Apart(d, n, u, strlen(mem, u) + 1)
                                          /\ Writes("strncpy", <<d, u, n>>, strncpy(mem, d, u, n), d)
    BY <1>4
  <2>1. call' = [f |-> "strncpy", a |-> <<d, u, n>>, r |-> d, was |-> mem] /\ mem' = strncpy(mem, d, u, n)
    BY <2>0 DEF Writes, Call
  <2>2. mem' \in Memory /\ Cut(mem', d, n) = Cut(mem, u, n) /\ Spares(mem', mem, d, n)
    BY <1>0, <1>2, <2>0, <2>1, StrncpyIs
  <2>3. Promise'
    BY <2>1, <2>2 DEF Promise, Spares, Keeps
  <2> QED BY <2>2, <2>3 DEF StringInv, StringsRight
<1> QED BY <1>1, <1>3, <1>4

LEMMA ConcatKeeps == ASSUME StringInv, Concat PROVE StringInv'
<1>0. mem \in Memory
  BY DEF StringInv
<1>1. PICK d \in Str, u \in Str :
          LET ld == strlen(mem, d)
              ls == strlen(mem, u) + 1 IN
          \/ /\ ld + ls \in Room(d) /\ Apart(d, ld + ls, u, ls)
             /\ Writes("strcat", <<d, u>>, strcat(mem, d, u), d)
          \/ \E n \in Room(u) : /\ ld + n + 1 \in Room(d) /\ Apart(d, ld + n + 1, u, ls)
                                /\ Writes("strncat", <<d, u, n>>, strncat(mem, d, u, n), d)
  BY DEF Concat
<1>2. IsText(mem, u) /\ IsText(mem, d)
  BY DEF Str, IsText
<1>3. CASE /\ strlen(mem, d) + (strlen(mem, u) + 1) \in Room(d)
           /\ Apart(d, strlen(mem, d) + (strlen(mem, u) + 1), u, strlen(mem, u) + 1)
           /\ Writes("strcat", <<d, u>>, strcat(mem, d, u), d)
  <2>1. call' = [f |-> "strcat", a |-> <<d, u>>, r |-> d, was |-> mem] /\ mem' = strcat(mem, d, u)
    BY <1>3 DEF Writes, Call
  <2>2. /\ mem' \in Memory /\ Text(mem', d) = Text(mem, d) \o Text(mem, u)
        /\ Spares(mem', mem, d, Len(Text(mem', d)) + 1)
    BY <1>0, <1>2, <1>3, <2>1, StrcatIs
  <2>3. Promise'
    BY <2>1, <2>2 DEF Promise, Spares, Keeps
  <2> QED BY <2>2, <2>3 DEF StringInv, StringsRight
<1>4. CASE \E n \in Room(u) : /\ strlen(mem, d) + n + 1 \in Room(d)
                              /\ Apart(d, strlen(mem, d) + n + 1, u, strlen(mem, u) + 1)
                              /\ Writes("strncat", <<d, u, n>>, strncat(mem, d, u, n), d)
  <2>0. PICK n \in Room(u) : /\ strlen(mem, d) + n + 1 \in Room(d)
                             /\ Apart(d, strlen(mem, d) + n + 1, u, strlen(mem, u) + 1)
                             /\ Writes("strncat", <<d, u, n>>, strncat(mem, d, u, n), d)
    BY <1>4
  <2>1. call' = [f |-> "strncat", a |-> <<d, u, n>>, r |-> d, was |-> mem] /\ mem' = strncat(mem, d, u, n)
    BY <2>0 DEF Writes, Call
  <2>2. /\ mem' \in Memory /\ Text(mem', d) = Text(mem, d) \o Cut(mem, u, n)
        /\ Spares(mem', mem, d, Len(Text(mem', d)) + 1)
    BY <1>0, <1>2, <2>0, <2>1, StrncatIs
  <2>3. Promise'
    BY <2>1, <2>2 DEF Promise, Spares, Keeps
  <2> QED BY <2>2, <2>3 DEF StringInv, StringsRight
<1> QED BY <1>1, <1>3, <1>4

LEMMA SplitKeeps == ASSUME StringInv, Split PROVE StringInv'
<1>0. mem \in Memory
  BY DEF StringInv
<1>1. PICK t \in Str :
          \/ \E u \in Str \cup {Null} :
                LET x == strtok(mem, u, t) IN
                /\ u = Null => strtokAt \in Str \cup {Null}
                /\ Call("strtok", <<IF u = Null THEN strtokAt ELSE u, t>>, x.r)
                /\ mem' = x.m /\ strtokAt' = x.on
          \/ \E u \in Str \cup {Null} :
                LET x == strsep(mem, u, t)
                IN  /\ Call("strsep", <<u, t, x.on>>, x.r)
                    /\ mem' = x.m /\ UNCHANGED strtokAt
  BY DEF Split
<1>2. IsText(mem, t) /\ \A u \in Str \cup {Null} : u = Null \/ IsText(mem, u)
  BY DEF Str, IsText
<1>3. ASSUME NEW u \in Str \cup {Null}, u = Null => strtokAt \in Str \cup {Null},
             Call("strtok", <<IF u = Null THEN strtokAt ELSE u, t>>, strtok(mem, u, t).r),
             mem' = strtok(mem, u, t).m, strtokAt' = strtok(mem, u, t).on
      PROVE  StringInv'
  <2> DEFINE from == IF u # Null THEN u ELSE strtokAt
             x == strtok(mem, u, t)
  <2>1. call' = [f |-> "strtok", a |-> <<from, t>>, r |-> x.r, was |-> mem] /\ mem' = x.m /\ strtokAt' = x.on
    BY <1>3 DEF Call
  <2>2. from = Null \/ IsText(mem, from)
    BY <1>2, <1>3
  <2>3. x.m \in Memory /\ Token(mem, from, t, x)
    BY <1>0, <1>2, <2>2, StrtokIs
  <2> HIDE DEF x, from
  <2>4. call'.f = "strtok" /\ call'.was = mem /\ call'.a[1] = from /\ call'.a[2] = t /\ call'.r = x.r
    BY <2>1
  <2>5. Promise'
    BY <2>1, <2>3, <2>4 DEF Promise, Token, Beside, Within
  <2> QED BY <2>1, <2>3, <2>5 DEF StringInv, StringsRight
<1>4. ASSUME NEW u \in Str \cup {Null},
             Call("strsep", <<u, t, strsep(mem, u, t).on>>, strsep(mem, u, t).r),
             mem' = strsep(mem, u, t).m, UNCHANGED strtokAt
      PROVE  StringInv'
  <2> DEFINE x == strsep(mem, u, t)
  <2>1. call' = [f |-> "strsep", a |-> <<u, t, x.on>>, r |-> x.r, was |-> mem] /\ mem' = x.m
    BY <1>4 DEF Call
  <2>2. u = Null \/ IsText(mem, u)
    BY <1>2
  <2>3. x.m \in Memory /\ Piece(mem, u, t, x)
    BY <1>0, <1>2, <2>2, StrsepIs
  <2> HIDE DEF x
  <2>4. /\ call'.f = "strsep" /\ call'.was = mem /\ call'.r = x.r
        /\ call'.a[1] = u /\ call'.a[2] = t /\ call'.a[3] = x.on
    BY <2>1
  <2>5. Promise'
    BY <2>1, <2>3, <2>4 DEF Promise, Piece, Within
  <2> QED BY <2>1, <2>3, <2>5 DEF StringInv, StringsRight
<1> QED BY <1>1, <1>3, <1>4

\* Before the first call nothing is promised.
LEMMA StringStarts == StringInit => StringInv
  BY DEF StringInit, StringInv, StringsRight, Memory

LEMMA StringStep == StringInv /\ [StringNext]_stringVars => StringInv'
<1> SUFFICES ASSUME StringInv, [StringNext]_stringVars PROVE StringInv'
  OBVIOUS
<1>1. CASE StringReturn
  BY <1>1 DEF StringReturn, StringInv, StringsRight
<1>2. CASE UNCHANGED stringVars
  BY <1>2 DEF StringInv, StringsRight, Promise, Keeps, stringVars
<1> QED BY <1>1, <1>2, MeasureKeeps, CompareKeeps, FindKeeps, MoveKeeps, CopyKeeps, ConcatKeeps, SplitKeeps
        DEF StringNext

\* For any memory, alphabet and table of lower-case letters and any calls one after
\* the other: each function of string.c keeps the promise of its comment.
THEOREM StringsAlwaysRight == StringSpec => []StringsRight
<1>1. StringInv => StringsRight
  BY DEF StringInv
<1> QED BY <1>1, StringStarts, StringStep, PTL DEF StringSpec

-----------------------------------------------------------------------------
(* Printf: the numbers.  What number() prints is laid out as blanks, a sign, *)
(* a prefix, zeros, digits and blanks again; the padding is found where it   *)
(* was put, and the digits between are read back one after the other.        *)

\* What has been read of the digits before the k-th
Reads(v, x, base, table) ==
    /\ v \in [0 .. Len(x) -> Int]
    /\ v[0] = 0
    /\ \A k \in 1 .. Len(x) : v[k] = base * v[k - 1] + Index(x[k], table)

\* A digit stands for one number.
LEMMA IndexIs == ASSUME NEW c, NEW table PROVE (\E k \in 0 .. 15 : table[k + 1] = c) => Index(c, table) \in 0 .. 15
  BY DEF Index

\* Digits can be read one after the other.
LEMMA ReaderExists ==
    ASSUME NEW X, NEW x \in Seq(X), NEW base \in Int, NEW table,
           \A k \in 1 .. Len(x) : Index(x[k], table) \in Int
    PROVE  \E v : Reads(v, x, base, table)
<1> DEFINE Upto(v, m) == /\ v \in [0 .. m -> Int]
                         /\ v[0] = 0
                         /\ \A k \in 1 .. m : v[k] = base * v[k - 1] + Index(x[k], table)
           Bad == {m \in Nat : m <= Len(x) /\ ~\E v : Upto(v, m)}
<1>0. Len(x) \in Nat
  OBVIOUS
<1>1. Bad = {}
  <2> SUFFICES ASSUME Bad # {} PROVE FALSE
    OBVIOUS
  <2>1. PICK m \in Bad : \A j \in Bad : m <= j
    BY Smallest
  <2>2. CASE m = 0
    <3> DEFINE v == [k \in 0 .. 0 |-> 0]
    <3>1. Upto(v, 0)
      OBVIOUS
    <3> QED BY <3>1, <2>1, <2>2
  <2>3. CASE m # 0
    <3>1. m - 1 \in Nat /\ m - 1 <= Len(x) /\ m - 1 \notin Bad
      <4>1. m \in Nat /\ m <= Len(x) /\ m - 1 \in Nat /\ ~(m <= m - 1) /\ m - 1 <= Len(x)
        BY <2>1, <2>3, <1>0
      <4> QED BY <4>1, <2>1
    <3>2. PICK v : Upto(v, m - 1)
      BY <3>1
    <3> DEFINE more == base * v[m - 1] + Index(x[m], table)
               w == [k \in 0 .. m |-> IF k = m THEN more ELSE v[k]]
    <3>3. m \in 1 .. Len(x) /\ m - 1 \in 0 .. m - 1
      BY <2>1, <2>3, <1>0
    <3>4. more \in Int
      <4>1. v[m - 1] \in Int /\ Index(x[m], table) \in Int
        BY <3>2, <3>3
      <4>2. \A p, q, r \in Int : p * q + r \in Int
        OBVIOUS
      <4> QED BY <4>1, <4>2
    <3> HIDE DEF more
    <3>5. \A k \in 0 .. m : k # m => k \in 0 .. m - 1
      BY <3>3
    <3>6. w \in [0 .. m -> Int] /\ w[0] = 0
      <4>1. w[0] = 0
        <5>1. 0 \in 0 .. m /\ 0 # m
          BY <3>3
        <5> QED BY <5>1, <3>2
      <4>2. \A k \in 0 .. m - 1 : v[k] \in Int
        BY <3>2
      <4> QED BY <4>1, <4>2, <3>4, <3>5
    <3>7. ASSUME NEW k \in 1 .. m PROVE w[k] = base * w[k - 1] + Index(x[k], table)
      <4>1. k \in 0 .. m /\ k - 1 \in 0 .. m /\ k - 1 # m
        OBVIOUS
      <4>2. w[k - 1] = v[k - 1]
        BY <4>1
      <4>3. CASE k = m
        BY <4>1, <4>2, <4>3 DEF more
      <4>4. CASE k # m
        <5>1. w[k] = v[k] /\ k \in 1 .. m - 1
          BY <4>4, <3>5, <4>1
        <5> HIDE DEF w
        <5> QED BY <5>1, <4>2, <3>2
      <4> QED BY <4>3, <4>4
    <3>8. Upto(w, m)
      <4> HIDE DEF w
      <4> QED BY <3>6, <3>7
    <3> QED BY <3>8, <2>1
  <2> QED BY <2>2, <2>3
<1>2. PICK v : Upto(v, Len(x))
  <2>1. \A m \in Nat : m <= Len(x) => \E v : Upto(v, m)
    <3> HIDE DEF Upto
    <3> QED BY <1>1
  <2>2. Len(x) <= Len(x)
    BY <1>0
  <2> HIDE DEF Upto
  <2> QED BY <1>0, <2>1, <2>2
<1>3. Reads(v, x, base, table)
  BY <1>2 DEF Reads
<1> QED BY <1>3

\* ReadBack is where such a reading ends.
LEMMA ReadBackIs ==
    ASSUME NEW X, NEW x \in Seq(X), NEW base \in Int, NEW table, NEW v, Reads(v, x, base, table)
    PROVE  ReadBack(x, base, table) = v[Len(x)]
<1> DEFINE w == CHOOSE g : g = [k \in 0 .. Len(x) |->
                                  IF k = 0 THEN 0 ELSE base * g[k - 1] + Index(x[k], table)]
<1>0. Len(x) \in Nat
  OBVIOUS
<1>1. \E g : g = [k \in 0 .. Len(x) |-> IF k = 0 THEN 0 ELSE base * g[k - 1] + Index(x[k], table)]
  <2>1. v = [k \in 0 .. Len(x) |-> v[k]]
    BY DEF Reads
  <2>2. ASSUME NEW k \in 0 .. Len(x)
        PROVE  v[k] = IF k = 0 THEN 0 ELSE base * v[k - 1] + Index(x[k], table)
    <3>1. k # 0 => k \in 1 .. Len(x)
      BY <1>0
    <3> QED BY <3>1 DEF Reads
  <2>3. v = [k \in 0 .. Len(x) |-> IF k = 0 THEN 0 ELSE base * v[k - 1] + Index(x[k], table)]
    BY <2>1, <2>2
  <2> QED BY <2>3
<1>2. w = [k \in 0 .. Len(x) |-> IF k = 0 THEN 0 ELSE base * w[k - 1] + Index(x[k], table)]
  BY <1>1
<1>3. ReadBack(x, base, table) = w[Len(x)]
  BY DEF ReadBack
<1> HIDE DEF w
<1>4. \A k \in 0 .. Len(x) : w[k] = IF k = 0 THEN 0 ELSE base * w[k - 1] + Index(x[k], table)
  BY <1>2
<1> DEFINE Bad == {k \in 0 .. Len(x) : w[k] # v[k]}
<1>5. Bad = {}
  <2> SUFFICES ASSUME Bad # {} PROVE FALSE
    OBVIOUS
  <2>1. Bad \in SUBSET Nat
    OBVIOUS
  <2>2. PICK m \in Bad : \A j \in Bad : m <= j
    BY <2>1, Smallest
  <2>3. CASE m = 0
    <3>1. w[0] = 0
      BY <1>4, <1>0
    <3> QED BY <2>2, <2>3, <3>1 DEF Reads
  <2>4. CASE m # 0
    <3>1. m \in 1 .. Len(x) /\ m - 1 \in 0 .. Len(x) /\ ~(m <= m - 1)
      BY <2>2, <2>4, <1>0
    <3>2. w[m - 1] = v[m - 1]
      BY <3>1, <2>2
    <3>3. w[m] = base * w[m - 1] + Index(x[m], table)
      BY <1>4, <2>2, <2>4
    <3>4. v[m] = base * v[m - 1] + Index(x[m], table)
      BY <3>1 DEF Reads
    <3> QED BY <3>2, <3>3, <3>4, <2>2
  <2> QED BY <2>3, <2>4
<1> QED BY <1>0, <1>3, <1>5

\* One more digit
LEMMA ReadMore ==
    ASSUME NEW X, NEW x \in Seq(X), NEW c \in X, NEW base \in Int, NEW table,
           \A d \in X : Index(d, table) \in Int
    PROVE  /\ ReadBack(x, base, table) \in Int
           /\ ReadBack(Append(x, c), base, table) = base * ReadBack(x, base, table) + Index(c, table)
<1> DEFINE n == Len(x)
           y == Append(x, c)
<1>0. n \in Nat /\ y \in Seq(X) /\ Len(y) = n + 1 /\ y[n + 1] = c /\ (\A k \in 1 .. n : y[k] = x[k] /\ x[k] \in X)
  OBVIOUS
<1>1. PICK v : Reads(v, x, base, table)
  BY <1>0, ReaderExists
<1>2. PICK w : Reads(w, y, base, table)
  <2>1. \A k \in 1 .. Len(y) : Index(y[k], table) \in Int
    <3> HIDE DEF n, y
    <3>1. \A k \in 1 .. Len(y) : y[k] \in X
      BY <1>0
    <3> QED BY <3>1
  <2> HIDE DEF y
  <2> QED BY <2>1, <1>0, ReaderExists
<1>3. ReadBack(x, base, table) = v[n]
  BY <1>1, ReadBackIs
<1>4. ReadBack(y, base, table) = w[n + 1]
  <2> HIDE DEF y
  <2> QED BY <1>0, <1>2, ReadBackIs
<1> HIDE DEF y
<1>5. Reads([k \in 0 .. n |-> w[k]], x, base, table)
  <2> DEFINE u == [k \in 0 .. n |-> w[k]]
  <2>1. \A k \in 0 .. n : k \in 0 .. Len(y)
    BY <1>0
  <2>2. u \in [0 .. n -> Int] /\ u[0] = 0
    <3>1. \A k \in 0 .. n : w[k] \in Int
      BY <2>1, <1>2 DEF Reads
    <3>2. w[0] = 0 /\ 0 \in 0 .. n
      BY <1>0, <1>2 DEF Reads
    <3> QED BY <3>1, <3>2
  <2>3. ASSUME NEW k \in 1 .. n PROVE u[k] = base * u[k - 1] + Index(x[k], table)
    <3>1. k \in 1 .. Len(y) /\ k \in 0 .. n /\ k - 1 \in 0 .. n /\ y[k] = x[k]
      BY <1>0
    <3>2. w[k] = base * w[k - 1] + Index(y[k], table)
      BY <3>1, <1>2 DEF Reads
    <3> QED BY <3>1, <3>2
  <2> HIDE DEF u
  <2>4. Reads(u, x, base, table)
    BY <2>2, <2>3 DEF Reads
  <2> QED BY <2>4 DEF u
<1>6. ReadBack(x, base, table) = w[n]
  <2> DEFINE u == [k \in 0 .. n |-> w[k]]
  <2>1. u[n] = w[n]
    BY <1>0
  <2>2. Reads(u, x, base, table)
    BY <1>5
  <2> HIDE DEF u
  <2>3. ReadBack(x, base, table) = u[n]
    BY <2>2, ReadBackIs
  <2> QED BY <2>1, <2>3
<1>7. w[n + 1] = base * w[n] + Index(c, table) /\ w[n] \in Int
  <2>1. n + 1 \in 1 .. Len(y) /\ (n + 1) - 1 = n /\ n \in 0 .. Len(y) /\ y[n + 1] = c
    BY <1>0
  <2>2. w[n + 1] = base * w[(n + 1) - 1] + Index(y[n + 1], table) /\ w[n] \in Int
    BY <2>1, <1>2 DEF Reads
  <2> QED BY <2>1, <2>2
<1> QED BY <1>4, <1>6, <1>7 DEF y

\* Zeros say nothing.
LEMMA ReadZeros ==
    ASSUME NEW X, NEW x \in Seq(X), NEW base \in Int, NEW table, \A k \in 1 .. Len(x) : Index(x[k], table) = 0
    PROVE  ReadBack(x, base, table) = 0
<1> DEFINE v == [k \in 0 .. Len(x) |-> 0]
<1>0. Len(x) \in Nat
  OBVIOUS
<1>1. v \in [0 .. Len(x) -> Int] /\ v[0] = 0
  BY <1>0
<1>2. ASSUME NEW k \in 1 .. Len(x) PROVE v[k] = base * v[k - 1] + Index(x[k], table)
  <2>1. k \in 0 .. Len(x) /\ k - 1 \in 0 .. Len(x)
    BY <1>0
  <2>2. v[k] = 0 /\ v[k - 1] = 0 /\ Index(x[k], table) = 0 /\ base * 0 + 0 = 0
    BY <2>1
  <2> QED BY <2>2
<1>3. v[Len(x)] = 0
  BY <1>0
<1> HIDE DEF v
<1>4. Reads(v, x, base, table)
  BY <1>1, <1>2 DEF Reads
<1> QED BY <1>3, <1>4, ReadBackIs

-----------------------------------------------------------------------------
\* What a field is filled with, and no digit or sign is
Blank == " "

\* A blank is none of the other characters of a number, and no flag number() adds.
LEMMA BlankIs == Blank \notin {"-", "+", "0", "x", "X", "LARGE", "SIGN"}
  BY Zenon DEF Blank

Table == {Small, Large}

\* No two digits look the same, and none looks like a blank or a sign.
LEMMA TableRows ==
    ASSUME NEW table \in Table
    PROVE  /\ table[1] = "0"
           /\ \A j, k \in 1 .. 16 : table[j] = table[k] => j = k
           /\ \A k \in 1 .. 16 : table[k] \notin {Blank, "-", "+"}
<1>1. CASE table = Small
  BY <1>1 DEF Small, Blank
<1>2. CASE table = Large
  BY <1>2 DEF Large, Blank
<1> QED BY <1>1, <1>2 DEF Table

\* The table shows each digit as itself.
LEMMA DigitsShow ==
    ASSUME NEW table \in Table, NEW d \in 0 .. 15
    PROVE  Index(table[d + 1], table) = d
<1>1. \A k \in 0 .. 15 : table[k + 1] = table[d + 1] => k = d
  <2> TAKE k \in 0 .. 15
  <2>1. k + 1 \in 1 .. 16 /\ d + 1 \in 1 .. 16
    OBVIOUS
  <2>2. table[k + 1] = table[d + 1] => k + 1 = d + 1
    BY <2>1, TableRows
  <2> QED BY <2>2
<1> QED BY <1>1 DEF Index

\* What digits look like
Shown(x, table) == [k \in DOMAIN x |-> table[x[k] + 1]]
Figure(table) == {table[k + 1] : k \in 0 .. 15}

\* \o as an operator of its own, which the provers need not look into
Cat(x, y) == x \o y

\* Digits are shown one after the other.
LEMMA ShownMore ==
    ASSUME NEW table \in Table, NEW x \in Seq(0 .. 15), NEW d \in 0 .. 15
    PROVE  /\ Shown(x, table) \in Seq(Figure(table)) /\ Len(Shown(x, table)) = Len(x)
           /\ Shown(Append(x, d), table) = Append(Shown(x, table), table[d + 1])
<1> DEFINE n == Len(x)
           y == Append(x, d)
<1>0. n \in Nat /\ DOMAIN x = 1 .. n /\ \A k \in 1 .. n : x[k] \in 0 .. 15
  OBVIOUS
<1>1. ASSUME NEW z \in Seq(0 .. 15) PROVE Shown(z, table) \in Seq(Figure(table)) /\ Len(Shown(z, table)) = Len(z)
  <2>1. Len(z) \in Nat /\ DOMAIN z = 1 .. Len(z) /\ \A k \in 1 .. Len(z) : z[k] \in 0 .. 15
    OBVIOUS
  <2>2. \A k \in 1 .. Len(z) : table[z[k] + 1] \in Figure(table)
    BY <2>1 DEF Figure
  <2>3. Shown(z, table) = [k \in 1 .. Len(z) |-> table[z[k] + 1]]
    BY <2>1 DEF Shown
  <2> QED BY <2>1, <2>2, <2>3
<1>2. y \in Seq(0 .. 15) /\ Len(y) = n + 1 /\ DOMAIN y = 1 .. n + 1 /\ y[n + 1] = d /\ \A k \in 1 .. n : y[k] = x[k]
  OBVIOUS
<1> HIDE DEF y
<1> DEFINE p == Shown(x, table)
           q == Append(p, table[d + 1])
<1>3. p \in Seq(Figure(table)) /\ Len(p) = n /\ \A k \in 1 .. n : p[k] = table[x[k] + 1]
  BY <1>0, <1>1 DEF Shown
<1> HIDE DEF p
<1>4. table[d + 1] \in Figure(table)
  BY DEF Figure
<1>5. q \in Seq(Figure(table)) /\ Len(q) = n + 1 /\ q[n + 1] = table[d + 1] /\ \A k \in 1 .. n : q[k] = p[k]
  BY <1>3, <1>4, <1>0
<1> HIDE DEF q
<1>6. Shown(y, table) = q
  <2>1. Shown(y, table) = [k \in 1 .. n + 1 |-> table[y[k] + 1]]
    BY <1>2 DEF Shown
  <2>2. q = [k \in 1 .. n + 1 |-> q[k]]
    BY <1>5
  <2>3. ASSUME NEW k \in 1 .. n + 1 PROVE q[k] = table[y[k] + 1]
    <3>1. k = n + 1 \/ k \in 1 .. n
      BY <1>0
    <3> QED BY <3>1, <1>2, <1>3, <1>5
  <2> QED BY <2>1, <2>2, <2>3
<1> QED BY <1>1, <1>6 DEF y, q, p

\* The digits do_div leaves, behind any zeros, read back as the number; the
\* first of several is not a zero.
ZerosBefore(base, n, table, zs) ==
    /\ base \in {8, 10, 16} /\ n \in Nat /\ table \in Table
    /\ zs \in Seq(Figure(table)) /\ \A k \in 1 .. Len(zs) : zs[k] = "0"
DigitsShown(x, base, n, table, zs) ==
    /\ x \in Seq(0 .. 15) /\ Len(x) \in Nat \ {0}
    /\ Len(x) > 1 => x[1] # 0
    /\ ReadBack(Cat(zs, Shown(x, table)), base, table) = n

\* The digits number() finds, shown behind any zeros, read as the number they are of.
LEMMA DigitsTrue ==
    ASSUME NEW base, NEW n, NEW table, NEW zs, ZerosBefore(base, n, table, zs)
    PROVE  DigitsShown(DigitsOf(n, base), base, n, table, zs)
<1> DEFINE got == DigitsOf(n, base)
<1> SUFFICES ASSUME base \in {8, 10, 16}, n \in Nat, table \in Table,
                    zs \in Seq(Figure(table)), \A k \in 1 .. Len(zs) : zs[k] = "0"
             PROVE  /\ got \in Seq(0 .. 15) /\ Len(got) \in Nat \ {0}
                    /\ Len(got) > 1 => got[1] # 0
                    /\ ReadBack(Cat(zs, Shown(got, table)), base, table) = n
  BY Zenon DEF ZerosBefore, DigitsShown
<1> DEFINE f == CHOOSE g : g = [k \in 0 .. n |-> IF k = 0 THEN <<>> ELSE Append(g[k \div base], k % base)]
<1>1. f = [k \in 0 .. n |-> IF k = 0 THEN <<>> ELSE Append(f[k \div base], k % base)]
  <2>1. \E g : g = [k \in 0 .. n |-> IF k = 0 THEN <<>> ELSE Append(g[k \div base], k % base)]
    BY DigitsExist DEF DigitStep
  <2> QED BY <2>1
<1>2. DigitsOf(n, base) = IF n = 0 THEN <<0>> ELSE f[n]
  BY DEF DigitsOf
<1> HIDE DEF f
<1>3. \A k \in 0 .. n : f[k] = IF k = 0 THEN <<>> ELSE Append(f[k \div base], k % base)
  BY <1>1
<1> DEFINE RB(y) == ReadBack(Cat(zs, Shown(y, table)), base, table)
           Good(k, x) == /\ x \in Seq(0 .. 15)
                         /\ k > 0 => Len(x) \in Nat \ {0} /\ x[1] # 0
                         /\ RB(x) = k
           Bad == {k \in 0 .. n : ~Good(k, f[k])}
<1>4. table[1] = "0" /\ \A d \in 0 .. 15 : Index(table[d + 1], table) = d
  BY TableRows, DigitsShow
<1>5. Index("0", table) = 0 /\ "0" \in Figure(table)
  <2>1. 0 \in 0 .. 15 /\ 0 + 1 = 1
    OBVIOUS
  <2> QED BY <1>4, <2>1 DEF Figure
<1>6. \A c \in Figure(table) : Index(c, table) \in Int
  BY <1>4 DEF Figure
<1>7. ASSUME NEW x \in Seq(0 .. 15), NEW r \in 0 .. 15
      PROVE  RB(x) \in Int /\ RB(Append(x, r)) = base * RB(x) + r
  <2> DEFINE p == Shown(x, table)
             c == table[r + 1]
  <2>1. p \in Seq(Figure(table)) /\ Shown(Append(x, r), table) = Append(p, c)
    BY ShownMore
  <2>2. c \in Figure(table) /\ Index(c, table) = r
    BY <1>4 DEF Figure
  <2> HIDE DEF p, c
  <2>3. zs \o p \in Seq(Figure(table)) /\ zs \o Append(p, c) = Append(zs \o p, c)
    BY <2>1, <2>2
  <2>4. ASSUME NEW y \in Seq(Figure(table))
        PROVE  /\ ReadBack(y, base, table) \in Int
               /\ ReadBack(Append(y, c), base, table) = base * ReadBack(y, base, table) + Index(c, table)
    <3>1. base \in Int
      OBVIOUS
    <3> QED BY <3>1, <2>2, <1>6, ReadMore
  <2> QED BY <2>1, <2>2, <2>3, <2>4 DEF p, Cat
<1>8. RB(<<>>) = 0
  <2>1. Shown(<<>>, table) = <<>>
    BY DEF Shown
  <2>2. zs \o <<>> = zs
    OBVIOUS
  <2>3. \A k \in 1 .. Len(zs) : Index(zs[k], table) = 0
    BY <1>5
  <2>4. ReadBack(zs, base, table) = 0
    BY <2>3, ReadZeros
  <2> QED BY <2>1, <2>2, <2>4 DEF Cat
<1>9. <<>> \in Seq(0 .. 15)
  OBVIOUS
<1>10. Bad = {}
  <2> SUFFICES ASSUME Bad # {} PROVE FALSE
    OBVIOUS
  <2>1. Bad \in SUBSET Nat
    OBVIOUS
  <2>2. PICK m \in Bad : \A j \in Bad : m <= j
    BY <2>1, Smallest
  <2> HIDE DEF RB
  <2>3. CASE m = 0
    <3>1. f[0] = <<>>
      BY <1>3, 0 \in 0 .. n
    <3>2. Good(0, f[0])
      BY <3>1, <1>8, <1>9
    <3> QED BY <2>2, <2>3, <3>2
  <2>4. CASE m # 0
    <3> DEFINE q == m \div base
               r == m % base
    <3>1. m \in 0 .. n /\ m \in Nat \ {0}
      BY <2>2, <2>4
    <3>2. q \in 0 .. m - 1 /\ r \in 0 .. 15
      BY <3>1, Divided
    <3>3. m = base * q + r
      <4>1. CASE base = 8
        BY <4>1, <3>1
      <4>2. CASE base = 10
        BY <4>2, <3>1
      <4>3. CASE base = 16
        BY <4>3, <3>1
      <4> QED BY <4>1, <4>2, <4>3
    <3>4. f[m] = Append(f[q], r)
      BY <1>3, <3>1
    <3> HIDE DEF q, r
    <3>5. q \in 0 .. n /\ q \notin Bad
      BY <3>1, <3>2, <2>2
    <3>6. Good(q, f[q])
      BY <3>5
    <3>7. RB(f[m]) = m
      BY <3>2, <3>3, <3>4, <3>6, <1>7
    <3>8. f[m] \in Seq(0 .. 15) /\ Len(f[m]) = Len(f[q]) + 1 /\ Len(f[q]) \in Nat /\ Len(f[m]) \in Nat \ {0}
      BY <3>2, <3>4, <3>6
    <3>9. f[m][1] # 0
      <4>1. CASE q = 0
        <5>1. f[q] = <<>>
          BY <4>1, <1>3, <3>5
        <5>2. f[m][1] = r
          BY <5>1, <3>4
        <5>3. r = m
          <6>1. base * 0 = 0
            OBVIOUS
          <6> QED BY <6>1, <4>1, <3>3, <3>2, <3>1
        <5> QED BY <5>2, <5>3, <2>4
      <4>2. CASE q # 0
        <5>1. Len(f[q]) \in Nat \ {0} /\ f[q][1] # 0 /\ f[q] \in Seq(0 .. 15)
          <6>1. q > 0
            BY <4>2, <3>5
          <6> QED BY <6>1, <3>6
        <5>2. f[m][1] = f[q][1]
          BY <5>1, <3>4, <3>2
        <5> QED BY <5>1, <5>2
      <4> QED BY <4>1, <4>2
    <3>10. Good(m, f[m])
      BY <3>7, <3>8, <3>9
    <3> QED BY <3>10, <2>2
  <2> QED BY <2>3, <2>4
<1>11. CASE n # 0
  <2> HIDE DEF RB
  <2>1. n \in 0 .. n /\ n > 0
    BY <1>11
  <2>2. Good(n, f[n])
    BY <2>1, <1>10
  <2>3. DigitsOf(n, base) = f[n]
    BY <1>2, <1>11
  <2> QED BY <2>1, <2>2, <2>3 DEF RB
<1>12. CASE n = 0
  <2>1. DigitsOf(n, base) = <<0>> /\ <<0>> = Append(<<>>, 0) /\ <<0>> \in Seq(0 .. 15) /\ Len(<<0>>) = 1
    BY <1>2, <1>12
  <2> HIDE DEF RB
  <2>2. RB(Append(<<>>, 0)) = base * 0 + 0
    BY <1>7, <1>8, <1>9, 0 \in 0 .. 15
  <2>3. RB(<<0>>) = 0
    BY <2>1, <2>2
  <2> QED BY <2>1, <2>3, <1>12 DEF RB
<1> QED BY <1>11, <1>12

\* What the conversion of an argument hands to number(): the number that is
\* meant, or what is missing from it to 2^64 when it is negative.
LEMMA ArgumentTrue ==
    ASSUME NEW l, l.arg \in Numbers
    PROVE  LET value == ValueOf(l)
               num   == ArgumentOf(l.arg, l.qual, l.conv = "d")
           IN  /\ value \in Int
               /\ value < 0 => l.conv = "d" /\ Negative(num) /\ 2^LongLongBits - num = -value
               /\ value >= 0 => num = value /\ (l.conv = "d" => ~Negative(num))
<1> DEFINE bits == IF l.qual = "L" THEN LongLongBits ELSE IF l.qual = "h" THEN ShortBits ELSE IntBits
           raw  == l.arg % 2^bits
           value == ValueOf(l)
           num   == ArgumentOf(l.arg, l.qual, l.conv = "d")
<1>1. /\ bits \in Nat \ {0} /\ bits <= LongLongBits /\ LongLongBits \in Nat \ {0}
      /\ l.qual = "z" => bits < LongLongBits
  BY PrintfAssumption
<1>2. value = IF l.conv = "d" /\ l.qual # "z" /\ raw >= 2^(bits - 1) THEN raw - 2^bits ELSE raw
  BY DEF ValueOf
<1>3. num = IF l.conv = "d" /\ l.qual # "z" THEN Extend(raw, bits) ELSE raw
  BY DEF ArgumentOf
<1>4. Extend(raw, bits) = IF raw >= 2^(bits - 1) THEN raw + 2^LongLongBits - 2^bits ELSE raw
  BY DEF Extend
<1>5. Negative(num) <=> num >= 2^(LongLongBits - 1)
  BY DEF Negative
<1>6. l.arg \in Nat
  <2>1. Numbers \subseteq 0 .. 2^LongLongBits - 1 /\ 2^LongLongBits \in Nat
    BY PrintfAssumption, PowersOfTwo
  <2>2. PICK m \in Nat : m = 2^LongLongBits
    BY <2>1
  <2>3. \A j \in Numbers : j \in 0 .. m - 1
    BY <2>1, <2>2
  <2> QED BY <2>3
<1> HIDE DEF bits, value, num
<1>7. \E h, u, w, v \in Nat : /\ h = 2^(bits - 1) /\ u = 2^bits /\ w = 2^(LongLongBits - 1) /\ v = 2^LongLongBits
                              /\ h > 0 /\ w > 0 /\ u = 2 * h /\ v = 2 * w /\ h <= w
                              /\ bits < LongLongBits => u <= w
  <2>1. /\ bits - 1 \in 0 .. LongLongBits - 1 /\ bits - 1 \in Nat /\ LongLongBits - 1 \in Nat
        /\ (bits - 1) + 1 = bits /\ (LongLongBits - 1) + 1 = LongLongBits
        /\ bits < LongLongBits => bits \in 0 .. LongLongBits - 1
    BY <1>1
  <2>2. /\ 2^(bits - 1) \in Nat \ {0} /\ 2^bits \in Nat /\ 2^(LongLongBits - 1) \in Nat \ {0} /\ 2^LongLongBits \in Nat
    BY <1>1, <2>1, PowersOfTwo
  <2>3. 2^bits = 2 * 2^(bits - 1) /\ 2^LongLongBits = 2 * 2^(LongLongBits - 1)
    BY <2>1, Doubled
  <2>4. 2^(bits - 1) <= 2^(LongLongBits - 1) /\ (bits < LongLongBits => 2^bits <= 2^(LongLongBits - 1))
    BY <2>1, PowersOfTwo
  <2> QED BY <2>2, <2>3, <2>4
<1>8. PICK h, u, w, v \in Nat : /\ h = 2^(bits - 1) /\ u = 2^bits /\ w = 2^(LongLongBits - 1) /\ v = 2^LongLongBits
                                /\ h > 0 /\ w > 0 /\ u = 2 * h /\ v = 2 * w /\ h <= w
                                /\ bits < LongLongBits => u <= w
  BY <1>7
<1>9. raw \in 0 .. u - 1
  <2>1. \A j \in Nat, m \in Nat : m > 0 => j % m \in 0 .. m - 1
    OBVIOUS
  <2>2. u > 0
    BY <1>8
  <2> QED BY <1>6, <1>8, <2>1, <2>2
<1> HIDE DEF raw
<1>10. /\ value = IF l.conv = "d" /\ l.qual # "z" /\ raw >= h THEN raw - u ELSE raw
       /\ num = IF l.conv = "d" /\ l.qual # "z" /\ raw >= h THEN (raw + v) - u ELSE raw
       /\ Negative(num) <=> num >= w
  <2>1. raw + v - u = (raw + v) - u
    BY <1>9, <1>8
  <2> QED BY <1>2, <1>3, <1>4, <1>5, <1>8, <2>1
<1>11. CASE l.conv = "d" /\ l.qual # "z" /\ raw >= h
  <2>1. value = raw - u /\ num = (raw + v) - u
    BY <1>10, <1>11
  <2>2. value \in Int /\ value < 0 /\ num >= w /\ v - num = -value
    BY <2>1, <1>8, <1>9, <1>11
  <2> QED BY <2>2, <1>10, <1>11, <1>8 DEF value, num
<1>12. CASE ~(l.conv = "d" /\ l.qual # "z" /\ raw >= h)
  <2>1. value = raw /\ num = raw /\ raw \in Nat
    BY <1>10, <1>12, <1>9
  <2>2. ASSUME l.conv = "d" PROVE ~(raw >= w)
    <3>1. CASE l.qual = "z"
      <4>1. u <= w
        BY <3>1, <1>1, <1>8
      <4> QED BY <4>1, <1>9, <1>8
    <3>2. CASE l.qual # "z"
      <4>1. ~(raw >= h)
        BY <3>2, <2>2, <1>12
      <4> QED BY <4>1, <1>9, <1>8
    <3> QED BY <3>1, <3>2
  <2>3. value \in Int /\ value >= 0 /\ ~(value < 0) /\ num = value
    BY <2>1
  <2> QED BY <2>1, <2>2, <2>3, <1>10 DEF value, num
<1> QED BY <1>11, <1>12

-----------------------------------------------------------------------------
\* Putting texts together is associative.
LEMMA Associates ==
    \A X : \A x, y, z \in Seq(X) : Cat(Cat(x, y), z) = Cat(x, Cat(y, z)) /\ Cat(x, y) \in Seq(X)
  BY DEF Cat

\* Three texts one behind the other
LEMMA InARow ==
    ASSUME NEW X, NEW x \in Seq(X), NEW y \in Seq(X), NEW z \in Seq(X)
    PROVE  LET text == (x \o y) \o z
           IN  /\ text \in Seq(X) /\ Len(text) = (Len(x) + Len(y)) + Len(z)
               /\ \A k \in 1 .. Len(x) : text[k] = x[k]
               /\ \A k \in 1 .. Len(y) : text[Len(x) + k] = y[k]
               /\ \A k \in 1 .. Len(z) : text[(Len(x) + Len(y)) + k] = z[k]
<1> DEFINE w == x \o y
           text == w \o z
<1>0. Len(x) \in Nat /\ Len(y) \in Nat /\ Len(z) \in Nat
  OBVIOUS
<1>1. /\ w \in Seq(X) /\ Len(w) = Len(x) + Len(y)
      /\ \A k \in 1 .. Len(x) + Len(y) : w[k] = IF k <= Len(x) THEN x[k] ELSE y[k - Len(x)]
  BY Joined DEF OneAfter
<1> HIDE DEF w
<1>2. /\ text \in Seq(X) /\ Len(text) = Len(w) + Len(z)
      /\ \A k \in 1 .. Len(w) + Len(z) : text[k] = IF k <= Len(w) THEN w[k] ELSE z[k - Len(w)]
  BY <1>1, Joined DEF OneAfter
<1> HIDE DEF text
<1>3. PICK a \in Nat, b \in Nat, c \in Nat : a = Len(x) /\ b = Len(y) /\ c = Len(z)
  BY <1>0
<1>4. /\ \A k \in 1 .. a : k \in 1 .. a + b /\ k <= a + b /\ k \in 1 .. (a + b) + c
      /\ \A k \in 1 .. b : a + k \in 1 .. a + b /\ a + k <= a + b /\ ~(a + k <= a) /\ (a + k) - a = k
                          /\ a + k \in 1 .. (a + b) + c
      /\ \A k \in 1 .. c : (a + b) + k \in 1 .. (a + b) + c /\ ~((a + b) + k <= a + b) /\ ((a + b) + k) - (a + b) = k
  OBVIOUS
<1>5. /\ \A k \in 1 .. a + b : w[k] = IF k <= a THEN x[k] ELSE y[k - a]
      /\ \A k \in 1 .. (a + b) + c : text[k] = IF k <= a + b THEN w[k] ELSE z[k - (a + b)]
  BY <1>1, <1>2, <1>3
<1>6. \A k \in 1 .. a : text[k] = x[k]
  BY <1>4, <1>5
<1>7. \A k \in 1 .. b : text[a + k] = y[k]
  <2> TAKE k \in 1 .. b
  <2>1. text[a + k] = w[a + k] /\ w[a + k] = y[(a + k) - a]
    BY <1>4, <1>5
  <2> QED BY <2>1, <1>4
<1>8. \A k \in 1 .. c : text[(a + b) + k] = z[k]
  <2> TAKE k \in 1 .. c
  <2>1. text[(a + b) + k] = z[((a + b) + k) - (a + b)]
    BY <1>4, <1>5
  <2> QED BY <2>1, <1>4
<1> QED BY <1>1, <1>2, <1>3, <1>6, <1>7, <1>8 DEF w, text

\* a blanks, n other characters and b blanks
Blanked(text, a, n, b) ==
    /\ DOMAIN text = 1 .. (a + n) + b
    /\ \A k \in 1 .. a : text[k] = Blank
    /\ \A k \in 1 .. n : text[a + k] # Blank
    /\ \A k \in 1 .. b : text[(a + n) + k] = Blank

\* A text between blanks is what is filled, from its first character to its last.
LEMMA BetweenBlanks ==
    ASSUME NEW a \in Nat, NEW n \in Nat \ {0}, NEW b \in Nat, NEW text, Blanked(text, a, n, b)
    PROVE  /\ Filled(text) = a + 1 .. a + n
           /\ Leftmost(Filled(text)) = a + 1 /\ Rightmost(Filled(text)) = a + n
<1> DEFINE first == a + 1
           final == a + n
<1>1. ASSUME NEW k \in 1 .. (a + n) + b PROVE text[k] # Blank <=> k \in first .. final
  <2>1. CASE k <= a
    <3>1. k \in 1 .. a /\ k \notin first .. final
      BY <2>1
    <3> QED BY <3>1 DEF Blanked
  <2>2. CASE a < k /\ k <= a + n
    <3>1. k - a \in 1 .. n /\ a + (k - a) = k /\ k \in first .. final
      BY <2>2
    <3>2. text[a + (k - a)] # Blank
      BY <3>1 DEF Blanked
    <3> QED BY <3>1, <3>2
  <2>3. CASE k > a + n
    <3>1. k - (a + n) \in 1 .. b /\ (a + n) + (k - (a + n)) = k /\ k \notin first .. final
      BY <2>3
    <3>2. text[(a + n) + (k - (a + n))] = Blank
      BY <3>1 DEF Blanked
    <3> QED BY <3>1, <3>2
  <2>4. k <= a \/ (a < k /\ k <= a + n) \/ k > a + n
    OBVIOUS
  <2> QED BY <2>1, <2>2, <2>3, <2>4, Zenon
<1>2. Filled(text) = first .. final
  <2>1. first .. final \subseteq 1 .. (a + n) + b
    OBVIOUS
  <2> HIDE DEF first, final
  <2>2. DOMAIN text = 1 .. (a + n) + b
    BY DEF Blanked
  <2> QED BY <2>1, <2>2, <1>1, Zenon DEF Filled, Blank
<1>3. first \in first .. final /\ final \in first .. final /\ first \in Int /\ final \in Int
  OBVIOUS
<1> HIDE DEF first, final
<1>4. Leftmost(first .. final) = first
  <2>1. \A k \in first .. final : (\A j \in first .. final : k <= j) <=> k = first
    BY <1>3
  <2> QED BY <2>1, <1>3 DEF Leftmost
<1>5. Rightmost(first .. final) = final
  <2>1. \A k \in first .. final : (\A j \in first .. final : k >= j) <=> k = final
    BY <1>3
  <2> QED BY <2>1, <1>3 DEF Rightmost
<1> QED BY <1>2, <1>4, <1>5 DEF first, final

\* A part of a text
HasPart(X, text, a, d, digits) ==
    /\ text \in Seq(X) /\ a \in Nat /\ d \in Nat /\ a + d <= Len(text)
    /\ digits \in Seq(X) /\ Len(digits) = d
    /\ \A k \in 1 .. d : text[a + k] = digits[k]

\* A text that has another one as a part holds it between those places.
LEMMA PartOf ==
    ASSUME NEW X, NEW text, NEW a, NEW d, NEW digits, HasPart(X, text, a, d, digits)
    PROVE  SubSeq(text, a + 1, a + d) = digits
<1> USE DEF HasPart
<1> DEFINE q == SubSeq(text, a + 1, a + d)
<1>1. q \in Seq(X) /\ Len(q) = d
  OBVIOUS
<1>2. \A k \in 1 .. d : q[k] = text[a + k]
  OBVIOUS
<1> HIDE DEF q
<1>3. q = [k \in 1 .. d |-> q[k]] /\ digits = [k \in 1 .. d |-> digits[k]]
  BY <1>1
<1> QED BY <1>2, <1>3 DEF q

Marks3 == {<<>>, <<"-">>, <<"+">>}

\* Neither blank nor sign is in a text.
Unsigned(x) == \A k \in 1 .. Len(x) : x[k] \notin {Blank, "-", "+"}

\* A sign is no text or one character, and the minus is told by it.
LEMMA MarksAre3 ==
    ASSUME NEW mark \in Marks3
    PROVE  /\ mark = <<>> <=> Len(mark) = 0
           /\ mark # <<>> => Len(mark) = 1 /\ mark[1] \in {"-", "+"} /\ (mark = <<"-">> <=> mark[1] = "-")
<1>1. CASE mark = <<>>
  BY <1>1
<1>2. CASE mark = <<"-">>
  BY <1>2
<1>3. CASE mark = <<"+">>
  BY <1>3
<1> QED BY <1>1, <1>2, <1>3 DEF Marks3

\* Sign, prefix and digits of a text
Core(X, core, mark, digits, h, d) ==
    /\ core \in Seq(X) /\ Len(core) = h + d
    /\ core[1] \in {"-", "+"} <=> mark # <<>>
    /\ core[1] = "-" <=> mark = <<"-">>
    /\ \A k \in 1 .. d : core[h + k] = digits[k]
    /\ \A k \in 1 .. h + d : core[k] # Blank

\* A sign, a prefix and digits
LEMMA CoreIs ==
    ASSUME NEW X, NEW mark \in Seq(X), NEW prefix \in Seq(X), NEW digits \in Seq(X),
           mark \in Marks3, Unsigned(prefix), Unsigned(digits), Len(digits) \in Nat \ {0},
           NEW core, core = Cat(Cat(mark, prefix), digits)
    PROVE  Core(X, core, mark, digits, Len(mark) + Len(prefix), Len(digits)) /\ Len(mark) + Len(prefix) \in Nat
<1>1. /\ core \in Seq(X) /\ Len(core) = (Len(mark) + Len(prefix)) + Len(digits)
      /\ \A k \in 1 .. Len(mark) : core[k] = mark[k]
      /\ \A k \in 1 .. Len(prefix) : core[Len(mark) + k] = prefix[k]
      /\ \A k \in 1 .. Len(digits) : core[(Len(mark) + Len(prefix)) + k] = digits[k]
  BY InARow DEF Cat
<1>2. PICK m \in Nat, p \in Nat, d \in Nat \ {0} : m = Len(mark) /\ p = Len(prefix) /\ d = Len(digits)
  OBVIOUS
<1>3. /\ Len(core) = (m + p) + d
      /\ \A k \in 1 .. m : core[k] = mark[k]
      /\ \A k \in 1 .. p : core[m + k] = prefix[k] /\ prefix[k] \notin {Blank, "-", "+"}
      /\ \A k \in 1 .. d : core[(m + p) + k] = digits[k] /\ digits[k] \notin {Blank, "-", "+"}
  BY <1>1, <1>2 DEF Unsigned
<1>4. /\ mark = <<>> <=> m = 0
      /\ mark # <<>> => m = 1 /\ mark[1] \in {"-", "+"} /\ (mark = <<"-">> <=> mark[1] = "-")
  BY <1>2, MarksAre3
<1>5. ASSUME NEW k \in 1 .. (m + p) + d, k > m PROVE core[k] \notin {Blank, "-", "+"}
  <2>1. CASE k <= m + p
    <3>1. k - m \in 1 .. p /\ m + (k - m) = k
      BY <2>1, <1>5
    <3> QED BY <3>1, <1>3
  <2>2. CASE k > m + p
    <3>1. k - (m + p) \in 1 .. d /\ (m + p) + (k - (m + p)) = k
      BY <2>2, <1>5
    <3> QED BY <3>1, <1>3
  <2>3. k <= m + p \/ k > m + p
    OBVIOUS
  <2> QED BY <2>1, <2>2, <2>3
<1>6. 1 \in 1 .. (m + p) + d
  OBVIOUS
<1>7. mark = <<>> => core[1] \notin {Blank, "-", "+"} /\ mark # <<"-">>
  <2> SUFFICES ASSUME mark = <<>> PROVE core[1] \notin {Blank, "-", "+"} /\ mark # <<"-">>
    OBVIOUS
  <2>1. 1 > m
    BY <1>4
  <2>2. <<>> # <<"-">>
    OBVIOUS
  <2> QED BY <2>1, <2>2, <1>5, <1>6
<1>8. mark # <<>> => core[1] = mark[1] /\ mark[1] \in {"-", "+"} /\ (mark = <<"-">> <=> mark[1] = "-")
  <2> SUFFICES ASSUME mark # <<>> PROVE core[1] = mark[1]
    BY <1>4
  <2>1. 1 \in 1 .. m
    BY <1>4
  <2> QED BY <2>1, <1>3
<1>9. ASSUME NEW k \in 1 .. (m + p) + d PROVE core[k] # Blank
  <2>1. CASE k > m
    BY <2>1, <1>5
  <2>2. CASE ~(k > m)
    <3>1. m # 0 /\ m <= 1
      BY <2>2, <1>4
    <3>2. k = 1 /\ mark # <<>>
      BY <2>2, <3>1, <1>4
    <3> QED BY <3>2, <1>8, BlankIs
  <2> QED BY <2>1, <2>2
<1>10. Len(mark) + Len(prefix) \in Nat
  BY <1>2
<1>11. /\ core \in Seq(X) /\ Len(core) = (m + p) + d
       /\ core[1] \in {"-", "+"} <=> mark # <<>>
       /\ core[1] = "-" <=> mark = <<"-">>
       /\ \A k \in 1 .. d : core[(m + p) + k] = digits[k]
       /\ \A k \in 1 .. (m + p) + d : core[k] # Blank
  BY <1>1, <1>3, <1>7, <1>8, <1>9
<1> QED BY <1>2, <1>10, <1>11, Zenon DEF Core

Up(n) == IF n > 0 THEN n ELSE 0

\* How many blanks stand in front and behind, and how many zeros before the digits
Sized(a, z, b, f, pad, front, short) ==
    IF "-" \in f THEN a = front /\ z = Up(short) /\ b = Up(pad)
    ELSE IF "0" \in f THEN a = front /\ z = Up(pad) + Up(short) /\ b = 0
    ELSE a = Up(pad) + front /\ z = Up(short) /\ b = 0

\* Sign, prefix, precision and padding add up to the width.
Sizing(width, prec, front, h, d, f, a, z, b) ==
    /\ width \in Int /\ prec \in Int /\ front \in {0, 1} /\ h \in Nat /\ d \in Nat \ {0}
    /\ Sized(a, z, b, f, (width - (front + h)) - Most(prec, d), front, prec - d)

\* What number() leaves for blanks and zeros makes the width and the precision full.
LEMMA Widths ==
    ASSUME NEW width, NEW prec, NEW front, NEW h, NEW d, NEW f, NEW a, NEW z, NEW b,
           Sizing(width, prec, front, h, d, f, a, z, b)
    PROVE  LET len == (a + (h + (z + d))) + b
           IN  /\ a \in Nat /\ z \in Nat /\ b \in Nat
               /\ z + d >= prec /\ len >= width
               /\ "-" \in f => a = front
               /\ "-" \notin f => b = 0
               /\ "0" \in f /\ "-" \notin f => a = front
               /\ z + d > Most(prec, 1) /\ len # width => z = 0 /\ d > 1
               /\ b # 0 \/ a > front => len = Most(width, (front + h) + Most(prec, z + d))
<1>0. /\ width \in Int /\ prec \in Int /\ front \in {0, 1} /\ h \in Nat /\ d \in Nat \ {0}
      /\ Sized(a, z, b, f, (width - (front + h)) - Most(prec, d), front, prec - d)
  BY Zenon DEF Sizing
<1> DEFINE pad == (width - (front + h)) - Most(prec, d)
           minus == "-" \in f
           zero == "0" \in f
<1>1. IF minus THEN a = front /\ z = Up(prec - d) /\ b = Up(pad)
      ELSE IF zero THEN a = front /\ z = Up(pad) + Up(prec - d) /\ b = 0
      ELSE a = Up(pad) + front /\ z = Up(prec - d) /\ b = 0
  BY <1>0 DEF Sized
<1>2. minus \in BOOLEAN /\ zero \in BOOLEAN
  OBVIOUS
<1> HIDE DEF minus, zero
<1>3. front = 0 \/ front = 1
  BY <1>0
<1>4. CASE minus
  <2>1. a = front /\ z = Up(prec - d) /\ b = Up(pad)
    BY <1>1, <1>4
  <2> QED BY <1>0, <1>3, <1>4, <2>1 DEF Up, Most, minus, zero
<1>5. CASE ~minus /\ zero
  <2>1. a = front /\ z = Up(pad) + Up(prec - d) /\ b = 0
    BY <1>1, <1>5
  <2> QED BY <1>0, <1>3, <1>5, <2>1 DEF Up, Most, minus, zero
<1>6. CASE ~minus /\ ~zero
  <2>1. a = Up(pad) + front /\ z = Up(prec - d) /\ b = 0
    BY <1>1, <1>6
  <2> QED BY <1>0, <1>3, <1>6, <2>1 DEF Up, Most, minus, zero
<1> QED BY <1>4, <1>5, <1>6

\* Repeat gives as many as it is asked for.
LEMMA Repeats0 ==
    ASSUME NEW c, NEW n \in Int
    PROVE  Repeat(c, n) \in Seq({c}) /\ Len(Repeat(c, n)) = Up(n) /\ Up(n) \in Nat
<1>1. Up(n) \in Nat
  BY DEF Up
<1>2. Repeat(c, n) = [k \in 1 .. Up(n) |-> c]
  BY DEF Repeat, Up
<1> QED BY <1>1, <1>2

\* A sequence has a length.
LEMMA Counted == ASSUME NEW S, NEW x \in Seq(S) PROVE Len(x) \in Nat
  OBVIOUS

\* The length of two texts in a row
LEMMA LengthsAdd ==
    ASSUME NEW S, NEW x \in Seq(S), NEW y \in Seq(S)
    PROVE  x \o y \in Seq(S) /\ Len(x \o y) = Len(x) + Len(y)
  OBVIOUS

\* The empty text
LEMMA NoText == \A S : <<>> \in Seq(S) /\ Len(<<>>) = 0
  OBVIOUS

\* Nothing before a length
LEMMA NoMore == \A n \in Nat : 0 + n = n
  OBVIOUS

\* A sequence of one
LEMMA OneOf ==
    ASSUME NEW X, NEW q \in Seq(X), Len(q) = 1
    PROVE  q = [k \in 1 .. 1 |-> q[1]]
<1>1. q = [k \in 1 .. 1 |-> q[k]]
  OBVIOUS
<1>2. \A k \in 1 .. 1 : q[k] = q[1]
  <2>1. \A k \in 1 .. 1 : k = 1
    OBVIOUS
  <2> QED BY <2>1
<1> QED BY <1>1, <1>2, Zenon

\* So many blanks, and so many zeros
Blanks(n)  == Repeat(Blank, n)
Noughts(n) == Repeat("0", n)

\* One blank
LEMMA OneBlank == Repeat(Blank, 1) = <<Blank>>
<1>1. Repeat(Blank, 1) = [k \in 1 .. 1 |-> Blank]
  BY DEF Repeat
<1>2. \A c : <<c>> \in Seq({c}) /\ Len(<<c>>) = 1 /\ <<c>>[1] = c
  OBVIOUS
<1>3. ASSUME NEW c, NEW q, q = <<c>> PROVE q = [k \in 1 .. 1 |-> c]
  <2>1. q \in Seq({c}) /\ Len(q) = 1 /\ q[1] = c
    BY <1>2, <1>3
  <2>2. q = [k \in 1 .. 1 |-> q[1]]
    <3> HIDE <1>3
    <3> QED BY <2>1, OneOf
  <2> QED BY <2>1, <2>2, Zenon
<1>4. <<Blank>> = [k \in 1 .. 1 |-> Blank]
  BY <1>3
<1> QED BY <1>1, <1>4

\* There are as many as there shall be.
LEMMA Blanked0 ==
    ASSUME NEW n \in Int
    PROVE  /\ Blanks(n) \in Seq({Blank}) /\ Len(Blanks(n)) = Up(n)
           /\ Noughts(n) \in Seq({"0"}) /\ Len(Noughts(n)) = Up(n)
           /\ Up(n) \in Nat
  BY Repeats0 DEF Blanks, Noughts

\* Padding with no blank and with one
LEMMA FewBlanks == Blanks(0) = <<>> /\ Blanks(1) = <<Blank>>
<1>1. Blanks(0) = <<>>
  BY DEF Blanks, Repeat
<1> QED BY <1>1, OneBlank DEF Blanks

\* All that number() prints
Ink(table) == {Blank, "-", "+", "0", "x", "X"} \cup Figure(table)

\* What is in a sequence may be in one of more values.
LEMMA MoreInk == ASSUME NEW A, NEW B, A \subseteq B PROVE Seq(A) \subseteq Seq(B)
  OBVIOUS

\* Blanks, zeros, digits and marks are ink.
LEMMA InkTexts ==
    ASSUME NEW table
    PROVE  /\ Seq({Blank}) \subseteq Seq(Ink(table)) /\ Seq({"0"}) \subseteq Seq(Ink(table))
           /\ Seq(Figure(table)) \subseteq Seq(Ink(table))
           /\ Marks3 \subseteq Seq(Ink(table))
<1>1. {Blank} \subseteq Ink(table) /\ {"0"} \subseteq Ink(table) /\ Figure(table) \subseteq Ink(table)
  BY DEF Ink
<1>2. Marks3 \subseteq Seq(Ink(table))
  <2>1. "-" \in Ink(table) /\ "+" \in Ink(table)
    BY DEF Ink
  <2>2. <<>> \in Seq(Ink(table)) /\ <<"-">> \in Seq(Ink(table)) /\ <<"+">> \in Seq(Ink(table))
    BY <2>1
  <2> QED BY <2>2 DEF Marks3
<1> QED BY <1>1, <1>2, MoreInk

\* The prefixes are ink, hold no sign and are as long as # makes them.
LEMMA PrefixIs ==
    ASSUME NEW table, NEW base, NEW f
    PROVE  LET prefix == PrefixOf(base, f)
           IN  /\ prefix \in Seq(Ink(table)) /\ Unsigned(prefix)
               /\ Len(prefix) = IF "#" \in f THEN IF base = 16 THEN 2 ELSE IF base = 8 THEN 1 ELSE 0 ELSE 0
<1>1. "0" \in Ink(table) /\ "x" \in Ink(table) /\ "X" \in Ink(table)
  BY DEF Ink
<1>2. <<"0", "x">> \in Seq(Ink(table)) /\ <<"0", "X">> \in Seq(Ink(table)) /\ <<"0">> \in Seq(Ink(table)) /\ <<>> \in Seq(Ink(table))
  BY <1>1
<1>3. Unsigned(<<"0", "x">>)
  <2>1. ASSUME NEW k \in 1 .. Len(<<"0", "x">>) PROVE <<"0", "x">>[k] \notin {Blank, "-", "+"}
    <3>1. k = 1 \/ k = 2
      OBVIOUS
    <3>2. <<"0", "x">>[1] = "0" /\ <<"0", "x">>[2] = "x"
      OBVIOUS
    <3>3. CASE k = 1
      BY <3>2, <3>3, BlankIs
    <3>4. CASE k = 2
      BY <3>2, <3>4, BlankIs
    <3> QED BY <3>1, <3>3, <3>4
  <2> QED BY <2>1 DEF Unsigned
<1>4. Unsigned(<<"0", "X">>)
  <2>1. ASSUME NEW k \in 1 .. Len(<<"0", "X">>) PROVE <<"0", "X">>[k] \notin {Blank, "-", "+"}
    <3>1. k = 1 \/ k = 2
      OBVIOUS
    <3>2. <<"0", "X">>[1] = "0" /\ <<"0", "X">>[2] = "X"
      OBVIOUS
    <3>3. CASE k = 1
      BY <3>2, <3>3, BlankIs
    <3>4. CASE k = 2
      BY <3>2, <3>4, BlankIs
    <3> QED BY <3>1, <3>3, <3>4
  <2> QED BY <2>1 DEF Unsigned
<1>5. Unsigned(<<"0">>)
  <2>1. ASSUME NEW k \in 1 .. Len(<<"0">>) PROVE <<"0">>[k] \notin {Blank, "-", "+"}
    <3>1. k = 1
      OBVIOUS
    <3> QED BY <3>1, BlankIs
  <2> QED BY <2>1 DEF Unsigned
<1>6. Unsigned(<<>>)
  <2>1. ASSUME NEW k \in 1 .. Len(<<>>) PROVE FALSE
    OBVIOUS
  <2> QED BY <2>1 DEF Unsigned
<1>7. CASE "#" \notin f
  BY <1>2, <1>6, <1>7 DEF PrefixOf
<1>8. CASE "#" \in f /\ base = 16
  BY <1>2, <1>3, <1>4, <1>8 DEF PrefixOf
<1>9. CASE "#" \in f /\ base = 8
  BY <1>2, <1>5, <1>9 DEF PrefixOf
<1>10. CASE "#" \in f /\ base # 8 /\ base # 16
  BY <1>2, <1>6, <1>10 DEF PrefixOf
<1> QED BY <1>7, <1>8, <1>9, <1>10

\* The sign is so many blanks and a mark, and never both.
SignFits(sign, front, mark) == sign = Blanks(front) \o mark /\ (front = 1 => mark = <<>>)

\* A sign is a blank or a mark, never both.
LEMMA SignParts ==
    ASSUME NEW front \in {0, 1}, NEW mark \in Marks3, NEW sign, SignFits(sign, front, mark),
           NEW lead, lead = Blanks(front)
    PROVE  /\ lead \in Seq({Blank}) /\ Len(lead) = front
           /\ sign = lead \o mark
           /\ sign = <<"-">> <=> mark = <<"-">>
           /\ Len(sign) = front + Len(mark) /\ Len(mark) \in Nat
<1>s. sign = lead \o mark /\ (front = 1 => mark = <<>>)
  BY DEF SignFits
<1>0. Len(mark) \in Nat /\ <<>> \o mark = mark
  <2>1. CASE mark = <<>>
    BY <2>1
  <2>2. CASE mark = <<"-">>
    BY <2>2
  <2>3. CASE mark = <<"+">>
    BY <2>3
  <2> QED BY <2>1, <2>2, <2>3 DEF Marks3
<1>1. CASE front = 0
  <2>1. Blanks(0) = <<>>
    BY FewBlanks
  <2>2. <<>> \in Seq({Blank})
    OBVIOUS
  <2>3. Len(<<>>) = 0
    OBVIOUS
  <2>4. 0 + Len(mark) = Len(mark)
    BY <1>0
  <2> QED BY <1>s, <1>0, <1>1, <2>1, <2>2, <2>3, <2>4
<1>2. CASE front = 1
  <2>1. Blanks(1) = <<Blank>>
    BY FewBlanks
  <2>2. mark = <<>>
    BY <1>s, <1>2
  <2>3. <<Blank>> \o <<>> = <<Blank>>
    OBVIOUS
  <2>4. <<Blank>> # <<"-">>
    BY BlankIs
  <2>5. <<>> # <<"-">>
    OBVIOUS
  <2>6. Len(<<Blank>>) = 1 /\ Len(<<>>) = 0
    OBVIOUS
  <2>7. <<Blank>> \in Seq({Blank})
    OBVIOUS
  <2>8. 1 = 1 + 0 /\ 0 \in Nat
    OBVIOUS
  <2> QED BY <1>s, <1>2, <2>1, <2>2, <2>3, <2>4, <2>5, <2>6, <2>7, <2>8
<1>3. front = 0 \/ front = 1
  OBVIOUS
<1> QED BY <1>1, <1>2, <1>3

\* The padding of number() is where the flags want it.
Padded(f, pad, p1, p2, p4) ==
    /\ p1 = IF "-" \notin f /\ "0" \notin f THEN Blanks(pad) ELSE <<>>
    /\ p2 = IF "-" \notin f /\ "0" \in f THEN Noughts(pad) ELSE <<>>
    /\ p4 = IF "-" \in f THEN Blanks(pad) ELSE <<>>

\* Where the flags have number() put the padding: blanks before, zeros, or blanks behind
LEMMA PaddingIs ==
    ASSUME NEW f, NEW pad \in Int, NEW short \in Int, NEW front \in Nat,
           NEW p1, NEW p2, NEW p4, Padded(f, pad, p1, p2, p4)
    PROVE  LET p3 == Noughts(short)
           IN  /\ p1 \in Seq({Blank}) /\ p2 \in Seq({"0"}) /\ p3 \in Seq({"0"}) /\ p4 \in Seq({Blank})
               /\ Sized(Len(p1) + front, Len(p2) + Len(p3), Len(p4), f, pad, front, short)
<1>1. /\ Blanks(pad) \in Seq({Blank}) /\ Len(Blanks(pad)) = Up(pad)
      /\ Noughts(pad) \in Seq({"0"}) /\ Len(Noughts(pad)) = Up(pad)
      /\ Noughts(short) \in Seq({"0"}) /\ Len(Noughts(short)) = Up(short)
      /\ Up(pad) \in Nat /\ Up(short) \in Nat
  BY Blanked0
<1>2. <<>> \in Seq({Blank}) /\ <<>> \in Seq({"0"}) /\ Len(<<>>) = 0
  BY NoText
<1>0. 0 + front = front /\ 0 + Up(short) = Up(short)
  BY <1>1, NoMore
<1>3. CASE "-" \in f
  <2>1. p1 = <<>> /\ p2 = <<>> /\ p4 = Blanks(pad)
    BY <1>3 DEF Padded
  <2>2. Len(p1) + front = front /\ Len(p2) + Len(Noughts(short)) = Up(short)
    BY <1>0, <1>1, <1>2, <2>1
  <2> QED BY <1>1, <1>2, <1>3, <2>1, <2>2 DEF Sized
<1>4. CASE "-" \notin f /\ "0" \in f
  <2>1. p1 = <<>> /\ p2 = Noughts(pad) /\ p4 = <<>>
    BY <1>4 DEF Padded
  <2>2. Len(p1) + front = front
    BY <1>0, <1>1, <1>2, <2>1
  <2> QED BY <1>1, <1>2, <1>4, <2>1, <2>2 DEF Sized
<1>5. CASE "-" \notin f /\ "0" \notin f
  <2>1. p1 = Blanks(pad) /\ p2 = <<>> /\ p4 = <<>>
    BY <1>5 DEF Padded
  <2>2. Len(p2) + Len(Noughts(short)) = Up(short)
    BY <1>0, <1>1, <1>2, <2>1
  <2> QED BY <1>1, <1>2, <1>5, <2>1, <2>2 DEF Sized
<1> QED BY <1>3, <1>4, <1>5

\* The two ways to say how much padding there is
Whole(w, m, fr, ml, pf) == w \in Int /\ m \in Int /\ fr \in Nat /\ ml \in Nat /\ pf \in Nat

LEMMA SamePad ==
    \A w, m, fr, ml, pf :
       Whole(w, m, fr, ml, pf) => /\ w - (fr + ml) - pf - m = (w - (fr + (ml + pf))) - m
                                  /\ (w - (fr + (ml + pf))) - m \in Int
  BY DEF Whole

\* The parts as number() prints them, and as a reader takes them
Printed7(p1, sign, prefix, p2, p3, shown, p4) ==
    Cat(Cat(Cat(Cat(Cat(Cat(p1, sign), prefix), p2), p3), shown), p4)
Laid(pre, mark, prefix, zs, shown, post) == Cat(Cat(pre, Cat(Cat(mark, prefix), Cat(zs, shown))), post)

TextsOf(X, p1, lead, mark, prefix, p2, p3, shown, p4) ==
    {p1, lead, mark, prefix, p2, p3, shown, p4} \subseteq Seq(X)

\* The parts in the order number() prints them are the parts as a reader takes them.
LEMMA TakenTogether ==
    ASSUME NEW X, NEW p1, NEW lead, NEW mark, NEW prefix, NEW p2, NEW p3, NEW shown, NEW p4,
           TextsOf(X, p1, lead, mark, prefix, p2, p3, shown, p4)
    PROVE  Printed7(p1, Cat(lead, mark), prefix, p2, p3, shown, p4)
           = Laid(Cat(p1, lead), mark, prefix, Cat(p2, p3), shown, p4)
<1> DEFINE pre == Cat(p1, lead)
           head == Cat(mark, prefix)
           zs == Cat(p2, p3)
           digits == Cat(zs, shown)
<1>0. /\ p1 \in Seq(X) /\ lead \in Seq(X) /\ mark \in Seq(X) /\ prefix \in Seq(X)
      /\ p2 \in Seq(X) /\ p3 \in Seq(X) /\ shown \in Seq(X) /\ p4 \in Seq(X)
  BY DEF TextsOf
<1>1. pre \in Seq(X) /\ head \in Seq(X) /\ zs \in Seq(X)
  BY <1>0, Associates
<1>2. Cat(p1, Cat(lead, mark)) = Cat(pre, mark)
  BY <1>0, Associates
<1> HIDE DEF pre, zs
<1>3. Cat(Cat(pre, mark), prefix) = Cat(pre, head)
  BY <1>0, <1>1, Associates
<1> HIDE DEF head
<1>4. Cat(pre, head) \in Seq(X) /\ digits \in Seq(X)
  BY <1>0, <1>1, Associates
<1>5. Cat(Cat(Cat(pre, head), p2), p3) = Cat(Cat(pre, head), zs)
  BY <1>0, <1>4, Associates DEF zs
<1>6. Cat(Cat(Cat(pre, head), zs), shown) = Cat(Cat(pre, head), digits)
  BY <1>0, <1>1, <1>4, Associates
<1> HIDE DEF digits
<1>7. Cat(Cat(pre, head), digits) = Cat(pre, Cat(head, digits))
  BY <1>0, <1>1, <1>4, Associates
<1>8. Cat(Cat(Cat(Cat(Cat(Cat(p1, Cat(lead, mark)), prefix), p2), p3), shown), p4)
      = Cat(Cat(Cat(p1, lead), Cat(Cat(mark, prefix), Cat(Cat(p2, p3), shown))), p4)
  BY <1>2, <1>3, <1>5, <1>6, <1>7 DEF pre, head, zs, digits
<1> QED BY <1>8 DEF Printed7, Laid

\* number(), its parts one by one
Parts(num, base, width, prec, f, n, sign, x, table, prefix, pad, p1, p2, p4) ==
    /\ sign = SignOf(num, f) /\ n = IF sign = <<"-">> THEN 2^LongLongBits - num ELSE num
    /\ x = DigitsOf(n, base) /\ table = IF "LARGE" \in f THEN Large ELSE Small
    /\ prefix = PrefixOf(base, f) /\ pad = width - Len(sign) - Len(prefix) - Most(prec, Len(x))
    /\ p1 = IF "-" \notin f /\ "0" \notin f THEN Blanks(pad) ELSE <<>>
    /\ p2 = IF "-" \notin f /\ "0" \in f THEN Noughts(pad) ELSE <<>>
    /\ p4 = IF "-" \in f THEN Blanks(pad) ELSE <<>>

\* number() prints its seven parts.
LEMMA NumberIs ==
    ASSUME NEW num, NEW base, NEW width, NEW prec, NEW f, NEW n, NEW sign, NEW x, NEW table, NEW prefix,
           NEW pad, NEW p1, NEW p2, NEW p4,
           Parts(num, base, width, prec, f, n, sign, x, table, prefix, pad, p1, p2, p4)
    PROVE  number(num, base, width, prec, f)
           = Printed7(p1, sign, prefix, p2, Noughts(prec - Len(x)), Shown(x, table), p4)
<1> DEFINE f1 == IF "-" \in f THEN f \ {"0"} ELSE f
           q1 == IF f1 \cap {"0", "-"} = {} THEN Blanks(pad) ELSE <<>>
           q2 == IF "-" \notin f1 /\ "0" \in f1 THEN Noughts(pad) ELSE <<>>
           q4 == IF "-" \in f1 THEN Blanks(pad) ELSE <<>>
<1>1. /\ f1 \cap {"0", "-"} = {} <=> "-" \notin f /\ "0" \notin f
      /\ "-" \in f1 <=> "-" \in f
      /\ "-" \notin f1 /\ "0" \in f1 <=> "-" \notin f /\ "0" \in f
  OBVIOUS
<1>2. number(num, base, width, prec, f)
      = q1 \o sign \o prefix \o q2 \o Noughts(prec - Len(x)) \o Shown(x, table) \o q4
  BY Zenon DEF number, Shown, Blanks, Noughts, Parts, Blank
<1>3. q1 = p1 /\ q2 = p2 /\ q4 = p4
  <2> HIDE DEF f1
  <2> QED BY <1>1, Zenon DEF Parts
<1> HIDE DEF f1, q1, q2, q4
<1> QED BY <1>2, <1>3, Zenon DEF Printed7, Cat

\* number() prints blanks, sign, prefix, zeros, digits and blanks, as many as
\* the width asks for.
Layout(num, base, width, prec, f, front, mark, n, x, table, prefix, pad) ==
    /\ base \in {8, 10, 16} /\ width \in Int /\ prec \in Int
    /\ front \in {0, 1} /\ mark \in Marks3 /\ n \in Nat /\ SignFits(SignOf(num, f), front, mark)
    /\ n = IF mark = <<"-">> THEN 2^LongLongBits - num ELSE num
    /\ x = DigitsOf(n, base) /\ table \in Table /\ table = IF "LARGE" \in f THEN Large ELSE Small
    /\ prefix = PrefixOf(base, f)
    /\ pad = (width - (front + (Len(mark) + Len(prefix)))) - Most(prec, Len(x))

\* number() lays out blanks, sign, prefix, zeros, digits and blanks.
LEMMA NumberLaid ==
    ASSUME NEW num, NEW base, NEW width, NEW prec, NEW f, NEW front, NEW mark, NEW n, NEW x, NEW table,
           NEW prefix, NEW pad, Layout(num, base, width, prec, f, front, mark, n, x, table, prefix, pad)
    PROVE  \E pre \in Seq({Blank}), zs \in Seq({"0"}), post \in Seq({Blank}) :
              /\ number(num, base, width, prec, f)
                 = Laid(pre, mark, prefix, zs, Shown(x, table), post)
              /\ Sized(Len(pre), Len(zs), Len(post), f, pad, front, prec - Len(x))
<1>0. PICK sign, lead, shown, p1, p2, p3, p4 :
        /\ sign = SignOf(num, f) /\ lead = Blanks(front) /\ shown = Shown(x, table)
        /\ p1 = IF "-" \notin f /\ "0" \notin f THEN Blanks(pad) ELSE <<>>
        /\ p2 = IF "-" \notin f /\ "0" \in f THEN Noughts(pad) ELSE <<>>
        /\ p3 = Noughts(prec - Len(x))
        /\ p4 = IF "-" \in f THEN Blanks(pad) ELSE <<>>
  OBVIOUS
<1>l. /\ base \in {8, 10, 16} /\ width \in Int /\ prec \in Int
      /\ front \in {0, 1} /\ mark \in Marks3 /\ n \in Nat /\ SignFits(SignOf(num, f), front, mark)
      /\ n = IF mark = <<"-">> THEN 2^LongLongBits - num ELSE num
      /\ x = DigitsOf(n, base) /\ table \in Table /\ table = IF "LARGE" \in f THEN Large ELSE Small
      /\ prefix = PrefixOf(base, f)
      /\ pad = (width - (front + (Len(mark) + Len(prefix)))) - Most(prec, Len(x))
  BY Zenon DEF Layout
<1>1. x \in Seq(0 .. 15)
  BY <1>l, DigitsAre
<1>2. Len(x) \in Nat
  BY <1>l, <1>1, Counted
<1>3. shown \in Seq(Figure(table))
  <2>1. 0 \in 0 .. 15
    OBVIOUS
  <2> QED BY <1>l, <2>1, <1>0, <1>1, ShownMore
<1>4. prefix \in Seq(Ink(table)) /\ Len(prefix) \in Nat
  BY <1>l, PrefixIs, Counted
<1>5. /\ lead \in Seq({Blank}) /\ Len(lead) = front
      /\ sign = Cat(lead, mark)
      /\ sign = <<"-">> <=> mark = <<"-">>
      /\ Len(sign) = front + Len(mark) /\ Len(mark) \in Nat
  <2>1. SignFits(sign, front, mark) /\ lead = Blanks(front)
    BY <1>l, <1>0, Zenon
  <2> QED BY <1>l, <2>1, SignParts, Zenon DEF Cat
<1>6. Most(prec, Len(x)) \in Int /\ prec - Len(x) \in Int
  BY <1>l, <1>2 DEF Most
<1>7. front \in Nat
  BY <1>l
<1>8. pad = width - Len(sign) - Len(prefix) - Most(prec, Len(x)) /\ pad \in Int
  <2>1. PICK sl \in Nat, ml \in Nat, pf \in Nat, m \in Int :
          sl = Len(sign) /\ ml = Len(mark) /\ pf = Len(prefix) /\ m = Most(prec, Len(x)) /\ sl = front + ml
    <3>1. \A a \in Nat, b \in Nat : a + b \in Nat
      OBVIOUS
    <3>2. Len(sign) \in Nat
      BY <1>l, <3>1, <1>5, <1>7, Zenon
    <3> QED BY <1>l, <3>2, <1>4, <1>5, <1>6, Zenon
  <2>2. width - (front + ml) - pf - m = (width - (front + (ml + pf))) - m /\ (width - (front + (ml + pf))) - m \in Int
    <3>1. Whole(width, m, front, ml, pf)
      BY <1>l, <2>1, <1>7 DEF Whole
    <3> QED BY <1>l, <3>1, SamePad, Zenon
  <2> QED BY <1>l, <2>1, <2>2, Zenon
<1>9. number(num, base, width, prec, f) = Printed7(p1, sign, prefix, p2, p3, shown, p4)
  <2>1. n = IF sign = <<"-">> THEN 2^LongLongBits - num ELSE num
    BY <1>l, <1>5, Zenon
  <2>2. number(num, base, width, prec, f)
        = Printed7(p1, sign, prefix, p2, Noughts(prec - Len(x)), Shown(x, table), p4)
    <3>1. Parts(num, base, width, prec, f, n, sign, x, table, prefix, pad, p1, p2, p4)
      BY <1>l, <2>1, <1>0, <1>8, Zenon DEF Parts
    <3> QED BY <1>l, <3>1, NumberIs
  <2> QED BY <1>l, <2>2, <1>0, Zenon
<1>10. /\ p1 \in Seq({Blank}) /\ p2 \in Seq({"0"}) /\ p3 \in Seq({"0"}) /\ p4 \in Seq({Blank})
       /\ Sized(Len(p1) + front, Len(p2) + Len(p3), Len(p4), f, pad, front, prec - Len(x))
  <2>1. /\ p1 \in Seq({Blank}) /\ p2 \in Seq({"0"}) /\ Noughts(prec - Len(x)) \in Seq({"0"}) /\ p4 \in Seq({Blank})
        /\ Sized(Len(p1) + front, Len(p2) + Len(Noughts(prec - Len(x))), Len(p4), f, pad, front, prec - Len(x))
    <3>1. Padded(f, pad, p1, p2, p4)
      BY <1>l, <1>0, Zenon DEF Padded
    <3> QED BY <1>l, <3>1, <1>6, <1>7, <1>8, PaddingIs, Zenon
  <2> QED BY <1>l, <2>1, <1>0, Zenon
<1>11. number(num, base, width, prec, f) = Laid(Cat(p1, lead), mark, prefix, Cat(p2, p3), shown, p4)
  <2>1. TextsOf(Ink(table), p1, lead, mark, prefix, p2, p3, shown, p4)
    <3>1. /\ p1 \in Seq(Ink(table)) /\ p4 \in Seq(Ink(table)) /\ p2 \in Seq(Ink(table)) /\ p3 \in Seq(Ink(table))
          /\ lead \in Seq(Ink(table)) /\ mark \in Seq(Ink(table)) /\ shown \in Seq(Ink(table))
      BY <1>l, <1>3, <1>5, <1>10, InkTexts
    <3> QED BY <1>l, <3>1, <1>4, Zenon DEF TextsOf
  <2>2. Printed7(p1, Cat(lead, mark), prefix, p2, p3, shown, p4) = Laid(Cat(p1, lead), mark, prefix, Cat(p2, p3), shown, p4)
    BY <1>l, <2>1, TakenTogether
  <2> QED BY <1>l, <2>2, <1>5, <1>9, Zenon
<1>12. Cat(p1, lead) \in Seq({Blank}) /\ Len(Cat(p1, lead)) = Len(p1) + front
  BY <1>l, <1>5, <1>10, LengthsAdd DEF Cat
<1>13. Cat(p2, p3) \in Seq({"0"}) /\ Len(Cat(p2, p3)) = Len(p2) + Len(p3)
  BY <1>l, <1>10, LengthsAdd DEF Cat
<1>14. PICK pre \in Seq({Blank}), zs \in Seq({"0"}) : pre = Cat(p1, lead) /\ zs = Cat(p2, p3)
  BY <1>l, <1>12, <1>13
<1>15. /\ number(num, base, width, prec, f) = Laid(pre, mark, prefix, zs, Shown(x, table), p4)
       /\ Sized(Len(pre), Len(zs), Len(p4), f, pad, front, prec - Len(x))
  BY <1>l, <1>0, <1>10, <1>11, <1>12, <1>13, <1>14, Zenon
<1> QED BY <1>l, <1>10, <1>15, Zenon

\* A digit is neither blank nor sign, and only the first of the table is 0.
LEMMA FiguresPlain ==
    ASSUME NEW table \in Table
    PROVE  /\ \A c \in Figure(table) : c \notin {Blank, "-", "+"}
           /\ {"0"} \subseteq Figure(table)
           /\ \A k \in 1 .. 15 : table[k + 1] # "0"
<1>1. ASSUME NEW c \in Figure(table) PROVE c \notin {Blank, "-", "+"}
  <2>1. PICK k \in 0 .. 15 : c = table[k + 1]
    BY DEF Figure
  <2>2. k + 1 \in 1 .. 16
    OBVIOUS
  <2> QED BY <2>1, <2>2, TableRows
<1>2. "0" \in Figure(table)
  <2>1. 0 \in 0 .. 15 /\ 0 + 1 = 1
    OBVIOUS
  <2>2. table[0 + 1] = "0"
    BY <2>1, TableRows
  <2> QED BY <2>1, <2>2, Zenon DEF Figure
<1>3. ASSUME NEW k \in 1 .. 15 PROVE table[k + 1] # "0"
  <2>1. k + 1 \in 1 .. 16 /\ 1 \in 1 .. 16 /\ k + 1 # 1
    OBVIOUS
  <2> QED BY <2>1, TableRows, Zenon
<1>4. {"0"} \subseteq Figure(table)
  BY <1>2, Zenon
<1> QED BY <1>1, <1>3, <1>4, Zenon

\* Neither sign nor blank is among digits.
LEMMA FiguresUnsigned ==
    ASSUME NEW table \in Table, NEW digits \in Seq(Figure(table))
    PROVE  Unsigned(digits)
<1>1. \A k \in 1 .. Len(digits) : digits[k] \in Figure(table)
  OBVIOUS
<1> QED BY <1>1, FiguresPlain, Zenon DEF Unsigned

\* Zeros and digits are digits; without zeros the first is 0 for zero alone.
Figures(table, zs, x, d, digits) ==
    /\ table \in Table /\ zs \in Seq({"0"}) /\ x \in Seq(0 .. 15) /\ d \in Nat \ {0} /\ d = Len(x)
    /\ d > 1 => x[1] # 0
    /\ digits = Cat(zs, Shown(x, table))

\* Zeros and digits together: neither blank nor sign, and 0 first only if it was put there.
LEMMA FiguresAre ==
    ASSUME NEW table, NEW zs, NEW x, NEW d, NEW digits, Figures(table, zs, x, d, digits)
    PROVE  /\ zs \in Seq(Figure(table)) /\ Shown(x, table) \in Seq(Figure(table))
           /\ digits \in Seq(Figure(table)) /\ Len(digits) = Len(zs) + d /\ Unsigned(digits)
           /\ Len(zs) = 0 /\ d > 1 => digits[1] # "0"
<1>0. /\ table \in Table /\ zs \in Seq({"0"}) /\ x \in Seq(0 .. 15) /\ d \in Nat \ {0} /\ d = Len(x)
      /\ d > 1 => x[1] # 0
      /\ digits = Cat(zs, Shown(x, table))
  BY Zenon DEF Figures
<1>1. zs \in Seq(Figure(table))
  BY <1>0, FiguresPlain, MoreInk
<1>2. Shown(x, table) \in Seq(Figure(table)) /\ Len(Shown(x, table)) = d
  <2>1. 0 \in 0 .. 15
    OBVIOUS
  <2> QED BY <1>0, <2>1, ShownMore
<1>3. digits \in Seq(Figure(table)) /\ Len(digits) = Len(zs) + d
  BY <1>0, <1>1, <1>2, LengthsAdd DEF Cat
<1>4. Unsigned(digits)
  BY <1>0, <1>3, FiguresUnsigned
<1>5. ASSUME Len(zs) = 0, d > 1 PROVE digits[1] # "0"
  <2>1. digits[1] = Shown(x, table)[1]
    <3> DEFINE y == Shown(x, table)
    <3>1. y \in Seq(Figure(table)) /\ Len(y) = d /\ digits = zs \o y
      BY <1>0, <1>2 DEF Cat
    <3> HIDE DEF y
    <3>2. \A k \in 1 .. Len(zs) + Len(y) : (zs \o y)[k] = IF k <= Len(zs) THEN zs[k] ELSE y[k - Len(zs)]
      BY <1>1, <3>1, Joined DEF OneAfter
    <3>3. 1 \in 1 .. Len(zs) + Len(y) /\ ~(1 <= Len(zs)) /\ 1 - Len(zs) = 1
      BY <1>0, <3>1, <1>5
    <3> QED BY <3>1, <3>2, <3>3 DEF y
  <2>2. Shown(x, table)[1] = table[x[1] + 1]
    <3>1. 1 \in DOMAIN x
      BY <1>0, <1>5
    <3> QED BY <1>0, <3>1 DEF Shown
  <2>3. x[1] \in 1 .. 15
    BY <1>0, <1>5
  <2> QED BY <2>1, <2>2, <2>3, <1>0, FiguresPlain, Zenon
<1> QED BY <1>1, <1>2, <1>3, <1>4, <1>5

\* What a reader finds in a text: where the number starts and ends, its sign, its digits
Found(text, a, h, digits, b, mark) ==
    /\ Len(text) = (a + (h + Len(digits))) + b
    /\ Filled(text) = a + 1 .. a + (h + Len(digits))
    /\ Leftmost(Filled(text)) = a + 1 /\ Rightmost(Filled(text)) = a + (h + Len(digits))
    /\ text[a + 1] \in {"-", "+"} <=> mark # <<>>
    /\ text[a + 1] = "-" <=> mark = <<"-">>
    /\ \A k \in a + 1 .. a + (h + Len(digits)) : text[k] # Blank
    /\ SubSeq(text, (a + h) + 1, (a + h) + Len(digits)) = digits

\* A text of one character only
LEMMA OnlyOne ==
    ASSUME NEW c, NEW x \in Seq({c})
    PROVE  Len(x) \in Nat /\ \A k \in 1 .. Len(x) : x[k] = c
  OBVIOUS

\* The places of a text
LEMMA Covers == ASSUME NEW S, NEW x \in Seq(S) PROVE DOMAIN x = 1 .. Len(x)
  OBVIOUS

Sum4(a, h, d, n) == a \in Nat /\ h \in Nat /\ d \in Nat \ {0} /\ n = h + d

\* How the places of the parts add up
LEMMA Sums ==
    ASSUME NEW a, NEW h, NEW d, NEW n, Sum4(a, h, d, n)
    PROVE  /\ n \in Nat \ {0} /\ 1 \in 1 .. n /\ a + h \in Nat /\ (a + h) + d = a + n
           /\ \A k \in 1 .. d : h + k \in 1 .. n /\ (a + h) + k = a + (h + k)
           /\ \A b \in Nat : (a + h) + d <= (a + n) + b
<1> USE DEF Sum4
<1>1. n \in Nat \ {0} /\ 1 \in 1 .. n /\ a + h \in Nat /\ (a + h) + d = a + n
  OBVIOUS
<1>2. \A k \in 1 .. d : h + k \in 1 .. n /\ (a + h) + k = a + (h + k)
  OBVIOUS
<1>3. \A b \in Nat : (a + h) + d <= (a + n) + b
  OBVIOUS
<1> QED BY <1>1, <1>2, <1>3

\* The parts of a text, and where they are in it
Row3(X, text, x, y, z, a, n, b) ==
    /\ text \in Seq(X) /\ Len(text) = (a + n) + b
    /\ \A k \in 1 .. a : text[k] = x[k]
    /\ \A k \in 1 .. n : text[a + k] = y[k]
    /\ \A k \in 1 .. b : text[(a + n) + k] = z[k]

\* Three texts in a row have their characters where their lengths say.
LEMMA RowIs ==
    ASSUME NEW X, NEW x \in Seq(X), NEW y \in Seq(X), NEW z \in Seq(X), NEW text, text = Cat(Cat(x, y), z)
    PROVE  Row3(X, text, x, y, z, Len(x), Len(y), Len(z))
<1>1. LET t == (x \o y) \o z
      IN  /\ t \in Seq(X) /\ Len(t) = (Len(x) + Len(y)) + Len(z)
          /\ \A k \in 1 .. Len(x) : t[k] = x[k]
          /\ \A k \in 1 .. Len(y) : t[Len(x) + k] = y[k]
          /\ \A k \in 1 .. Len(z) : t[(Len(x) + Len(y)) + k] = z[k]
  BY InARow
<1> QED BY <1>1, Zenon DEF Row3, Cat

AreBlank(x, n) == \A k \in 1 .. n : x[k] = Blank

\* Where a core between blanks is
LEMMA CoreInBlanks ==
    ASSUME NEW X, NEW core, NEW mark, NEW digits \in Seq(X), NEW h \in Nat, NEW d \in Nat \ {0}, d = Len(digits),
           Core(X, core, mark, digits, h, d),
           NEW pre, NEW post, NEW a \in Nat, NEW b \in Nat, NEW n, n = h + d,
           AreBlank(pre, a), AreBlank(post, b),
           NEW text, Row3(X, text, pre, core, post, a, n, b)
    PROVE  Found(text, a, h, digits, b, mark)
<1>1. /\ n \in Nat \ {0} /\ 1 \in 1 .. n /\ a + h \in Nat /\ (a + h) + d = a + n
      /\ \A k \in 1 .. d : h + k \in 1 .. n /\ (a + h) + k = a + (h + k)
      /\ (a + h) + d <= (a + n) + b
  <2>1. Sum4(a, h, d, n)
    BY Zenon DEF Sum4
  <2> QED BY <2>1, Sums
<1>2. /\ core[1] \in {"-", "+"} <=> mark # <<>>
      /\ core[1] = "-" <=> mark = <<"-">>
      /\ \A k \in 1 .. d : core[h + k] = digits[k]
      /\ \A k \in 1 .. n : core[k] # Blank
  BY Zenon DEF Core
<1>3. /\ text \in Seq(X) /\ Len(text) = (a + n) + b
      /\ \A k \in 1 .. a : text[k] = pre[k]
      /\ \A k \in 1 .. n : text[a + k] = core[k]
      /\ \A k \in 1 .. b : text[(a + n) + k] = post[k]
  BY Zenon DEF Row3
<1>4. Blanked(text, a, n, b)
  <2>1. DOMAIN text = 1 .. (a + n) + b
    BY <1>3, Covers, Zenon
  <2>2. \A k \in 1 .. a : text[k] = Blank
    BY <1>3, Zenon DEF AreBlank
  <2>3. \A k \in 1 .. n : text[a + k] # Blank
    <3> TAKE k \in 1 .. n
    <3>1. text[a + k] = core[k]
      BY <1>3, Zenon
    <3>2. core[k] # Blank
      BY <1>2, Zenon
    <3> QED BY <3>1, <3>2, Zenon
  <2>4. \A k \in 1 .. b : text[(a + n) + k] = Blank
    BY <1>3, Zenon DEF AreBlank
  <2> QED BY <2>1, <2>2, <2>3, <2>4, Zenon DEF Blanked
<1>5. /\ Filled(text) = a + 1 .. a + n
      /\ Leftmost(Filled(text)) = a + 1 /\ Rightmost(Filled(text)) = a + n
  BY <1>4, <1>1, BetweenBlanks
<1>6. text[a + 1] = core[1]
  BY <1>1, <1>3, Zenon
<1>7. \A k \in a + 1 .. a + n : text[k] # Blank
  BY <1>5, Zenon DEF Filled, Blank
<1>8. SubSeq(text, (a + h) + 1, (a + h) + d) = digits
  <2>1. \A k \in 1 .. d : text[(a + h) + k] = digits[k]
    <3> TAKE k \in 1 .. d
    <3>1. h + k \in 1 .. n /\ (a + h) + k = a + (h + k)
      BY <1>1, Zenon
    <3>2. text[a + (h + k)] = core[h + k] /\ core[h + k] = digits[k]
      BY <3>1, <1>2, <1>3, Zenon
    <3> QED BY <3>1, <3>2, Zenon
  <2>2. (a + h) + d <= Len(text)
    BY <1>1, <1>3, Zenon
  <2>3. PICK e \in Nat : e = a + h
    BY <1>1, Zenon
  <2>4. e + d <= Len(text) /\ \A k \in 1 .. d : text[e + k] = digits[k]
    BY <2>1, <2>2, <2>3, Zenon
  <2>5. text \in Seq(X) /\ digits \in Seq(X) /\ Len(digits) = d /\ d \in Nat
    BY <1>3, Zenon
  <2>6. HasPart(X, text, e, d, digits)
    BY <2>3, <2>4, <2>5, Zenon DEF HasPart
  <2>7. SubSeq(text, e + 1, e + d) = digits
    BY <2>6, PartOf, Zenon
  <2> QED BY <2>3, <2>7, Zenon
<1> QED BY <1>2, <1>3, <1>5, <1>6, <1>7, <1>8, Zenon DEF Found

\* What is laid out can be found.
Laying(table, mark, prefix, zs, shown, digits, pre, post, text) ==
    /\ table \in Table /\ mark \in Marks3 /\ prefix \in Seq(Ink(table)) /\ Unsigned(prefix)
    /\ digits \in Seq(Figure(table)) /\ digits = Cat(zs, shown) /\ Unsigned(digits) /\ Len(digits) \in Nat \ {0}
    /\ pre \in Seq({Blank}) /\ post \in Seq({Blank})
    /\ text = Laid(pre, mark, prefix, zs, shown, post)

\* In what is laid out, the parts are found where their lengths say.
LEMMA LaidFound ==
    ASSUME NEW table, NEW mark, NEW prefix, NEW zs, NEW shown, NEW digits, NEW pre, NEW post, NEW text,
           Laying(table, mark, prefix, zs, shown, digits, pre, post, text)
    PROVE  Found(text, Len(pre), Len(mark) + Len(prefix), digits, Len(post), mark)
<1>0. /\ table \in Table /\ mark \in Marks3 /\ prefix \in Seq(Ink(table)) /\ Unsigned(prefix)
      /\ digits \in Seq(Figure(table)) /\ digits = Cat(zs, shown) /\ Unsigned(digits) /\ Len(digits) \in Nat \ {0}
      /\ pre \in Seq({Blank}) /\ post \in Seq({Blank})
      /\ text = Laid(pre, mark, prefix, zs, shown, post)
  BY Zenon DEF Laying
<1> DEFINE X == Ink(table)
<1>1. /\ mark \in Seq(X) /\ prefix \in Seq(X) /\ digits \in Seq(X) /\ pre \in Seq(X) /\ post \in Seq(X)
  BY <1>0, InkTexts
<1> HIDE DEF X
<1>2. PICK core : core = Cat(Cat(mark, prefix), digits)
  OBVIOUS
<1>3. PICK d, h : d \in Nat \ {0} /\ d = Len(digits) /\ h = Len(mark) + Len(prefix)
  BY <1>0
<1>4. Core(X, core, mark, digits, h, d) /\ h \in Nat
  BY <1>0, <1>1, <1>2, <1>3, CoreIs
<1>5. core \in Seq(X) /\ Len(core) = h + d
  BY <1>4, Zenon DEF Core
<1>6. text = Cat(Cat(pre, core), post)
  BY <1>0, <1>2, Zenon DEF Laid
<1>7. Row3(X, text, pre, core, post, Len(pre), Len(core), Len(post))
  BY <1>1, <1>5, <1>6, RowIs
<1>8. /\ Len(pre) \in Nat /\ AreBlank(pre, Len(pre))
      /\ Len(post) \in Nat /\ AreBlank(post, Len(post))
  BY <1>0, OnlyOne, Zenon DEF AreBlank
<1>9. Found(text, Len(pre), h, digits, Len(post), mark)
  BY <1>1, <1>3, <1>4, <1>5, <1>7, <1>8, CoreInBlanks
<1> QED BY <1>3, <1>9, Zenon

\* The signs there are, as blanks and marks
LEMMA SignsFit ==
    /\ SignFits(<<>>, 0, <<>>) /\ SignFits(<<"-">>, 0, <<"-">>) /\ SignFits(<<"+">>, 0, <<"+">>)
    /\ SignFits(<<Blank>>, 1, <<>>)
<1>1. <<>> \o <<>> = <<>>
  OBVIOUS
<1>2. <<>> \o <<"-">> = <<"-">>
  OBVIOUS
<1>3. <<>> \o <<"+">> = <<"+">>
  OBVIOUS
<1>4. <<Blank>> \o <<>> = <<Blank>>
  OBVIOUS
<1>5. 0 # 1
  OBVIOUS
<1> QED BY <1>1, <1>2, <1>3, <1>4, <1>5, FewBlanks, Zenon DEF SignFits

\* The marks are three different ones, of one character at most.
LEMMA MarksDiffer ==
    /\ <<>> # <<"-">> /\ <<>> # <<"+">> /\ <<"-">> # <<"+">>
    /\ Len(<<>>) = 0 /\ Len(<<"-">>) = 1 /\ Len(<<"+">>) = 1
<1>1. <<>> # <<"-">>
  OBVIOUS
<1>2. <<>> # <<"+">>
  OBVIOUS
<1>3. <<"-">> # <<"+">>
  OBVIOUS
<1>4. Len(<<>>) = 0
  OBVIOUS
<1>5. Len(<<"-">>) = 1
  OBVIOUS
<1>6. Len(<<"+">>) = 1
  OBVIOUS
<1> QED BY <1>1, <1>2, <1>3, <1>4, <1>5, <1>6

\* The mark and the blank that a value asks for
Asked(l, value, front, mark) ==
    /\ front = IF l.conv = "d" /\ value >= 0 /\ Blank \in l.flags /\ "+" \notin l.flags THEN 1 ELSE 0
    /\ mark = IF value < 0 THEN <<"-">> ELSE IF l.conv = "d" /\ "+" \in l.flags THEN <<"+">> ELSE <<>>
\* The flags number() gets for a conversion
FlagsOf(l) == l.flags \cup (IF l.conv = "X" THEN {"LARGE"} ELSE IF l.conv = "d" THEN {"SIGN"} ELSE {})

\* The sign number() prints is the one the value asks for.
Given(l, value, num, f, front, mark, n) ==
    /\ l.arg \in Numbers /\ l.flags \subseteq FlagChars /\ value = ValueOf(l)
    /\ num = ArgumentOf(l.arg, l.qual, l.conv = "d") /\ f = FlagsOf(l)
    /\ Asked(l, value, front, mark) /\ n = IF value < 0 THEN -value ELSE value

\* number() prints the sign the number and the flags ask for, and the digits of its amount.
LEMMA SignAsked ==
    ASSUME NEW l, NEW value, NEW num, NEW f, NEW front, NEW mark, NEW n,
           Given(l, value, num, f, front, mark, n)
    PROVE  /\ front \in {0, 1} /\ mark \in Marks3 /\ SignFits(SignOf(num, f), front, mark)
           /\ n \in Nat /\ n = IF mark = <<"-">> THEN 2^LongLongBits - num ELSE num
           /\ mark # <<>> <=> l.conv = "d" /\ (value < 0 \/ "+" \in l.flags)
           /\ mark = <<"-">> <=> value < 0
           /\ Len(mark) = IF mark # <<>> THEN 1 ELSE 0
<1>0. /\ l.arg \in Numbers /\ l.flags \subseteq FlagChars /\ value = ValueOf(l)
      /\ num = ArgumentOf(l.arg, l.qual, l.conv = "d") /\ f = FlagsOf(l)
      /\ Asked(l, value, front, mark) /\ n = IF value < 0 THEN -value ELSE value
  BY Zenon DEF Given
<1> DEFINE sgn == l.conv = "d"
           neg == Negative(num)
           plus == "+" \in l.flags
           space == Blank \in l.flags
<1>1. /\ value \in Int
      /\ value < 0 => sgn /\ neg /\ 2^LongLongBits - num = -value
      /\ value >= 0 => num = value /\ (sgn => ~neg)
  BY <1>0, ArgumentTrue, Zenon
<1>2. SignOf(num, f) = IF ~sgn THEN <<>> ELSE IF neg THEN <<"-">> ELSE IF plus THEN <<"+">>
                       ELSE IF space THEN <<Blank>> ELSE <<>>
  <2>1. "SIGN" \notin FlagChars
    BY DEF FlagChars
  <2>2. ("SIGN" \in f <=> sgn) /\ ("+" \in f <=> plus) /\ (Blank \in f <=> space)
    BY <1>0, <2>1, BlankIs DEF FlagsOf
  <2> HIDE DEF sgn, plus, space, neg
  <2>3. SignOf(num, f) = IF "SIGN" \notin f THEN <<>> ELSE IF neg THEN <<"-">> ELSE IF "+" \in f THEN <<"+">>
                         ELSE IF Blank \in f THEN <<Blank>> ELSE <<>>
    BY Zenon DEF SignOf, neg, Blank
  <2> QED BY <2>2, <2>3, Zenon
<1>3. /\ front = IF sgn /\ value >= 0 /\ space /\ ~plus THEN 1 ELSE 0
      /\ mark = IF value < 0 THEN <<"-">> ELSE IF sgn /\ plus THEN <<"+">> ELSE <<>>
  BY <1>0, Zenon DEF Asked
<1>4. /\ sgn \in BOOLEAN /\ neg \in BOOLEAN /\ plus \in BOOLEAN /\ space \in BOOLEAN
  BY DEF Negative
<1> HIDE DEF sgn, neg, plus, space
<1>5. value < 0 \/ value >= 0
  BY <1>1
<1>6. ~(value < 0 /\ value >= 0)
  BY <1>1
<1>7. front \in {0, 1} /\ mark \in Marks3
  BY <1>3, Zenon DEF Marks3
<1>8. SignFits(SignOf(num, f), front, mark)
  <2>1. CASE value < 0
    <3>1. SignOf(num, f) = <<"-">> /\ front = 0 /\ mark = <<"-">>
      BY <2>1, <1>1, <1>2, <1>3, <1>6, Zenon
    <3> QED BY <3>1, SignsFit, Zenon
  <2>2. CASE value >= 0 /\ ~sgn
    <3>1. SignOf(num, f) = <<>> /\ front = 0 /\ mark = <<>>
      BY <2>2, <1>1, <1>2, <1>3, <1>6, Zenon
    <3> QED BY <3>1, SignsFit, Zenon
  <2>3. CASE value >= 0 /\ sgn /\ plus
    <3>1. SignOf(num, f) = <<"+">> /\ front = 0 /\ mark = <<"+">>
      BY <2>3, <1>1, <1>2, <1>3, <1>6, Zenon
    <3> QED BY <3>1, SignsFit, Zenon
  <2>4. CASE value >= 0 /\ sgn /\ ~plus /\ space
    <3>1. SignOf(num, f) = <<Blank>> /\ front = 1 /\ mark = <<>>
      BY <2>4, <1>1, <1>2, <1>3, <1>6, Zenon
    <3> QED BY <3>1, SignsFit, Zenon
  <2>5. CASE value >= 0 /\ sgn /\ ~plus /\ ~space
    <3>1. SignOf(num, f) = <<>> /\ front = 0 /\ mark = <<>>
      BY <2>5, <1>1, <1>2, <1>3, <1>6, Zenon
    <3> QED BY <3>1, SignsFit, Zenon
  <2> QED BY <2>1, <2>2, <2>3, <2>4, <2>5, <1>4, <1>5, Zenon
<1>9. mark = <<"-">> <=> value < 0
  BY <1>3, MarksDiffer, Zenon
<1>10. mark # <<>> <=> sgn /\ (value < 0 \/ plus)
  BY <1>1, <1>3, MarksDiffer, Zenon
<1>11. n \in Nat
  BY <1>0, <1>1
<1>12. n = IF mark = <<"-">> THEN 2^LongLongBits - num ELSE num
  <2>1. CASE value < 0
    BY <2>1, <1>0, <1>1, <1>9, Zenon
  <2>2. CASE ~(value < 0)
    BY <2>2, <1>0, <1>1, <1>5, <1>9, Zenon
  <2> QED BY <2>1, <2>2
<1>13. Len(mark) = IF mark # <<>> THEN 1 ELSE 0
  <2>1. mark = <<>> \/ mark = <<"-">> \/ mark = <<"+">>
    BY <1>7, Zenon DEF Marks3
  <2>2. CASE mark = <<>>
    <3>1. Len(mark) = 0 /\ ~(mark # <<>>)
      BY <2>2, MarksDiffer
    <3> QED BY <3>1, Zenon
  <2>3. CASE mark = <<"-">>
    BY <2>3, MarksDiffer, Zenon
  <2>4. CASE mark = <<"+">>
    BY <2>4, MarksDiffer, Zenon
  <2> QED BY <2>1, <2>2, <2>3, <2>4, Zenon
<1> QED BY <1>7, <1>8, <1>9, <1>10, <1>11, <1>12, <1>13, Zenon DEF sgn, plus

\* Zeros before digits are zeros.
LEMMA Zeroed ==
    ASSUME NEW base \in {8, 10, 16}, NEW n \in Nat, NEW table \in Table, NEW zs \in Seq({"0"})
    PROVE  ZerosBefore(base, n, table, zs)
<1>1. zs \in Seq(Figure(table))
  BY FiguresPlain, MoreInk
<1>2. \A k \in 1 .. Len(zs) : zs[k] = "0"
  BY OnlyOne, Zenon
<1> QED BY <1>1, <1>2, Zenon DEF ZerosBefore

BaseOf(l) == IF l.conv = "o" THEN 8 ELSE IF l.conv \in {"x", "X"} THEN 16 ELSE 10
\* What a conversion of a number has printed
IsNumber(l) ==
    /\ l.conv \in Numeric /\ l.arg \in Numbers /\ l.flags \subseteq FlagChars
    /\ l.width \in Int /\ l.prec \in Int
    /\ l.text = number(ArgumentOf(l.arg, l.qual, l.conv = "d"), BaseOf(l), l.width, l.prec, FlagsOf(l))

\* What number() printed, as a reader finds it
Told(l, value, front, mark, h, digits, a, b, z, d) ==
    /\ Found(l.text, a, h, digits, b, mark)
    /\ Len(digits) = z + d /\ (z = 0 /\ d > 1 => digits[1] # "0")
    /\ Sized(a, z, b, l.flags, (l.width - (front + h)) - Most(l.prec, d), front, l.prec - d)

\* A reader finds the sign, the prefix and the digits of the number.
Setting(l, value, front, mark, base, table, h) ==
    /\ IsNumber(l) /\ value = ValueOf(l) /\ Asked(l, value, front, mark)
    /\ base = BaseOf(l) /\ table = IF l.conv = "X" THEN Large ELSE Small
    /\ h = Len(mark) + IF "#" \in l.flags THEN IF base = 16 THEN 2 ELSE IF base = 8 THEN 1 ELSE 0 ELSE 0

\* What number() prints says the number: the parts are where they should be, and the digits read back.
LEMMA NumberTold ==
    ASSUME NEW l, NEW value, NEW front, NEW mark, NEW base, NEW table, NEW h,
           Setting(l, value, front, mark, base, table, h)
    PROVE  /\ h \in Nat
           /\ \E digits : \E a, b, z \in Nat, d \in Nat \ {0} :
                 /\ Told(l, value, front, mark, h, digits, a, b, z, d)
                 /\ ReadBack(digits, base, table) = IF value < 0 THEN -value ELSE value
<1>0. /\ IsNumber(l) /\ value = ValueOf(l) /\ Asked(l, value, front, mark)
      /\ base = BaseOf(l) /\ table = IF l.conv = "X" THEN Large ELSE Small
      /\ h = Len(mark) + IF "#" \in l.flags THEN IF base = 16 THEN 2 ELSE IF base = 8 THEN 1 ELSE 0 ELSE 0
  BY Zenon DEF Setting
<1>1. PICK num, f, n : /\ num = ArgumentOf(l.arg, l.qual, l.conv = "d") /\ f = FlagsOf(l)
                       /\ n = IF value < 0 THEN -value ELSE value
  OBVIOUS
<1>2. /\ l.arg \in Numbers /\ l.flags \subseteq FlagChars /\ l.width \in Int /\ l.prec \in Int
      /\ l.text = number(num, base, l.width, l.prec, f)
  BY <1>0, <1>1, Zenon DEF IsNumber
<1>3. /\ front \in {0, 1} /\ mark \in Marks3 /\ SignFits(SignOf(num, f), front, mark)
      /\ n \in Nat /\ n = IF mark = <<"-">> THEN 2^LongLongBits - num ELSE num
  <2>1. Given(l, value, num, f, front, mark, n)
    BY <1>0, <1>1, <1>2, Zenon DEF Given
  <2> QED BY <2>1, SignAsked, Zenon
<1>4. base \in {8, 10, 16}
  BY <1>0 DEF BaseOf
<1>5. /\ table \in Table /\ table = IF "LARGE" \in f THEN Large ELSE Small
      /\ \A c \in {"-", "0", "#"} : c \in f <=> c \in l.flags
  <2>1. "LARGE" \notin FlagChars
    BY DEF FlagChars
  <2>2. ("LARGE" \in f <=> l.conv = "X") /\ \A c \in {"-", "0", "#"} : c \in f <=> c \in l.flags
    BY <1>1, <1>2, <2>1 DEF FlagsOf
  <2> QED BY <1>0, <2>2, Zenon DEF Table
<1>6. PICK x, prefix, pad : /\ x = DigitsOf(n, base) /\ prefix = PrefixOf(base, f)
                            /\ pad = (l.width - (front + (Len(mark) + Len(prefix)))) - Most(l.prec, Len(x))
  OBVIOUS
<1>7. /\ prefix \in Seq(Ink(table)) /\ Unsigned(prefix) /\ h = Len(mark) + Len(prefix)
  <2>1. Len(prefix) = IF "#" \in f THEN IF base = 16 THEN 2 ELSE IF base = 8 THEN 1 ELSE 0 ELSE 0
    BY <1>6, PrefixIs, Zenon
  <2>2. prefix \in Seq(Ink(table)) /\ Unsigned(prefix)
    BY <1>6, PrefixIs, Zenon
  <2>3. "#" \in f <=> "#" \in l.flags
    BY <1>5, Zenon
  <2> QED BY <1>0, <2>1, <2>2, <2>3, Zenon
<1>8. PICK pre \in Seq({Blank}), zs \in Seq({"0"}), post \in Seq({Blank}) :
        /\ l.text = Laid(pre, mark, prefix, zs, Shown(x, table), post)
        /\ Sized(Len(pre), Len(zs), Len(post), f, pad, front, l.prec - Len(x))
  <2>1. Layout(num, base, l.width, l.prec, f, front, mark, n, x, table, prefix, pad)
    BY <1>2, <1>3, <1>4, <1>5, <1>6, Zenon DEF Layout
  <2>2. \E pre \in Seq({Blank}), zs \in Seq({"0"}), post \in Seq({Blank}) :
           /\ number(num, base, l.width, l.prec, f) = Laid(pre, mark, prefix, zs, Shown(x, table), post)
           /\ Sized(Len(pre), Len(zs), Len(post), f, pad, front, l.prec - Len(x))
    BY <2>1, NumberLaid, SMT
  <2> QED BY <2>2, <1>2, Zenon
<1>9. /\ x \in Seq(0 .. 15) /\ Len(x) \in Nat \ {0}
      /\ Len(x) > 1 => x[1] # 0
      /\ ReadBack(Cat(zs, Shown(x, table)), base, table) = n
  <2>1. ZerosBefore(base, n, table, zs)
    BY <1>3, <1>4, <1>5, <1>8, Zeroed
  <2>2. DigitsShown(x, base, n, table, zs)
    BY <2>1, <1>6, DigitsTrue, Zenon
  <2> QED BY <2>2, Zenon DEF DigitsShown
<1>10. PICK digits, d : d = Len(x) /\ digits = Cat(zs, Shown(x, table))
  OBVIOUS
<1>11. /\ digits \in Seq(Figure(table)) /\ Len(digits) = Len(zs) + d /\ Unsigned(digits)
       /\ Len(zs) = 0 /\ d > 1 => digits[1] # "0"
  <2>1. Figures(table, zs, x, d, digits)
    BY <1>5, <1>9, <1>10, Zenon DEF Figures
  <2> QED BY <2>1, FiguresAre
<1>12. PICK a \in Nat, b \in Nat, z \in Nat : a = Len(pre) /\ b = Len(post) /\ z = Len(zs)
  BY Counted
<1>13. Found(l.text, a, h, digits, b, mark)
  <2>1. Len(digits) \in Nat \ {0}
    <3>1. d \in Nat \ {0} /\ Len(digits) = z + d
      BY <1>9, <1>10, <1>11, <1>12, Zenon
    <3> QED BY <3>1
  <2>2. Laying(table, mark, prefix, zs, Shown(x, table), digits, pre, post, l.text)
    BY <1>3, <1>5, <1>7, <1>8, <1>10, <1>11, <2>1, Zenon DEF Laying
  <2>3. Found(l.text, Len(pre), Len(mark) + Len(prefix), digits, Len(post), mark)
    BY <2>2, LaidFound, Zenon
  <2> QED BY <2>3, <1>7, <1>12, Zenon
<1>14. /\ Sized(a, z, b, f, (l.width - (front + h)) - Most(l.prec, d), front, l.prec - d)
       /\ Sized(a, z, b, f, (l.width - (front + h)) - Most(l.prec, d), front, l.prec - d)
          => Sized(a, z, b, l.flags, (l.width - (front + h)) - Most(l.prec, d), front, l.prec - d)
  <2>1. Sized(a, z, b, f, (l.width - (front + h)) - Most(l.prec, d), front, l.prec - d)
    BY <1>6, <1>7, <1>8, <1>10, <1>12, Zenon
  <2>2. ("-" \in f <=> "-" \in l.flags) /\ ("0" \in f <=> "0" \in l.flags)
    BY <1>5, Zenon
  <2> QED BY <2>1, <2>2, Zenon DEF Sized
<1>15. h \in Nat
  BY <1>0
<1> QED
  <2>1. d \in Nat \ {0}
    BY <1>9, <1>10, Zenon
  <2>2. Told(l, value, front, mark, h, digits, a, b, z, d)
    BY <1>11, <1>12, <1>13, <1>14, Zenon DEF Told
  <2>3. ReadBack(digits, base, table) = IF value < 0 THEN -value ELSE value
    BY <1>1, <1>9, <1>10, Zenon
  <2> QED BY <1>15, <2>1, <2>2, <2>3, Zenon

\* The widths that follow from where the padding is
Fits(f, width, prec, front, h, len, a, b, n) ==
    /\ a \in Nat /\ b \in Nat /\ n \in Nat \ {0} /\ len = (a + (h + n)) + b
    /\ n >= prec /\ len >= width
    /\ "-" \in f => a = front
    /\ "-" \notin f => b = 0
    /\ "0" \in f /\ "-" \notin f => a = front
    /\ b # 0 \/ a > front => len = Most(width, (front + h) + Most(prec, n))

\* Whole numbers, added up in one way or the other
LEMMA Regroup ==
    \A a, b, h, n, front, m : {a, b, h, n, front} \subseteq Nat /\ m \in Int =>
       /\ a + (h + n) = (a + h) + n /\ (a + 1) + h = (a + h) + 1
       /\ (b = 0 <=> a + (h + n) = (a + (h + n)) + b)
       /\ (a = front => a + 1 = 1 + front) /\ (a + 1 > 1 + front => a > front)
       /\ front + h + m = (front + h) + m
<1> SUFFICES ASSUME NEW a \in Nat, NEW b \in Nat, NEW h \in Nat, NEW n \in Nat, NEW front \in Nat, NEW m \in Int
             PROVE  /\ a + (h + n) = (a + h) + n /\ (a + 1) + h = (a + h) + 1
                    /\ (b = 0 <=> a + (h + n) = (a + (h + n)) + b)
                    /\ (a = front => a + 1 = 1 + front) /\ (a + 1 > 1 + front => a > front)
                    /\ front + h + m = (front + h) + m
  OBVIOUS
<1> QED OBVIOUS

\* What is told is wide enough and no wider.
LEMMA ToldFits ==
    ASSUME NEW l, l.width \in Int, l.prec \in Int, NEW value, NEW front \in {0, 1}, NEW mark, NEW h \in Nat, NEW digits,
           NEW a, NEW b, NEW z \in Nat, NEW d \in Nat \ {0}, Told(l, value, front, mark, h, digits, a, b, z, d)
    PROVE  /\ Fits(l.flags, l.width, l.prec, front, h, Len(l.text), a, b, Len(digits))
           /\ Len(digits) > Most(l.prec, 1) /\ digits[1] = "0" => Len(l.text) = l.width
<1>1. PICK width, prec, f : width \in Int /\ prec \in Int /\ width = l.width /\ prec = l.prec /\ f = l.flags
  OBVIOUS
<1>2. /\ Len(digits) = z + d /\ (z = 0 /\ d > 1 => digits[1] # "0")
      /\ Sized(a, z, b, f, (width - (front + h)) - Most(prec, d), front, prec - d)
      /\ Len(l.text) = (a + (h + Len(digits))) + b
  BY <1>1, Zenon DEF Told, Found
<1>3. LET len == (a + (h + (z + d))) + b
      IN  /\ a \in Nat /\ z \in Nat /\ b \in Nat
          /\ z + d >= prec /\ len >= width
          /\ "-" \in f => a = front
          /\ "-" \notin f => b = 0
          /\ "0" \in f /\ "-" \notin f => a = front
          /\ z + d > Most(prec, 1) /\ len # width => z = 0 /\ d > 1
          /\ b # 0 \/ a > front => len = Most(width, (front + h) + Most(prec, z + d))
  <2>1. Sizing(width, prec, front, h, d, f, a, z, b)
    BY <1>1, <1>2, Zenon DEF Sizing
  <2> QED BY <2>1, Widths
<1>4. z + d \in Nat \ {0}
  OBVIOUS
<1>5. Fits(f, width, prec, front, h, Len(l.text), a, b, Len(digits))
  BY <1>2, <1>3, <1>4, Zenon DEF Fits
<1>6. Len(digits) > Most(prec, 1) /\ digits[1] = "0" => Len(l.text) = width
  BY <1>2, <1>3, Zenon
<1> QED BY <1>1, <1>5, <1>6, Zenon

\* A number that number() printed can be read back, as NumberRight says.
LEMMA NumberIsRight == ASSUME NEW l, IsNumber(l) PROVE NumberRight(l)
<1>1. PICK value, base, table : /\ value = ValueOf(l) /\ base = BaseOf(l)
                                /\ table = IF l.conv = "X" THEN Large ELSE Small
  OBVIOUS
<1>2. PICK front, mark : Asked(l, value, front, mark)
  BY Zenon DEF Asked
<1>3. PICK num, f, n : Given(l, value, num, f, front, mark, n)
  BY <1>1, <1>2, Zenon DEF Given, IsNumber
<1>4. /\ front \in {0, 1}
      /\ mark # <<>> <=> l.conv = "d" /\ (value < 0 \/ "+" \in l.flags)
      /\ mark = <<"-">> <=> value < 0
      /\ Len(mark) = IF mark # <<>> THEN 1 ELSE 0
  BY <1>3, SignAsked
<1>5. PICK h : h = Len(mark) + IF "#" \in l.flags THEN IF base = 16 THEN 2 ELSE IF base = 8 THEN 1 ELSE 0 ELSE 0
  OBVIOUS
<1>6. Setting(l, value, front, mark, base, table, h)
  BY <1>1, <1>2, <1>5, Zenon DEF Setting
<1>7. h \in Nat
  BY <1>6, NumberTold
<1>8. PICK digits :
        \E a, b, z \in Nat, d \in Nat \ {0} :
           /\ Told(l, value, front, mark, h, digits, a, b, z, d)
           /\ ReadBack(digits, base, table) = IF value < 0 THEN -value ELSE value
  BY <1>6, NumberTold
<1>9. PICK a \in Nat, b \in Nat, z \in Nat, d \in Nat \ {0} :
        /\ Told(l, value, front, mark, h, digits, a, b, z, d)
        /\ ReadBack(digits, base, table) = IF value < 0 THEN -value ELSE value
  BY <1>8
<1>10. /\ Fits(l.flags, l.width, l.prec, front, h, Len(l.text), a, b, Len(digits))
       /\ Len(digits) > Most(l.prec, 1) /\ digits[1] = "0" => Len(l.text) = l.width
       /\ l.prec \in Int /\ l.width \in Int
  <2>1. l.prec \in Int /\ l.width \in Int
    BY Zenon DEF IsNumber
  <2> QED BY <2>1, <1>4, <1>7, <1>9, ToldFits
<1> DEFINE tx  == l.text
           n0  == Len(digits)
           bs  == CASE l.conv = "o" -> 8 [] l.conv \in {"x", "X"} -> 16 [] OTHER -> 10
           fst == Leftmost(Filled(tx))
           fin == Rightmost(Filled(tx))
           sg  == tx[fst] \in {"-", "+"}
           sk  == (IF sg THEN 1 ELSE 0) + (IF "#" \in l.flags THEN IF bs = 16 THEN 2 ELSE IF bs = 8 THEN 1 ELSE 0 ELSE 0)
           dg  == SubSeq(tx, fst + sk, fin)
           fr  == IF l.conv = "d" /\ ValueOf(l) >= 0 /\ Blank \in l.flags /\ "+" \notin l.flags THEN 1 ELSE 0
           ls  == fr + sk + Most(l.prec, Len(dg))
<1>11. /\ Len(tx) = (a + (h + n0)) + b
       /\ Filled(tx) = a + 1 .. a + (h + n0)
       /\ fst = a + 1 /\ fin = a + (h + n0)
       /\ tx[a + 1] \in {"-", "+"} <=> mark # <<>>
       /\ tx[a + 1] = "-" <=> mark = <<"-">>
       /\ \A k \in a + 1 .. a + (h + n0) : tx[k] # Blank
       /\ SubSeq(tx, (a + h) + 1, (a + h) + n0) = digits
  <2>1. Found(l.text, a, h, digits, b, mark)
    BY <1>9, Zenon DEF Told
  <2> QED BY <2>1, Zenon DEF Found
<1>12. /\ a \in Nat /\ b \in Nat /\ n0 \in Nat \ {0}
       /\ n0 >= l.prec /\ Len(tx) >= l.width
       /\ "-" \in l.flags => a = front
       /\ "-" \notin l.flags => b = 0
       /\ "0" \in l.flags /\ "-" \notin l.flags => a = front
       /\ b # 0 \/ a > front => Len(tx) = Most(l.width, (front + h) + Most(l.prec, n0))
  BY <1>10, Zenon DEF Fits
<1>13. Most(l.prec, n0) \in Int /\ front \in Nat
  <2> HIDE DEF n0
  <2> QED BY <1>4, <1>10, <1>12 DEF Most
<1>14. /\ a + (h + n0) = (a + h) + n0 /\ (a + 1) + h = (a + h) + 1
       /\ (b = 0 <=> a + (h + n0) = (a + (h + n0)) + b)
       /\ (a = front => a + 1 = 1 + front) /\ (a + 1 > 1 + front => a > front)
       /\ front + h + Most(l.prec, n0) = (front + h) + Most(l.prec, n0)
  <2>1. {a, b, h, n0, front} \subseteq Nat
    BY <1>7, <1>12, <1>13
  <2> HIDE DEF n0
  <2> QED BY <2>1, <1>13, Regroup
<1>15. bs = base
  BY <1>1 DEF BaseOf
<1>16. (sg <=> mark # <<>>) /\ (tx[fst] = "-" <=> mark = <<"-">>)
  BY <1>11, Zenon
<1> HIDE DEF n0, fst, fin, bs, sg
<1>17. sk = h
  <2>1. (IF sg THEN 1 ELSE 0) = Len(mark)
    BY <1>4, <1>16, Zenon
  <2> QED BY <2>1, <1>5, <1>15, Zenon
<1> HIDE DEF sk
<1>18. dg = digits
  BY <1>11, <1>14, <1>17, Zenon
<1> HIDE DEF dg
<1>19. fr = front
  BY <1>1, <1>2, Zenon DEF Asked
<1> HIDE DEF fr
<1>20. ls = (front + h) + Most(l.prec, n0)
  BY <1>14, <1>17, <1>18, <1>19, Zenon DEF n0
<1> HIDE DEF ls
<1>21. /\ ReadBack(dg, bs, table) = (IF value < 0 THEN -value ELSE value)
       /\ sg <=> l.conv = "d" /\ (value < 0 \/ "+" \in l.flags)
       /\ sg => (tx[fst] = "-" <=> value < 0)
  BY <1>4, <1>9, <1>15, <1>16, <1>18, Zenon
<1>22. Len(dg) >= l.prec /\ Len(tx) >= l.width /\ \A k \in fst .. fin : tx[k] # Blank
  BY <1>11, <1>12, <1>18, Zenon DEF n0
<1>23. /\ "-" \in l.flags => fst = 1 + fr
       /\ "-" \notin l.flags => fin = Len(tx)
       /\ "0" \in l.flags /\ "-" \notin l.flags => fst = 1 + fr
  BY <1>11, <1>12, <1>14, <1>19, Zenon
<1>24. Len(dg) > Most(l.prec, 1) /\ dg[1] = "0" => Len(tx) = l.width
  BY <1>10, <1>18, Zenon
<1>25. Filled(tx) # fst .. Len(tx) \/ fst > 1 + fr => Len(tx) = Most(l.width, ls)
  <2>1. CASE b = 0
    BY <2>1, <1>11, <1>12, <1>14, <1>19, <1>20, Zenon
  <2>2. CASE b # 0
    BY <2>2, <1>12, <1>20, Zenon
  <2> QED BY <2>1, <2>2
<1> QED BY <1>1, <1>21, <1>22, <1>23, <1>24, <1>25, Zenon DEF NumberRight, Blank, ls, fr, dg, sk, sg, bs, fst, fin

\* The flags are flags, and the number printed last is right.
NumberInv == flags \subseteq FlagChars /\ (last.conv \in Numeric => NumberRight(last))

\* Nothing has been printed at the start.
LEMMA NumberStarts == PrintfInit => NumberInv
<1> SUFFICES ASSUME PrintfInit PROVE NumberInv
  OBVIOUS
<1>1. flags = {} /\ last = NoConversion
  BY DEF PrintfInit
<1>2. last.conv = "none"
  BY <1>1 DEF NoConversion
<1>3. "none" \notin Numeric
  BY DEF Numeric
<1> QED BY <1>1, <1>2, <1>3, Zenon DEF NumberInv

\* Only a conversion of a number changes what is said of it.
LEMMA NumberStep == PrintfInv /\ NumberInv /\ [PrintfNext]_printfVars => NumberInv'
<1> SUFFICES ASSUME PrintfInv, NumberInv, [PrintfNext]_printfVars PROVE NumberInv'
  OBVIOUS
<1>1. flags \subseteq FlagChars /\ (last.conv \in Numeric => NumberRight(last))
  BY Zenon DEF NumberInv
<1>2. ASSUME last' = last, flags' \subseteq FlagChars PROVE NumberInv'
  BY <1>1, <1>2, Zenon DEF NumberInv
<1>3. ASSUME last' = last, flags' = flags PROVE NumberInv'
  BY <1>1, <1>3, <1>2, Zenon
<1>4. ASSUME NEW argument, NEW text, Prints(argument, text), ch \in Numeric => NumberRight(last') PROVE NumberInv'
  <2>1. flags' = flags /\ last' = [conv |-> ch, arg |-> argument, flags |-> flags, width |-> fieldWidth,
                                   prec |-> precision, qual |-> qualifier, text |-> text]
    BY <1>4, Zenon DEF Prints, directive
  <2>2. last'.conv = ch
    BY <2>1
  <2> QED BY <1>1, <1>4, <2>1, <2>2, Zenon DEF NumberInv
<1>5. CASE Entry
  BY <1>5, <1>3, Zenon DEF Entry, directive
<1>6. CASE Plain
  BY <1>6, <1>3, Zenon DEF Plain, directive
<1>7. CASE Percent
  <2>1. last' = last /\ flags' = {}
    BY <1>7, Zenon DEF Percent
  <2> QED BY <2>1, <1>2
<1>8. CASE Flag
  <2>1. last' = last /\ (flags' = flags \/ (ch \in FlagChars /\ flags' = flags \cup {ch}))
    BY <1>8, Zenon DEF Flag
  <2>2. flags' \subseteq FlagChars
    BY <1>1, <2>1
  <2> QED BY <2>1, <2>2, <1>2
<1>9. CASE Width
  <2>1. last' = last /\ (flags' = flags \/ flags' = flags \cup {"-"})
    BY <1>9 DEF Width
  <2>2. "-" \in FlagChars
    BY Zenon DEF FlagChars
  <2>3. flags' \subseteq FlagChars
    BY <1>1, <2>1, <2>2
  <2> QED BY <2>1, <2>3, <1>2
<1>10. CASE Precision
  BY <1>10, <1>3, Zenon DEF Precision
<1>11. CASE Qualifier
  BY <1>11, <1>3, Zenon DEF Qualifier
<1>12. CASE ConvertText
  <2>1. ch \in {"c", "s", "%"} /\ \E argument, text : Prints(argument, text)
    <3>1. ch \in {"c", "s", "%"}
      BY <1>12, Zenon DEF ConvertText
    <3>2. CASE Prints(<<"b">>, Justify(<<"b">>))
      BY <3>1, <3>2, Zenon
    <3>3. CASE Prints(<<>>, <<"%">>)
      BY <3>1, <3>3, Zenon
    <3>4. CASE \E w \in Words : LET len == IF precision = -1 \/ precision > Len(w) THEN Len(w) ELSE precision
                                IN  Prints(w, Justify(SubSeq(w, 1, len)))
      BY <3>1, <3>4, Zenon
    <3> QED BY <1>12, <3>2, <3>3, <3>4, Zenon DEF ConvertText
  <2>2. ch \notin Numeric
    BY <2>1 DEF Numeric
  <2> QED BY <2>1, <2>2, <1>4, Zenon
<1>13. CASE ConvertCount
  <2>1. ch = "n" /\ Prints((str - buf) % Addresses, <<>>)
    BY <1>13, Zenon DEF ConvertCount
  <2>2. ch \notin Numeric
    BY <2>1 DEF Numeric
  <2> QED BY <2>1, <2>2, <1>4, Zenon
<1>14. CASE ConvertPointer
  <2>1. ch = "p" /\ \E argument, text : Prints(argument, text)
    BY <1>14, Zenon DEF ConvertPointer
  <2>2. ch \notin Numeric
    BY <2>1 DEF Numeric
  <2> QED BY <2>1, <2>2, <1>4, Zenon
<1>15. CASE ConvertNumber
  <2> DEFINE base == IF ch = "o" THEN 8 ELSE IF ch \in {"x", "X"} THEN 16 ELSE 10
             f    == flags \cup (IF ch = "X" THEN {"LARGE"} ELSE IF ch = "d" THEN {"SIGN"} ELSE {})
             said(x) == number(ArgumentOf(x, qualifier, ch = "d"), base, fieldWidth, precision, f)
  <2>1. PICK x \in Numbers : ch \in Numeric /\ Prints(x, said(x))
    BY <1>15, Zenon DEF ConvertNumber
  <2>2. fieldWidth \in Int /\ precision \in Int
    BY DEF PrintfInv, PrintfTypes
  <2>3. last' = [conv |-> ch, arg |-> x, flags |-> flags, width |-> fieldWidth,
                 prec |-> precision, qual |-> qualifier, text |-> said(x)]
    BY <2>1, Zenon DEF Prints
  <2>4. PICK t : t = said(x)
    OBVIOUS
  <2>5. /\ last'.conv = ch /\ last'.arg = x /\ last'.flags = flags /\ last'.width = fieldWidth
        /\ last'.prec = precision /\ last'.qual = qualifier /\ last'.text = t
    <3> HIDE DEF said
    <3> QED BY <2>3, <2>4
  <2>6. BaseOf(last') = base /\ FlagsOf(last') = f
    BY <2>5, Zenon DEF BaseOf, FlagsOf
  <2>7. last'.text = number(ArgumentOf(last'.arg, last'.qual, last'.conv = "d"), BaseOf(last'), last'.width,
                            last'.prec, FlagsOf(last'))
    <3> HIDE DEF base, f
    <3> QED BY <2>4, <2>5, <2>6, Zenon
  <2>8. IsNumber(last')
    BY <1>1, <2>1, <2>2, <2>5, <2>7, Zenon DEF IsNumber
  <2>9. NumberRight(last')
    BY <2>8, NumberIsRight
  <2> QED BY <2>1, <2>9, <1>4, Zenon
<1>16. CASE ConvertOther
  BY <1>16, <1>3, Zenon DEF ConvertOther, directive
<1>17. CASE Finish
  BY <1>17, <1>3, Zenon DEF Finish, directive
<1>18. CASE UNCHANGED printfVars
  BY <1>18, <1>3, Zenon DEF printfVars
<1> QED BY <1>5, <1>6, <1>7, <1>8, <1>9, <1>10, <1>11, <1>12, <1>13, <1>14, <1>15, <1>16, <1>17, <1>18, Zenon DEF PrintfNext

\* Then a finished text is right.
LEMMA NumberHolds == NumberInv => NumberTrue
  BY Zenon DEF NumberInv, NumberTrue

\* For words of any three sizes, the long long wider than the int, and for all numbers,
\* flags, widths, precisions and formats: when vsnprintf has printed a number, its text
\* reads back as that number, with the sign, the prefix, the digits and the padding the
\* format asks for, and with no more of them than the width needs.
THEOREM NumberAlwaysTrue == PrintfSpec => []NumberTrue
<1>1. PrintfInit => PrintfInv /\ NumberInv
  BY PrintfStarts, NumberStarts
<1>2. PrintfInv /\ NumberInv /\ [PrintfNext]_printfVars => (PrintfInv /\ NumberInv)'
  BY PrintfStep, NumberStep
<1>3. PrintfInv /\ NumberInv => NumberTrue
  BY NumberHolds
<1> QED BY <1>1, <1>2, <1>3, PTL DEF PrintfSpec
============================================================================
