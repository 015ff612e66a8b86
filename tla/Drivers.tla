------------------------------ MODULE Drivers ------------------------------
(***************************************************************************)
(* The driver model of drivers/base: buses with a list of devices and a    *)
(* list of drivers, and a driver that is bound to devices and probed when  *)
(* it is registered.  Only the boot task does any of this; the probe       *)
(* functions are the drivers' own and may refuse.                          *)
(*                                                                         *)
(* unbound collects what has happened that the code does not provide for:  *)
(*   "nobus"    something was registered on a bus that is not registered   *)
(*   "twice"    something was registered a second time                     *)
(*   "late"     a device was registered after its driver                   *)
(*   "behind"   the loop stopped at a device of another name although one  *)
(*              of the driver's came behind it                             *)
(*   "taken"    a device was bound to a second driver of its name          *)
(*   "refused"  a probe failed, and the device keeps the driver            *)
(* lost says that links have been followed that nobody has set or that two *)
(* lists share.                                                            *)
(***************************************************************************)
EXTENDS Integers, Sequences, FiniteSets

CONSTANTS Bus, Device, Driver,
          BusOf, NameOf,      \* of devices and drivers
          Probing,            \* the drivers that have a probe function
          NoDriver

ASSUME DriversAssumption ==
    /\ Device \cap Driver = {} /\ NoDriver \notin Driver
    /\ BusOf \in [Device \cup Driver -> Bus]
    /\ Probing \subseteq Driver

VARIABLES buses,        \* the buses that are registered
          listDevices, listDrivers,
          driverOf,     \* dev->driver
          registering,  \* the driver driver_register works on, and its turn
          probed,       \* ghost: which driver's probe was called for which device
          unbound, lost

driverVars == <<buses, listDevices, listDrivers, driverOf, registering, probed, unbound, lost>>

NotRegistering == registering.drv = NoDriver
MayRegister  == NotRegistering /\ ~lost /\ unbound = {}
Rule(r, bad) == IF bad THEN {r} ELSE {}
Elements(list) == {list[k] : k \in DOMAIN list}
Match(drv, dev) == NameOf[drv] = NameOf[dev]

bus_register(b) ==
    /\ MayRegister /\ b \notin buses
    /\ buses' = buses \cup {b}
    /\ listDevices' = [listDevices EXCEPT ![b] = <<>>]
    /\ listDrivers' = [listDrivers EXCEPT ![b] = <<>>]
    /\ UNCHANGED <<driverOf, registering, probed, unbound, lost>>

\* list_add_tail is only right for a list that has been made, and for an entry
\* that is on none.
Misplaced(x, list) == Rule("nobus", BusOf[x] \notin buses) \cup Rule("twice", x \in Elements(list))

device_register(dev) ==
    /\ MayRegister
    /\ LET b   == BusOf[dev]
           bad == Misplaced(dev, listDevices[b]) IN
       /\ lost' = (bad # {})
       /\ unbound' = bad \cup Rule("late", \E drv \in Elements(listDrivers[b]) : Match(drv, dev))
       /\ listDevices' = [listDevices EXCEPT ![b] = IF bad = {} THEN Append(@, dev) ELSE @]
    /\ UNCHANGED <<buses, listDrivers, driverOf, registering, probed>>

driver_register(drv) ==
    /\ MayRegister
    /\ LET b   == BusOf[drv]
           bad == Misplaced(drv, listDrivers[b]) IN
       /\ lost' = (bad # {})
       /\ unbound' = bad
       /\ listDrivers' = [listDrivers EXCEPT ![b] = IF bad = {} THEN Append(@, drv) ELSE @]
       /\ registering' = IF bad = {} THEN [drv |-> drv, turn |-> 1] ELSE registering
    /\ UNCHANGED <<buses, listDevices, driverOf, probed>>

OnBus == listDevices[BusOf[registering.drv]]
Registered == registering' = [drv |-> NoDriver, turn |-> 1]

\* The list ends, or a device has another name: the rest is not looked at.
RegisterStop ==
    /\ ~NotRegistering
    /\ IF registering.turn > Len(OnBus) THEN UNCHANGED unbound
       ELSE /\ ~Match(registering.drv, OnBus[registering.turn])
            /\ unbound' = unbound \cup
                 Rule("behind", \E k \in registering.turn .. Len(OnBus) : Match(registering.drv, OnBus[k]))
    /\ Registered
    /\ UNCHANGED <<buses, listDevices, listDrivers, driverOf, probed, lost>>

\* The wrapper finds the driver to probe in the device; what the probe returns
\* is given up by driver_register.
ProbedWith(drv, dev) ==
    /\ probed' = IF drv \in Probing THEN Append(probed, <<drv, dev>>) ELSE probed
    /\ \E refused \in BOOLEAN :
          unbound' = unbound \cup Rule("taken", driverOf[dev] # NoDriver)
                             \cup Rule("refused", refused /\ drv \in Probing)

\* Slip: the device is told of its driver when the probe has returned.
driver_probe_device_late(drv, dev) ==
    /\ driverOf' = [driverOf EXCEPT ![dev] = drv]
    /\ ProbedWith(driverOf[dev], dev)
driver_probe_device(drv, dev) ==
    /\ driverOf' = [driverOf EXCEPT ![dev] = drv]
    /\ ProbedWith(driverOf'[dev], dev)

ProbeTurn ==
    /\ ~NotRegistering
    /\ registering.turn <= Len(OnBus) /\ Match(registering.drv, OnBus[registering.turn])
    /\ driver_probe_device(registering.drv, OnBus[registering.turn])
    /\ registering' = [registering EXCEPT !.turn = @ + 1]
    /\ UNCHANGED <<buses, listDevices, listDrivers, lost>>

DriversInit ==
    /\ buses = {}
    /\ listDevices = [b \in Bus |-> <<>>] /\ listDrivers = [b \in Bus |-> <<>>]
    /\ driverOf = [dev \in Device |-> NoDriver]
    /\ registering = [drv |-> NoDriver, turn |-> 1]
    /\ probed = <<>>
    /\ unbound = {} /\ lost = FALSE

DriversNext ==
    \/ \E b \in Bus : bus_register(b)
    \/ \E dev \in Device : device_register(dev)
    \/ \E drv \in Driver : driver_register(drv)
    \/ ProbeTurn \/ RegisterStop

-----------------------------------------------------------------------------
TimesProbed(drv, dev) == Cardinality({k \in DOMAIN probed : probed[k] = <<drv, dev>>})

\* Whatever order buses, devices and drivers are registered in: no device is
\* bound to a driver of another bus or name, and as long as no rule is broken
\* every device that has a driver of its name on its bus is bound to it and was
\* probed by it once, and nobody else was probed.
DriversBound ==
    /\ \A dev \in Device :
          LET drv == driverOf[dev]
          IN  drv # NoDriver => /\ drv \in Elements(listDrivers[BusOf[dev]])
                                /\ Match(drv, dev)
    /\ unbound = {} /\ NotRegistering =>
          /\ \A b \in Bus : \A dev \in Elements(listDevices[b]), drv \in Elements(listDrivers[b]) :
                Match(drv, dev) => driverOf[dev] = drv
          /\ \A dev \in Device, drv \in Driver :
                TimesProbed(drv, dev) = (IF driverOf[dev] = drv /\ drv \in Probing THEN 1 ELSE 0)
=============================================================================
