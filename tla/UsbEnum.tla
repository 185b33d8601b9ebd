------------------------------ MODULE UsbEnum ------------------------------
(***************************************************************************)
(* usb.c, usb-hub.c, usb-hid.c and the setup of the four host controllers: *)
(* a thread for every controller and for every port of every hub finds the *)
(* devices, gives them addresses, has drivers set them up, and gives back  *)
(* what no device needs. Threads change places only where they wait: for a *)
(* transfer, a delay, a lock or each other.                                *)
(***************************************************************************)
EXTENDS Integers, Sequences, FiniteSets

CONSTANTS
    Machines,   \* the machines of the instance, see the variable machine
    USB_MAXADDR, \* the last address of a bus
    MaxFaults   \* bound of the model on what fails: memory, transfers, resets

\* What a machine is: every hub is a port of the same controller or the controller
\* itself, above every port there is a controller, and a connector belongs to one
\* port, or to one of EHCI and one of its companion.
Wired(m) ==
    LET controllers == DOMAIN m.kind
        ports == DOMAIN m.hub
    IN  /\ IsFiniteSet(controllers) /\ IsFiniteSet(ports) /\ controllers \intersect ports = {}
        /\ \A c \in controllers : m.kind[c] \in {"uhci", "ohci", "ehci", "xhci"}
        /\ \A p \in ports :
              /\ m.cntl[p] \in controllers /\ m.at[p] \in DOMAIN m.class
              /\ m.hub[p] = m.cntl[p] \/ (m.hub[p] \in ports /\ m.cntl[m.hub[p]] = m.cntl[p])
        /\ \A some \in (SUBSET ports) \ {{}} : \E p \in some : m.hub[p] \notin some
        /\ \A p, q \in ports : p # q /\ m.at[p] = m.at[q] =>
              /\ m.hub[p] = m.cntl[p] /\ m.hub[q] = m.cntl[q]
              /\ m.kind[m.cntl[p]] = "ehci" <=> m.kind[m.cntl[q]] # "ehci"
              /\ m.kind[m.cntl[p]] # "xhci" /\ m.kind[m.cntl[q]] # "xhci"

ASSUME EnumAssumption == (\A m \in Machines : Wired(m)) /\ MaxFaults \in Nat /\ USB_MAXADDR \in Nat

VARIABLES
    machine,    \* kind: the type of each controller; hub, cntl, at: the hub (a
                \* controller, or the port of a hub device), the controller and
                \* the connector of each port; class, speed: of what is plugged
                \* into each connector
    cntl,       \* struct usb_s of each controller, its pipes and its schedule
    hubs,       \* struct usbhub_s of each hub: threads and devcount
    th,         \* the thread of each port and its struct usbdevice_s
    dev,        \* what is plugged into each connector: who sees it (the EHCI
                \* controller or not), and whether its port is enabled
    pending,    \* PendingEHCI
    hid,        \* keyboard_pipe and mouse_pipe
    lost,       \* whether the struct of a port could not be allocated
    faults      \* how many faults have happened

enumVars == <<machine, cntl, hubs, th, dev, pending, hid, lost, faults>>

Cntls == DOMAIN machine.kind
Ports == DOMAIN machine.hub
Kind(p) == machine.kind[machine.cntl[p]]
PortsOf(h) == {p \in Ports : machine.hub[p] = h}
Class(p) == machine.class[machine.at[p]]
Speed(p) == machine.speed[machine.at[p]]
OnHub(p) == machine.hub[p] \in Ports
NoPipe == <<"none", 0>>

\* The controller at the start: nothing allocated, no address given.
NewCntl == [st |-> "off", lock |-> FALSE, maxaddr |-> 0, free |-> <<>>, types |-> <<>>,
            sched |-> {}, stale |-> {}, freed |-> {}, stuck |-> FALSE]
NewThread == [pc |-> "off", pipe |-> 0, held |-> {}, ok |-> FALSE]
NewDevice == [seen |-> "rest", on |-> FALSE, addr |-> 0, stuck |-> FALSE]

EnumInit ==
    /\ machine \in Machines
    /\ cntl = [c \in Cntls |-> NewCntl]
    /\ hubs = [h \in Cntls \union Ports |-> [threads |-> 0, devcount |-> 0]]
    /\ th = [p \in Ports |-> NewThread]
    /\ dev = [d \in DOMAIN machine.class |-> NewDevice]
    /\ pending = Cardinality({c \in Cntls : machine.kind[c] = "ehci"})
    /\ hid = [kbd |-> NoPipe, mouse |-> NoPipe]
    /\ lost = FALSE
    /\ faults = 0

Fault == faults < MaxFaults /\ faults' = faults + 1
NoFault == UNCHANGED faults

-----------------------------------------------------------------------------
\* usb_add_freelist: the pipe becomes the first of its controller's freelist.
AddFree(k, id) == IF id = 0 THEN k ELSE [k EXCEPT !.free = <<id>> \o @]

\* usb_get_freelist: the first pipe of the type.
FreeOf(k, type) == {i \in DOMAIN k.free : k.types[k.free[i]] = type}
First(s) == CHOOSE i \in s : \A j \in s : i <= j

\* Where the pipes of a controller come from: uhci_realloc_pipe takes control
\* and bulk pipes from the freelist or links new ones into the schedule, and
\* uhci_alloc_intr_pipe always makes one. xhci_alloc_pipe has the controller
\* make all.
UhciPipes == [reused |-> {"control", "bulk"}, linked |-> TRUE]
OhciPipes == [reused |-> {"control", "bulk"}, linked |-> TRUE]
EhciPipes == [reused |-> {"control", "bulk"}, linked |-> TRUE]
XhciPipes == [reused |-> {}, linked |-> FALSE]
Pipes(kind) == CASE kind = "uhci" -> UhciPipes [] kind = "ohci" -> OhciPipes
                 [] kind = "ehci" -> EhciPipes [] OTHER -> XhciPipes

Reuses(kind, k, type) == type \in Pipes(kind).reused /\ FreeOf(k, type) # {}

NewPipe(kind, k, type) ==
    LET id == Len(k.types) + 1
    IN  [id |-> id,
         k |-> [k EXCEPT !.types = Append(@, type),
                         !.sched = IF Pipes(kind).linked THEN @ \union {id} ELSE @]]

AllocPipe(kind, k, type) ==
    IF Reuses(kind, k, type)
    THEN LET i == First(FreeOf(k, type))
         IN  [id |-> k.free[i], k |-> [k EXCEPT !.free = SubSeq(@, 1, i - 1) \o SubSeq(@, i + 1, Len(@))]]
    ELSE NewPipe(kind, k, type)

\* usb_realloc_pipe of a control pipe in use, when its address or packet size
\* changes: onto the freelist and off again. xhci_realloc_pipe keeps the pipe.
ReallocPipe(kind, k, id) ==
    IF kind = "xhci" THEN [id |-> id, k |-> k] ELSE AllocPipe(kind, AddFree(k, id), "control")

-----------------------------------------------------------------------------
\* The ports of root hubs (uhci_hub_detect, uhci_hub_reset, uhci_hub_disconnect
\* and their like) and of hub devices (usb_hub_detect...). Those of EHCI give
\* devices of low speed (when they are detected) and full speed (when they turn
\* out not to be enabled after the reset) to the companion controller. Those of
\* XHCI have nothing that disconnects.
UhciPort == [hands |-> {}, disables |-> TRUE]
OhciPort == [hands |-> {}, disables |-> TRUE]
EhciPort == [hands |-> {"low", "full"}, disables |-> TRUE]
XhciPort == [hands |-> {}, disables |-> FALSE]
HubPort == [hands |-> {}, disables |-> TRUE]
PortOf(p) == IF OnHub(p) THEN HubPort
             ELSE CASE Kind(p) = "uhci" -> UhciPort [] Kind(p) = "ohci" -> OhciPort
                    [] Kind(p) = "ehci" -> EhciPort [] OTHER -> XhciPort

\* What a port shows: the device of a connector that an EHCI controller and a
\* companion share is seen by one of them, that of a hub's port while the hub
\* is enabled.
Visible(p) ==
    /\ Class(p) # "none"
    /\ dev[machine.at[p]].seen = IF Kind(p) = "ehci" /\ ~OnHub(p) THEN "ehci" ELSE "rest"
    /\ OnHub(p) => dev[machine.at[machine.hub[p]]].on

\* The end of usb_hub_port_setup: threads--.
Done(p, k, count) ==
    LET c == machine.cntl[p] h == machine.hub[p]
    IN  /\ cntl' = [cntl EXCEPT ![c] = k]
        /\ hubs' = [hubs EXCEPT ![h].threads = @ - 1, ![h].devcount = @ + count]

Ended(p, ok) == th' = [th EXCEPT ![p].pc = "end", ![p].pipe = 0, ![p].ok = ok]

\* Broken variant: the device stays enabled.
DisconnectedNot(p, d) == UNCHANGED dev
\* The port is disabled. usb_hub_disconnect asks the hub to, which may fail.
Disconnected(p, d) ==
    \/ /\ PortOf(p).disables
       /\ dev' = [dev EXCEPT ![d] = [NewDevice EXCEPT !.seen = dev[d].seen]]
    \/ ~PortOf(p).disables /\ dev' = [dev EXCEPT ![d].stuck = TRUE]
DisconnectFails(p, d) == OnHub(p) /\ dev' = [dev EXCEPT ![d].stuck = TRUE]

Disconnect(p) ==
    \/ Disconnected(p, machine.at[p]) /\ NoFault
    \/ DisconnectFails(p, machine.at[p]) /\ Fault

\* What follows a fault: the disconnection may fail too, with the same cause.
DisconnectAfterFault(p) ==
    /\ Disconnected(p, machine.at[p]) \/ DisconnectFails(p, machine.at[p])
    /\ Fault

\* ehci_hub_detect and ehci_hub_reset give a device of low or full speed to the
\* companion controller (PORT_OWNER).
HandOver(p) == dev' = [dev EXCEPT ![machine.at[p]] = [NewDevice EXCEPT !.seen = "rest"]]

\* usb_hub_port_setup: detect, until the time is over or a device is there.
Detect(p) ==
    /\ th[p].pc = "detect"
    /\ \/ /\ Visible(p)
          /\ ~("low" \in PortOf(p).hands /\ Speed(p) = "low")
          /\ th' = [th EXCEPT ![p].pc = "lock"]
          /\ UNCHANGED <<dev, cntl, hubs, faults>>
       \/ /\ Visible(p) /\ "low" \in PortOf(p).hands /\ Speed(p) = "low"
          /\ HandOver(p)
          /\ Done(p, cntl[machine.cntl[p]], 0) /\ Ended(p, FALSE) /\ NoFault
       \/ /\ ~Visible(p)
          /\ Done(p, cntl[machine.cntl[p]], 0) /\ Ended(p, FALSE) /\ NoFault /\ UNCHANGED dev
       \/ /\ OnHub(p) /\ Fault
          /\ Done(p, cntl[machine.cntl[p]], 0) /\ Ended(p, FALSE) /\ UNCHANGED dev
    /\ UNCHANGED <<machine, pending, hid, lost>>

\* With resetlock taken: the device is reset and its port enabled, where it
\* answers to address 0. A reset that fails gives the lock back.
Reset(p) ==
    /\ th[p].pc = "lock" /\ ~cntl[machine.cntl[p]].lock
    /\ \/ /\ Speed(p) \notin PortOf(p).hands
          /\ cntl' = [cntl EXCEPT ![machine.cntl[p]].lock = TRUE]
          /\ dev' = [dev EXCEPT ![machine.at[p]].on = TRUE, ![machine.at[p]].addr = 0]
          /\ th' = [th EXCEPT ![p].pc = "addr"] /\ UNCHANGED hubs /\ NoFault
       \/ /\ Speed(p) \in PortOf(p).hands
          /\ HandOver(p) /\ NoFault
          /\ Done(p, cntl[machine.cntl[p]], 0) /\ Ended(p, FALSE)
       \/ /\ Fault
          /\ \/ UNCHANGED dev
             \/ OnHub(p) /\ dev' = [dev EXCEPT ![machine.at[p]] = [@ EXCEPT !.on = TRUE, !.stuck = TRUE]]
          /\ Done(p, cntl[machine.cntl[p]], 0) /\ Ended(p, FALSE)
    /\ UNCHANGED <<machine, pending, hid, lost>>

\* Broken variant: the lock is not given back.
AddressFailsLocked(p, id) ==
    Done(p, AddFree(cntl[machine.cntl[p]], id), 0) /\ Ended(p, FALSE)
\* usb_set_address that fails: the pipe is freed, the port disabled and the lock
\* given back.
AddressFails(p, id) ==
    LET k == cntl[machine.cntl[p]]
    IN  Done(p, [AddFree(k, id) EXCEPT !.lock = FALSE], 0) /\ Ended(p, FALSE)

\* A pipe cannot be had when there is no memory for it, or when the commands
\* that xhci_alloc_pipe gives the controller (enable a slot, address the device)
\* fail.
XhciCommands(p) == Kind(p) = "xhci"

\* usb_set_address: a pipe to address 0.
Address(p) ==
    LET k == cntl[machine.cntl[p]]
        a == AllocPipe(Kind(p), k, "control")
    IN  /\ th[p].pc = "addr"
        /\ \/ /\ k.maxaddr >= USB_MAXADDR
              /\ Disconnect(p) /\ AddressFails(p, 0)
           \/ /\ k.maxaddr < USB_MAXADDR
              /\ ~Reuses(Kind(p), k, "control") \/ XhciCommands(p)
              /\ DisconnectAfterFault(p) /\ AddressFails(p, 0)
           \/ /\ k.maxaddr < USB_MAXADDR
              /\ cntl' = [cntl EXCEPT ![machine.cntl[p]] = a.k]
              /\ th' = [th EXCEPT ![p].pc = "send", ![p].pipe = a.id]
              /\ UNCHANGED <<dev, hubs>> /\ NoFault
    /\ UNCHANGED <<machine, pending, hid, lost>>

\* Who hears what is sent to address 0 of a bus.
OnBus(p) == dev[machine.at[p]].on /\ Visible(p)
AtZero(c) == {machine.at[p] : p \in {q \in Ports : machine.cntl[q] = c /\ OnBus(q) /\ dev[machine.at[q]].addr = 0}}

\* The SET_ADDRESS message: every device at address 0 takes the address, even
\* if the answer is lost.
SendAddress(p) ==
    LET c == machine.cntl[p]
        heard == IF Kind(p) = "xhci" THEN {machine.at[p]} ELSE AtZero(c)
        taken == [d \in DOMAIN dev |-> IF d \in heard THEN [dev[d] EXCEPT !.addr = cntl[c].maxaddr + 1]
                                       ELSE dev[d]]
    IN  /\ th[p].pc = "send"
        /\ \/ /\ dev' = taken
              /\ th' = [th EXCEPT ![p].pc = "settle"]
              /\ UNCHANGED <<cntl, hubs>> /\ NoFault
           \/ /\ Kind(p) # "xhci"
              /\ \/ Disconnected(p, machine.at[p])
                 \/ OnHub(p) /\ dev' = [taken EXCEPT ![machine.at[p]].stuck = TRUE]
                 \/ DisconnectFails(p, machine.at[p])
              /\ Fault /\ AddressFails(p, th[p].pipe)
    /\ UNCHANGED <<machine, pending, hid, lost>>

\* The end of usb_set_address, and the lock given back.
Settle(p) ==
    LET c == machine.cntl[p]
        a == ReallocPipe(Kind(p), cntl[c], th[p].pipe)
    IN  /\ th[p].pc = "settle"
        /\ cntl' = [cntl EXCEPT ![c] = [a.k EXCEPT !.maxaddr = a.k.maxaddr + 1, !.lock = FALSE]]
        /\ th' = [th EXCEPT ![p].pc = "describe", ![p].pipe = a.id]
        /\ UNCHANGED <<machine, hubs, dev, pending, hid, lost, faults>>

-----------------------------------------------------------------------------
\* usb_hub_port_setup after configure_usb_device: the control pipe goes onto the
\* freelist, a device without driver is disconnected, the others are counted.
Configured(p, k) ==
    /\ Done(p, AddFree(k, th[p].pipe), 1)
    /\ UNCHANGED dev
Refused(p, k) == Done(p, AddFree(k, th[p].pipe), 0) /\ Ended(p, FALSE)
Refuse(p) == Refused(p, cntl[machine.cntl[p]])

\* get_device_info8, the new packet size, get_device_config, set_configuration
\* and the choice of a driver. usb_kbd_setup and usb_mouse_setup refuse a second
\* device at this point, before they wait for it.
Describe(p) ==
    LET a == ReallocPipe(Kind(p), cntl[machine.cntl[p]], th[p].pipe)
    IN  /\ th[p].pc = "describe"
        /\ \/ Refuse(p) /\ DisconnectAfterFault(p)
           \/ /\ \/ Class(p) = "other"
                 \/ Class(p) \in DOMAIN hid /\ hid[Class(p)] # NoPipe
              /\ Refuse(p) /\ Disconnect(p)
           \/ /\ Class(p) \in {"hub", "disk"} \/ (Class(p) \in DOMAIN hid /\ hid[Class(p)] = NoPipe)
              /\ cntl' = [cntl EXCEPT ![machine.cntl[p]] = a.k]
              /\ th' = [th EXCEPT ![p].pc = Class(p), ![p].pipe = a.id]
              /\ UNCHANGED <<hubs, dev>> /\ NoFault
    /\ UNCHANGED <<machine, pending, hid, lost>>

\* set_protocol, set_idle and the interrupt pipe of a keyboard or a mouse. The
\* variable of the pipe is set whatever another thread has put there by then,
\* and to NULL when the pipe cannot be had.
HidSetup(p) ==
    LET c == machine.cntl[p]
        a == AllocPipe(Kind(p), cntl[c], "int")
    IN  /\ th[p].pc \in DOMAIN hid
        /\ \/ Refuse(p) /\ DisconnectAfterFault(p)
              /\ \/ UNCHANGED hid
                 \/ hid' = [hid EXCEPT ![th[p].pc] = NoPipe]
           \/ /\ hid' = [hid EXCEPT ![th[p].pc] = <<c, a.id>>]
              /\ Configured(p, a.k) /\ NoFault
              /\ th' = [th EXCEPT ![p] = [@ EXCEPT !.pc = "end", !.pipe = 0, !.held = {a.id}, !.ok = TRUE]]
    /\ UNCHANGED <<machine, pending, lost>>

\* usb_msc_setup and usb_uas_setup: the pipes of a disk, freed if it cannot be
\* set up.
DiskSetup(p) ==
    LET c == machine.cntl[p]
        a == AllocPipe(Kind(p), cntl[c], "bulk")
        b == AllocPipe(Kind(p), a.k, "bulk")
    IN  /\ th[p].pc = "disk"
        /\ \/ /\ \E k \in {cntl[c], AddFree(a.k, a.id), AddFree(AddFree(b.k, a.id), b.id)} : Refused(p, k)
              /\ DisconnectAfterFault(p)
           \/ /\ Configured(p, b.k) /\ NoFault
              /\ th' = [th EXCEPT ![p] = [@ EXCEPT !.pc = "end", !.pipe = 0, !.held = {a.id, b.id}, !.ok = TRUE]]
    /\ UNCHANGED <<machine, pending, hid, lost>>

\* usb_enumerate: a thread for every port whose struct can be allocated.
Launch(h, t) ==
    \E fail \in SUBSET PortsOf(h) :
        /\ Cardinality(fail) <= MaxFaults - faults
        /\ faults' = faults + Cardinality(fail)
        /\ lost' = (lost \/ fail # {})
        /\ th' = [p \in Ports |-> IF p \in PortsOf(h) \ fail THEN [t[p] EXCEPT !.pc = "detect"] ELSE t[p]]
        /\ hubs' = [hubs EXCEPT ![h].threads = Cardinality(PortsOf(h))]

\* usb_hub_setup: the descriptor, the depth and the power of the ports.
HubSetup(p) ==
    /\ th[p].pc = "hub"
    /\ \/ Refuse(p) /\ DisconnectAfterFault(p) /\ UNCHANGED lost
       \/ Launch(p, [th EXCEPT ![p].pc = "wait"]) /\ UNCHANGED <<cntl, dev>>
    /\ UNCHANGED <<machine, pending, hid>>

\* The rest of usb_hub_setup: a hub counts when one of its devices does.
HubDone(p) ==
    /\ th[p].pc = "wait" /\ hubs[p].threads = 0
    /\ \/ /\ hubs[p].devcount # 0
          /\ Configured(p, cntl[machine.cntl[p]]) /\ Ended(p, TRUE) /\ NoFault
       \/ hubs[p].devcount = 0 /\ Refuse(p) /\ Disconnect(p)
    /\ UNCHANGED <<machine, pending, hid, lost>>

-----------------------------------------------------------------------------
\* configure_uhci and its like up to the ports: the memory of the schedule and
\* the reset of the controller, where failure ends the thread.
ConfigureFails(c) == Fault /\ cntl' = [cntl EXCEPT ![c].st = "freed"] /\ UNCHANGED <<dev>>
Starts(c, kind) == machine.kind[c] = kind /\ cntl[c].st = "off"
Runs(c) == NoFault /\ cntl' = [cntl EXCEPT ![c].st = "ports"]

ConfigureUhci(c) ==
    Starts(c, "uhci") /\ (ConfigureFails(c) \/ (Runs(c) /\ UNCHANGED dev)) /\ UNCHANGED pending
ConfigureOhci(c) ==
    Starts(c, "ohci") /\ (ConfigureFails(c) \/ (Runs(c) /\ UNCHANGED dev)) /\ UNCHANGED pending
ConfigureXhci(c) ==
    Starts(c, "xhci") /\ (ConfigureFails(c) \/ (Runs(c) /\ UNCHANGED dev)) /\ UNCHANGED pending
\* configflag routes the ports of an EHCI controller to it, and PendingEHCI
\* counts those that have not come to this point or failed.
ConfigureEhci(c) ==
    /\ Starts(c, "ehci") /\ pending' = pending - 1
    /\ \/ ConfigureFails(c)
       \/ /\ Runs(c)
          /\ dev' = [d \in DOMAIN dev |-> IF \E p \in PortsOf(c) : machine.at[p] = d
                                         THEN [dev[d] EXCEPT !.seen = "ehci"] ELSE dev[d]]

Configure(c) ==
    /\ ConfigureUhci(c) \/ ConfigureOhci(c) \/ ConfigureEhci(c) \/ ConfigureXhci(c)
    /\ UNCHANGED <<machine, hubs, th, hid, lost>>

\* check_uhci_ports and check_ohci_ports wait for the EHCI controllers
\* (ehci_wait_controllers), so that these have the ports first.
AwaitsEhci(kind) == kind \in {"uhci", "ohci"}

CheckPorts(c) ==
    /\ cntl[c].st = "ports"
    /\ AwaitsEhci(machine.kind[c]) => pending = 0
    /\ cntl' = [cntl EXCEPT ![c].st = "enum"]
    /\ Launch(c, th)
    /\ UNCHANGED <<machine, dev, pending, hid>>

\* Which pipes of the freelist uhci_free_pipes and ehci_free_pipes free, which
\* ohci_free_pipes (those of the control list), and xhci_free_pipes (none).
UhciFrees == {"control", "bulk", "int"}
OhciFrees == {"control"}
EhciFrees == {"control", "bulk", "int"}
XhciFrees == {}
Freeable(c) ==
    LET types == CASE machine.kind[c] = "uhci" -> UhciFrees [] machine.kind[c] = "ohci" -> OhciFrees
                   [] machine.kind[c] = "ehci" -> EhciFrees [] OTHER -> XhciFrees
    IN  UNION {{cntl[c].free[i] : i \in FreeOf(cntl[c], t)} : t \in types}

\* What is taken off the schedule.
Unlinked(c) == Freeable(c)

\* All ports are done. uhci_free_pipes and ehci_free_pipes take their pipes off
\* the schedule, which the controller may still be looking at; ohci_free_pipes
\* has the controller stop looking at its lists.
Unlink(c) ==
    /\ cntl[c].st = "enum" /\ hubs[c].threads = 0
    /\ cntl' = [cntl EXCEPT ![c] = [cntl[c] EXCEPT !.st = "tick",
                    !.sched = IF machine.kind[c] = "ohci" THEN @ ELSE @ \ Unlinked(c),
                    !.stale = cntl[c].sched \intersect Unlinked(c)]]
    /\ UNCHANGED <<machine, hubs, th, dev, pending, hid, lost, faults>>

\* Whether uhci_waittick, ohci_waittick or ehci_waittick sees a tick: they give
\* up on a controller that stands still, and the pipes are freed nevertheless.
WaitUhci(c) == machine.kind[c] = "uhci" /\ Fault
WaitOhci(c) == machine.kind[c] = "ohci" /\ Fault
WaitEhci(c) == machine.kind[c] = "ehci" /\ Fault

\* A controller without devices is stopped and its memory freed.
Release(c) ==
    /\ cntl[c].st = "tick"
    /\ \E tick \in BOOLEAN :
        /\ IF tick THEN NoFault ELSE WaitUhci(c) \/ WaitOhci(c) \/ WaitEhci(c)
        /\ cntl' = [cntl EXCEPT ![c] =
              [cntl[c] EXCEPT !.st = IF hubs[c].devcount # 0 THEN "run" ELSE "freed",
                        !.stale = IF tick THEN {} ELSE @, !.stuck = ~tick,
                        !.sched = IF machine.kind[c] = "ohci" THEN @ \ Unlinked(c) ELSE @,
                        !.freed = Freeable(c),
                        !.free = IF machine.kind[c] = "xhci" THEN @ ELSE <<>>]]
    /\ UNCHANGED <<machine, hubs, th, dev, pending, hid, lost>>

\* usb_setup starts all controllers.
EnumNext ==
    \/ \E c \in Cntls : Configure(c) \/ CheckPorts(c) \/ Unlink(c) \/ Release(c)
    \/ \E p \in Ports : \/ Detect(p) \/ Reset(p) \/ Address(p) \/ SendAddress(p) \/ Settle(p)
                        \/ Describe(p) \/ HidSetup(p) \/ DiskSetup(p) \/ HubSetup(p) \/ HubDone(p)

EnumSpec == EnumInit /\ [][EnumNext]_enumVars

-----------------------------------------------------------------------------
\* No two devices of a bus answer to the same address, not even to 0 while they
\* are set up by threads of their own: resetlock is held until a device has an
\* address of its own, and a port whose device failed to take one is disabled.
\* The exceptions are ports that could not be disabled: those of a hub that did
\* not answer, and the root ports of XHCI.
AddressesUnique ==
    \A p, q \in Ports :
        LET d == machine.at[p] e == machine.at[q]
        IN  d # e /\ machine.cntl[p] = machine.cntl[q] /\ OnBus(p) /\ OnBus(q)
            /\ dev[d].addr = dev[e].addr => dev[d].stuck \/ dev[e].stuck

\* What is given back is not used any more, neither by a driver or a thread nor
\* by a controller that still finds it in its schedule, unless the controller
\* stood still when its next frame was waited for.
InUse(c) == UNION {th[p].held \union {th[p].pipe} : p \in {q \in Ports : machine.cntl[q] = c}}
ReleasedSafely ==
    \A c \in Cntls :
        /\ cntl[c].freed \intersect (cntl[c].sched \union InUse(c)) = {}
        /\ ~cntl[c].stuck => cntl[c].freed \intersect cntl[c].stale = {}
        /\ {cntl[c].free[i] : i \in DOMAIN cntl[c].free} \intersect InUse(c) = {}

\* A device whose driver is ready stays enabled, with every hub above it, on a
\* controller that runs: the counts that decide what is shut down miss none.
\* The pipes that the timer interrupt polls belong to such devices.
DevicesKept ==
    /\ \A p \in Ports : th[p].ok =>
        /\ OnBus(p)
        /\ cntl[machine.cntl[p]].st # "freed"
        /\ OnHub(p) /\ th[machine.hub[p]].pc = "end" => th[machine.hub[p]].ok
    /\ \A k \in DOMAIN hid : hid[k] # NoPipe =>
        \E p \in Ports : th[p].ok /\ machine.cntl[p] = hid[k][1] /\ hid[k][2] \in th[p].held

\* The threads of the ports, the hubs and the controllers do not get into each
\* other's way: addresses (AddressesUnique), pipes and descriptors (ReleasedSafely)
\* and the devices that work (DevicesKept).
EnumerationSafe == AddressesUnique /\ ReleasedSafely /\ DevicesKept

\* The enumeration is over.
Settled == \A c \in Cntls : cntl[c].st \in {"run", "freed"}
=============================================================================
