------------------------------ MODULE Network ------------------------------
(***************************************************************************)
(* The host's network devices of a machine, which the launches of          *)
(* Lifecycle share by name: pre_run creates them (PRE_CMD of lib-net.sh    *)
(* and lib-net-ovs.sh), QEMU opens them, on-exit removes them (POST_CMD).  *)
(* Lifecycle leaves open whether POST_CMD fails; here it follows from the  *)
(* machine's interfaces.                                                   *)
(***************************************************************************)
EXTENDS Lifecycle, Naturals, Sequences, FiniteSets

CONSTANTS
    Ifaces,  \* machine -> modes NET1_MODE, NET2_MODE, ... in that order
    Prefix   \* machine -> the first 11 characters of its name, without "-"

Modes == {"macvtap", "ovs", "tap", "sriov"}

ASSUME IfacesType == Ifaces \in [Machines -> Seq(Modes)]
ASSUME PrefixesDiffer ==
    /\ DOMAIN Prefix = Machines
    /\ \A m, n \in Machines : Prefix[m] = Prefix[n] => m = n

VARIABLES
    link,   \* device name -> the launch that created the device, Free: no such device
    vfs,    \* <<m, i, what>>: the virtual function of sriov interface i has the MAC of m
            \* (what = "mac"), or is bound to vfio-pci (what = "vfio")
    net,    \* where PRE_CMD is: <<interface, next command>>
    tapnum  \* launch -> device name -> the device whose number it read, Free: unset

netState == <<link, vfs, net, tapnum>>
netVars  == <<vars, netState>>

-----------------------------------------------------------------------------
(* What genconfig.sh makes of the interfaces *)

\* The modes whose device is created by name on the host
HasLink(mode) == mode \in {"macvtap", "ovs"}

\* NET_INDEX counts the interfaces before this one, sriov ones not among them.
NetIndex(m, i) == Cardinality({j \in 1..(i - 1) : Ifaces[m][j] # "sriov"})

\* VTAP_NAME: m_ or o_, the prefix, n and the index
VtapName(m, i) == <<Ifaces[m][i], Prefix[m], NetIndex(m, i)>>

LinkIfaces(m) == {i \in DOMAIN Ifaces[m] : HasLink(Ifaces[m][i])}
LinkNames(m)  == {VtapName(m, i) : i \in LinkIfaces(m)}
AllNames      == UNION {LinkNames(m) : m \in Machines}

\* Entries of POST_CMD per interface
PostCmds(mode) ==
    CASE mode = "macvtap" -> 1 [] mode \in {"ovs", "sriov"} -> 2 [] mode = "tap" -> 0

\* genconfig.sh:123 puts every entry of POST_CMD on one line, where two entries are
\* one command with surplus arguments: it fails and does nothing.
PostLine(m) ==
    LET once  == {i \in DOMAIN Ifaces[m] : PostCmds(Ifaces[m][i]) = 1}
        twice == {i \in DOMAIN Ifaces[m] : PostCmds(Ifaces[m][i]) = 2}
    IN  IF twice # {} \/ Cardinality(once) > 1 THEN "broken"
        ELSE IF once # {} THEN "del" ELSE "empty"

NetInit ==
    /\ Init
    /\ link = [n \in AllNames |-> Free]
    /\ vfs = {}
    /\ net = [b \in Boots |-> <<1, "del">>]
    /\ tapnum = [b \in Boots |-> [n \in AllNames |-> Free]]

-----------------------------------------------------------------------------
(* PRE_CMD, command by command, while run is in pre_run *)

At(b, cmd) ==
    /\ run[b] = "pre"
    /\ net[b][1] <= Len(Ifaces[MachineOf[b]])
    /\ net[b][2] = cmd

Mode(b) == Ifaces[MachineOf[b]][net[b][1]]
Name(b) == VtapName(MachineOf[b], net[b][1])

NextIface(b) == net' = [net EXCEPT ![b] = <<@[1] + 1, "del">>]

\* test -x /sys/class/net/$VTAP_NAME && ip link del dev $VTAP_NAME
NetDel(b) ==
    /\ At(b, "del") /\ HasLink(Mode(b))
    /\ link' = [link EXCEPT ![Name(b)] = Free]
    /\ net' = [net EXCEPT ![b] = <<@[1], "add">>]
    /\ UNCHANGED <<vars, vfs, tapnum>>

\* ip link add ... name $VTAP_NAME; with a device of that name it fails, which is RunExit.
NetAdd(b) ==
    /\ At(b, "add") /\ HasLink(Mode(b)) /\ link[Name(b)] = Free
    /\ link' = [link EXCEPT ![Name(b)] = b]
    /\ net' = [net EXCEPT ![b] = <<@[1], "up">>]
    /\ UNCHANGED <<vars, vfs, tapnum>>

\* ip link set dev $VTAP_NAME up; TAPNUM=$(< ifindex)
NetUp(b) ==
    /\ At(b, "up") /\ link[Name(b)] # Free
    /\ tapnum' = [tapnum EXCEPT ![b][Name(b)] = link[Name(b)]]
    /\ NextIface(b)
    /\ UNCHANGED <<vars, link, vfs>>

\* add_sriov_iface: mac, spoofchk, trust and vlan of the virtual function
NetSriov(b) ==
    /\ At(b, "del") /\ Mode(b) = "sriov"
    /\ vfs' = vfs \cup {<<MachineOf[b], net[b][1], "mac">>}
    /\ net' = [net EXCEPT ![b] = <<@[1], "add">>]
    /\ UNCHANGED <<vars, link, tapnum>>

\* _add_pcie_iface: vfio-bind of its port; that it fails is RunExit
NetVfioBind(b) ==
    /\ At(b, "add") /\ Mode(b) = "sriov"
    /\ vfs' = vfs \cup {<<MachineOf[b], net[b][1], "vfio">>}
    /\ NextIface(b)
    /\ UNCHANGED <<vars, link, tapnum>>

\* add_tap_iface and add_bridge_iface have no PRE_CMD.
NetOther(b) ==
    /\ At(b, "del") /\ Mode(b) = "tap"
    /\ NextIface(b)
    /\ UNCHANGED <<vars, link, vfs, tapnum>>

\* The end of PRE_CMD
NetRunPre(b) ==
    /\ RunPre(b)
    /\ net[b][1] > Len(Ifaces[MachineOf[b]])
    /\ UNCHANGED netState

\* exec 30<>/dev/tap$TAPNUM: the macvtap device with the number that was read must exist.
\* Then QEMU, which opens ovs devices by name (OPEN_FD has none for them) and would make
\* one for itself, as long as it runs, where there is none.
NetRunQemu(b) ==
    /\ RunQemu(b)
    /\ \A n \in LinkNames(MachineOf[b]) :
          n[1] = "macvtap" => link[n] # Free /\ link[n] = tapnum[b][n]
    /\ UNCHANGED netState

\* A new run script
NetScopeStart(b) ==
    /\ ScopeStart(b)
    /\ net' = [net EXCEPT ![b] = <<1, "del">>]
    /\ tapnum' = [tapnum EXCEPT ![b] = [n \in AllNames |-> Free]]
    /\ UNCHANGED <<link, vfs>>

\* Broken variant: on-exit does not remove the device.
NetPostKeeps(b) ==
    /\ onexit[b] = "post"
    /\ onexit' = [onexit EXCEPT ![b] = "check"]
    /\ UNCHANGED <<bootVars, run, exitp, qemuVars, netState>>

\* The line of POST_CMD; ip link del fails when there is no such device, and set -e ends
\* on-exit there. hugepages_free.sh, which follows, sets a variable.
NetPost(b) ==
    LET m    == MachineOf[b]
        line == PostLine(m)
        dev  == VtapName(m, CHOOSE i \in LinkIfaces(m) : TRUE)
    IN  /\ OnExitPost(b)
        /\ \/ line = "broken" /\ onexit'[b] = "aborted" /\ link' = link
           \/ line = "empty" /\ onexit'[b] = "check" /\ link' = link
           \/ line = "del" /\ link[dev] = Free /\ onexit'[b] = "aborted" /\ link' = link
           \/ /\ line = "del" /\ link[dev] # Free /\ onexit'[b] = "check"
              /\ link' = [link EXCEPT ![dev] = Free]
        /\ UNCHANGED <<vfs, net, tapnum>>

NetCrash ==
    /\ Crash
    /\ link' = [n \in AllNames |-> Free]
    /\ vfs' = {}
    /\ net' = [b \in Boots |-> <<1, "del">>]
    /\ tapnum' = [b \in Boots |-> [n \in AllNames |-> Free]]

NetNext ==
    \/ \E b \in Boots :
          \/ NetScopeStart(b) \/ NetDel(b) \/ NetAdd(b) \/ NetUp(b)
          \/ NetSriov(b) \/ NetVfioBind(b) \/ NetOther(b)
          \/ NetRunPre(b) \/ NetRunQemu(b) \/ NetPost(b)
    \/ /\ \/ \E b \in Boots :
                \/ BootStart(b) \/ BootStep(b) \/ RunExit(b)
                \/ OnExitRead(b) \/ OnExitTest(b) \/ OnExitKill(b) \/ OnExitRm(b)
                \/ QemuInit(b) \/ QemuExit(b)
          \/ \E m \in Machines : MachineContinue(m) \/ ShutdownHard(m)
          \/ \E p \in Pids : OtherStart(p) \/ OtherExit(p)
       /\ UNCHANGED netState
    \/ NetCrash

NetSpec == NetInit /\ [][NetNext]_netVars

-----------------------------------------------------------------------------
(* Properties *)

\* Device table, virtual functions and the position in PRE_CMD have their types.
NetTypeOK ==
    /\ link \in [AllNames -> Boots \cup {Free}]
    /\ \A v \in vfs :
          v[1] \in Machines /\ v[2] \in DOMAIN Ifaces[v[1]] /\ v[3] \in {"mac", "vfio"}
    /\ net \in [Boots -> Nat \X {"del", "add", "up"}]
    /\ \A b \in Boots : net[b][1] \in 1..(Len(Ifaces[MachineOf[b]]) + 1)
    /\ tapnum \in [Boots -> [AllNames -> Boots \cup {Free}]]

\* A guest that runs keeps its network: as long as the run script waits for its QEMU, the
\* devices of the machine are the ones this launch created. PRE_CMD of another launch
\* deletes an existing device of its name (lib-net.sh:107), and on-exit of an earlier
\* launch deletes by name as well (lib-net.sh:117).
TapOfRunning ==
    \A b \in Boots :
        run[b] = "wait" /\ qemu[b] # "none" =>
            \A n \in LinkNames(MachineOf[b]) : link[n] = b

\* on-exit cleans up after its launch (genconfig.sh:166, "Done ... cleaing up") when
\* the line of POST_CMD is a command that works: it stops half-way (set -e) only when
\* there is no QEMU left for it to kill, and a device that lib-net.sh:116 registers for
\* removal exists only while some process of its launch does.
ExitCleansUp ==
    \A b \in Boots :
        PostLine(MachineOf[b]) # "broken" =>
            /\ onexit[b] = "aborted" /\ b \in wrote => qemu[b] = "none"
            /\ \A n \in AllNames : link[n] = b => ScopeActive(b)
=============================================================================
