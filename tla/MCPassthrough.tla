--------------------------- MODULE MCPassthrough ---------------------------
(* Two instances of Passthrough for TLC, of which a behaviour takes one. *)
EXTENDS Passthrough, TLC

CONSTANTS m1, m2, gpu, audio, usb

\* Two machines with one graphics card; m1 has its audio function and a USB controller.
SharedCard == m1 :> <<gpu, audio>> @@ m2 :> <<gpu>>
OneUsb     == m1 :> <<usb>> @@ m2 :> <<>>

\* The same card, as two entries of RUN_PRE_BOOT of m1 and as the card of m2
TwoPreBoot == m1 :> <<gpu, audio>> @@ m2 :> <<>>
CardOfM2   == m1 :> <<>> @@ m2 :> <<gpu>>

VARIABLES
    driver2, override2, launch2, arg2, tool2,  \* the second host's
    half,                                      \* its devices whose bind was cut short
    host                                       \* 1 or 2: the one the behaviour is about

\* Launches that are killed or fail, and all of the operator's commands
Failures == INSTANCE Passthrough WITH
    Devices <- {gpu, audio}, PreBoot <- TwoPreBoot, GfxPt <- CardOfM2,
    Tools <- {"drv-bind", "vfio-reset", "vfio-unbind"}, Interrupts <- TRUE,
    driver <- driver2, override <- override2, launch <- launch2, arg <- arg2, tool <- tool2

ptVars2 == <<driver2, override2, launch2, arg2, tool2>>

\* The step ends vfio-bind between its override and its probe of d, or vfio-unbind has
\* taken d from vfio-pci.
CutShort(d) ==
    \/ \E m \in Machines : Failures!Interrupt(m) /\ launch2[m] \in {"unbind", "probe"}
                           /\ Failures!Arg(m) = d
    \/ tool2[d][1] = "vfio-unbind" /\ Failures!ToolUnbind(d)

\* The step is the last one of a vfio-bind, drv-bind or vfio-reset of d.
Finished(d) ==
    \/ \E m \in Machines : Failures!VfioBindProbe(m) /\ Failures!Arg(m) = d
    \/ Failures!ToolBind(d)

MCInit == PtInit /\ Failures!PtInit /\ half = {} /\ host \in {1, 2}

MCNext ==
    /\ \/ host = 1 /\ PtNext /\ UNCHANGED <<ptVars2, half>>
       \/ /\ host = 2 /\ Failures!PtNext /\ UNCHANGED ptVars
          /\ half' = IF Failures!HostRestart THEN {}
                     ELSE {d \in {gpu, audio} : CutShort(d) \/ (d \in half /\ ~Finished(d))}
    /\ UNCHANGED host

MCSpec == MCInit /\ [][MCNext]_<<ptVars, ptVars2, half, host>>

\* A launch that is killed or fails in pre_run, and vfio-unbind, spoil the device they
\* were at and no other: QEMU finds all devices on vfio-pci but those whose last bind was
\* cut short (vfio-bind:28 takes the override alone for a finished bind), and these again
\* after the operator has given them to another driver.
FailuresStay ==
    \A m \in Machines : launch2[m] = "qemu" =>
        \A d \in Failures!DevicesOf(m) \ half : driver2[d] = "vfio-pci"
=============================================================================
