\* Two machines with one graphics card, an operator with drv-bind and vfio-reset; or, on a
\* second host, launches that are killed or fail and all of the operator's commands.
CONSTANTS
    m1 = m1  m2 = m2  gpu = gpu  audio = audio  usb = usb
    Machines = {m1, m2}
    Devices = {gpu, audio, usb}
    PreBoot <- OneUsb
    GfxPt <- SharedCard
    Tools = {"drv-bind", "vfio-reset"}
    Interrupts = FALSE
    Careful = TRUE
SPECIFICATION MCSpec
INVARIANTS DevicesReady GuestKeepsDevices FailuresStay
