-------------------------------- MODULE Tpm --------------------------------
(***************************************************************************)
(* The TCG part of SeaBIOS. What is executed before the guest is measured: *)
(* its digest is extended into a PCR of the TPM and recorded in the log of *)
(* the ACPI tables. A TPM that fails is shut off and nothing is measured   *)
(* from then on. The guest has the functions of int 1Ah AH=BBh, the user   *)
(* a menu, and after S3 the TPM is started again.                          *)
(*                                                                         *)
(* The first part is a TPM behind its TIS or CRB interface, and            *)
(* tpmhw_transmit, which sends it a command and reads the answer. The      *)
(* device works on its own: a command that was given up after a timeout    *)
(* may still be executed, and its answer may arrive when the next command  *)
(* has been sent.                                                          *)
(***************************************************************************)
EXTENDS Integers, Sequences

CONSTANTS
    MaxFaults   \* bound of the model on timeouts and on errors of the device

VARIABLES
    ver,        \* TPM_version: "none", "1.2" or "2.0"
    drv,        \* TPMHW_driver_to_use: "none", "tis" or "crb"
    tx,         \* the transmission under way: its stage, command and result
    dev,        \* the interface: its state, the command it holds, its answer,
                \* and whether that command is the one of tx
    tpm,        \* what the TPM keeps
    faults      \* how many faults have happened

devVars == <<ver, drv, tx, dev, tpm, faults>>

NoCmd == [ord |-> "none"]
Cmd(ord) == [ord |-> ord]

\* TPM_ORD_PhysicalPresence and its relatives: the commands that a TPM 1.2
\* accepts while physical presence is asserted.
PresenceCmds == {"PhysicalEnable", "PhysicalDisable", "PhysicalActivate", "PhysicalDeactivate",
                 "ForceClear", "OwnerInstallOn", "OwnerInstallOff", "SetTempDeactivated"}
\* The commands of a TPM 2.0 that the code authorises with the empty password
\* of the platform hierarchy.
PlatformCmds == {"PCR_Allocate", "DisableEndorsement", "DisableOwner", "HierarchyChangeAuth",
                 "ClearControl", "Clear"}

IdleDev == [st |-> "idle", cmd |-> NoCmd, ans |-> "none", own |-> FALSE]
IdleTx == [st |-> "idle", cmd |-> NoCmd, res |-> "none", own |-> TRUE]

\* What a TPM holds after its platform is reset: the flags that last are kept.
Fresh(t) == [t EXCEPT !.on = FALSE, !.pcrs = <<>>, !.pp = FALSE, !.lock = FALSE,
                      !.temp = FALSE, !.auth = "empty", !.hier = {"E", "O"}]

\* What the registers of the interfaces say of a machine.
\*   tis, crb    the status register becomes valid
\*   did         the vendor is neither 0 nor all ones
\*   id          the interface that is active ("old": the register is absent)
\*   selTis, selCrb  the interface can be selected
\*   cap3        the capability register says interface 1.3
\*   high        the buffers of CRB are above 4 GB
\* tis_probe: an interface register of CRB, or one without TIS, rules TIS out.
TisProbe(i) ==
    /\ i.tis
    /\ i.did
    /\ i.id # "old" => i.id # "crb" /\ i.selTis

\* crb_probe: CRB is active or can be selected, and its buffers are in reach.
CrbProbe(i) ==
    /\ i.crb
    /\ i.id # "old" => i.id = "crb" \/ i.selCrb
    /\ ~i.high

\* tis_get_tpm_version: the FIFO of TIS 1.3, or the one of the PTP, is a 2.0.
TisVersion(i) ==
    IF (i.id = "old" /\ i.cap3) \/ i.id = "tis" THEN "2.0" ELSE "1.2"

\* tpmhw_probe: the first driver that finds its interface is the one to use.
HwProbe(i) ==
    IF TisProbe(i) THEN drv' = "tis" /\ ver' = TisVersion(i)
    ELSE IF CrbProbe(i) THEN drv' = "crb" /\ ver' = "2.0"
    ELSE drv' = "none" /\ ver' = "none"

-----------------------------------------------------------------------------
\* The device executes a command: it refuses one that needs what it lacks.
Refused(c) ==
    \/ ~tpm.on /\ c.ord # "Startup"
    \/ c.ord \in PresenceCmds /\ ~tpm.pp
    \/ c.ord \in PlatformCmds /\ tpm.auth # "empty"
    \/ c.ord \in {"PresenceOn", "PresenceEnable"} /\ tpm.lock
    \/ c.ord = "PresenceOn" /\ ~tpm.cmdEnable

Executed(c) ==
    CASE c.ord = "Startup"             -> [tpm EXCEPT !.on = TRUE]
      [] c.ord = "PresenceEnable"      -> [tpm EXCEPT !.cmdEnable = TRUE]
      [] c.ord = "PresenceOn"          -> [tpm EXCEPT !.pp = TRUE]
      [] c.ord = "PresenceLock"        -> [tpm EXCEPT !.pp = FALSE, !.lock = TRUE]
      [] c.ord = "SetTempDeactivated"  -> [tpm EXCEPT !.temp = TRUE]
      [] c.ord = "Extend"              -> [tpm EXCEPT !.pcrs = Append(@, c.event)]
      [] c.ord = "PhysicalEnable"      -> [tpm EXCEPT !.disabled = FALSE]
      [] c.ord = "PhysicalDisable"     -> [tpm EXCEPT !.disabled = TRUE]
      [] c.ord = "PhysicalActivate"    -> [tpm EXCEPT !.inactive = FALSE]
      [] c.ord = "PhysicalDeactivate"  -> [tpm EXCEPT !.inactive = TRUE]
      [] c.ord = "ForceClear"          -> [tpm EXCEPT !.owner = FALSE, !.disabled = TRUE, !.inactive = TRUE]
      [] c.ord = "Clear"               -> [tpm EXCEPT !.owner = FALSE]
      [] c.ord = "OwnerInstallOn"      -> [tpm EXCEPT !.install = TRUE]
      [] c.ord = "OwnerInstallOff"     -> [tpm EXCEPT !.install = FALSE]
      [] c.ord = "PCR_Allocate"        -> [tpm EXCEPT !.banks = c.banks]
      [] c.ord = "DisableEndorsement"  -> [tpm EXCEPT !.hier = @ \ {"E"}]
      [] c.ord = "DisableOwner"        -> [tpm EXCEPT !.hier = @ \ {"O"}]
      [] c.ord = "HierarchyChangeAuth" -> [tpm EXCEPT !.auth = "random"]
      [] OTHER                         -> tpm

DevExecute ==
    /\ dev.st = "exec"
    /\ \E code \in {"ok", "error", "badlocality"} :
        /\ code = "badlocality" => dev.cmd.ord = "ResetEstablishmentBit"
        /\ IF Refused(dev.cmd) THEN code = "error" /\ UNCHANGED <<tpm, faults>>
           ELSE IF code = "error" THEN faults < MaxFaults /\ faults' = faults + 1 /\ UNCHANGED tpm
           ELSE tpm' = Executed(dev.cmd) /\ UNCHANGED faults
        /\ dev' = [dev EXCEPT !.st = "done", !.ans = code]
    /\ UNCHANGED <<ver, drv, tx>>

-----------------------------------------------------------------------------
\* tpmhw_transmit: a command that begins, or fails as there is no driver. What
\* the device is still doing belongs to an earlier one.
Transmit(c) ==
    /\ tx' = IF drv = "none" THEN [IdleTx EXCEPT !.st = "end", !.cmd = c, !.res = "fail"]
             ELSE [IdleTx EXCEPT !.st = "activate", !.cmd = c]
    /\ dev' = [dev EXCEPT !.own = FALSE]

\* wait_reg8, of every wait of the drivers: it ends with a timeout if the device
\* takes longer than it may. The command is given up where it stands, and
\* td->ready() is not called. crb_activate and crb_senddata do not wait.
GiveUp ==
    /\ tx.st \in (IF drv = "tis" THEN {"activate", "send", "wait"} ELSE {"wait"})
    /\ faults < MaxFaults
    /\ faults' = faults + 1
    /\ tx' = [tx EXCEPT !.st = "end", !.res = "fail"]
    /\ dev' \in IF tx.st = "activate" THEN {dev, IdleDev} ELSE {dev}
    /\ UNCHANGED <<ver, drv, tpm>>

\* Broken variant: tis_activate asks for the locality and nothing else.
TisActivatedOnly == dev

\* tis_activate: the locality is requested and, when it is granted, COMMAND_READY
\* written, which aborts what the TPM is doing and empties its FIFO.
TisActivated == IdleDev

\* crb_activate only asks for the locality.
CrbActivated == dev

Activate ==
    /\ tx.st = "activate"
    /\ tx' = [tx EXCEPT !.st = "send"]
    /\ dev' = IF drv = "tis" THEN TisActivated ELSE CrbActivated
    /\ UNCHANGED <<ver, drv, tpm, faults>>

\* tis_activate returns 0 as well when the locality is not granted, and has not
\* written COMMAND_READY. The command goes on: what it writes is lost, and it
\* ends with a timeout or with the ones read in place of an answer. Each of its
\* steps asks again (tis_find_active_locality), and COMMAND_READY is written if
\* the locality is granted late.
NoLocality ==
    /\ drv = "tis"
    /\ tx.st = "activate"
    /\ faults < MaxFaults
    /\ faults' = faults + 1
    /\ tx' = [tx EXCEPT !.st = "end", !.res = "fail"]
    /\ dev' \in {dev, IdleDev}
    /\ UNCHANGED <<ver, drv, tpm>>

\* tis_senddata fills the FIFO, tis_waitdatavalid waits for STS_VALID and
\* tis_waitrespready writes TPM_GO.
TisSent == IF dev.st = "idle" THEN [dev EXCEPT !.st = "exec", !.cmd = tx.cmd, !.own = TRUE] ELSE dev

\* crb_senddata fills the buffer and writes CTRL_START, which does nothing while
\* a command is being executed.
CrbSent == IF dev.st # "exec" THEN [dev EXCEPT !.st = "exec", !.cmd = tx.cmd, !.own = TRUE] ELSE dev

SendData ==
    /\ tx.st = "send"
    /\ tx' = [tx EXCEPT !.st = "wait"]
    /\ dev' = IF drv = "tis" THEN TisSent ELSE CrbSent
    /\ UNCHANGED <<ver, drv, tpm, faults>>

\* tis_waitrespready and crb_waitrespready see an answer, tis_readresp and
\* crb_readresp read it, and td->ready() makes the device idle again.
ReadResp ==
    /\ tx.st = "wait"
    /\ dev.st = "done"
    /\ tx' = [tx EXCEPT !.st = "end", !.res = dev.ans, !.own = dev.own]
    /\ dev' = IdleDev
    /\ UNCHANGED <<ver, drv, tpm, faults>>

TransmitStep == GiveUp \/ Activate \/ NoLocality \/ SendData \/ ReadResp

-----------------------------------------------------------------------------
(* The TCG functions *)

CONSTANTS
    Machines,   \* the machines: registers of the TPM, log area, Xen, hashes
    LargeEvents,\* the events that take two units of the log, others take one
    Roms,       \* how many option ROMs there are
    MaxCalls,   \* bounds of the model on calls of the guest,
    MaxBoots,   \*   on boot attempts and suspensions
    MaxResets   \*   and on resets

ASSUME TpmAssumption ==
    /\ MaxCalls \in Nat /\ MaxBoots \in Nat /\ MaxResets \in Nat /\ Roms \in Nat /\ MaxFaults \in Nat
    /\ \A m \in Machines : m.area \in Nat

VARIABLES
    mach,       \* the machine
    phase,      \* how far the start is: "setup", "roms", "boot" or "guest"
    pc,         \* the function under way, "idle" if none of this part is
    meas,       \* the measurements that function has left to make
    working,    \* TPM_working
    presence,   \* TPM_has_physical_presence
    sel,        \* tpm20_pcr_selection: the hashes of the banks, {} if it is not known
    log,        \* the entries of tpm_state's log area
    next,       \* log_area_next_entry, from the start of the area
    shut,       \* TPM_interface_shutdown
    menu,       \* the state the menu showed, and what it has left to do
    code,       \* the code that is run when its measurements are made
    ran,        \* the code that was run
    used        \* the bounded events that happened

tcgVars == <<mach, phase, pc, meas, working, presence, sel, log, next, shut, menu, code, ran, used>>
tpmVars == <<devVars, tcgVars>>

Event(pcr, what) == [pcr |-> pcr, what |-> what]
NoMenu == [st |-> [disabled |-> FALSE, inactive |-> FALSE, owner |-> FALSE, install |-> FALSE], todo |-> <<>>]

\* What the code knows after a reset.
Restarted ==
    /\ phase' = "setup" /\ pc' = "setup" /\ meas' = <<>> /\ working' = FALSE /\ presence' = FALSE
    /\ sel' = {} /\ log' = <<>> /\ next' = 0 /\ shut' = FALSE /\ menu' = NoMenu
    /\ code' = "none" /\ ran' = {}
    /\ ver' = "none" /\ drv' = "none" /\ tx' = IdleTx /\ dev' = IdleDev

Init ==
    /\ mach \in Machines
    /\ phase = "setup" /\ pc = "setup" /\ meas = <<>> /\ working = FALSE /\ presence = FALSE
    /\ sel = {} /\ log = <<>> /\ next = 0 /\ shut = FALSE /\ menu = NoMenu
    /\ code = "none" /\ ran = {}
    /\ ver = "none" /\ drv = "none" /\ tx = IdleTx /\ dev = IdleDev
    /\ tpm = [on |-> FALSE, pcrs |-> <<>>, pp |-> FALSE, lock |-> FALSE, cmdEnable |-> mach.cmdEnable,
              temp |-> FALSE, disabled |-> mach.disabled, inactive |-> FALSE, owner |-> TRUE, install |-> TRUE,
              banks |-> {"SHA1"}, auth |-> "empty", hier |-> {"E", "O"}]
    /\ faults = 0
    /\ used = [calls |-> 0, boots |-> 0, resets |-> 0, roms |-> 0]

Idle == pc = "idle"
Ended(p) == pc = p /\ tx.st = "end"
Ok == tx.res = "ok"

\* hash_parameters: the hashes the code knows.
HashParameters == {"SHA1", "SHA256", "SHA384", "SHA512", "SM3_256"}
NoSelection == {}

\* tpm12_extend and tpm20_extend.
ExtendCmd(e) == [ord |-> "Extend", event |-> e]
\* tpm20_stirrandom and tpm20_getrandom.
StirRandom == Cmd("StirRandom")
GetRandom == Cmd("GetRandom")
\* tpm20_hierarchycontrol, which disables one of the hierarchies, and
\* tpm20_hierarchychangeauth, which gives the platform's a password.
HierarchyControl(h) == Cmd(IF h = "E" THEN "DisableEndorsement" ELSE "DisableOwner")
HierarchyChangeAuth == Cmd("HierarchyChangeAuth")
\* tpm20_set_pcrbanks: every bank that is known is allocated or left empty.
SetPcrBanks(banks) == [ord |-> "PCR_Allocate", banks |-> banks]

\* tpm_simple_cmd sends a command and returns what the TPM answers.
Send(c, p) == pc' = p /\ Transmit(c)
Return(p) == pc' = p /\ tx' = IdleTx /\ UNCHANGED dev

hwSame == <<ver, drv, tpm, faults>>

-----------------------------------------------------------------------------
\* tpm_log_event: an entry that does not fit is refused. at is kept for the
\* properties: how many events the TPM had been given.
Size(e) == IF e.what \in LargeEvents THEN 2 ELSE 1
Fits(e) == next + Size(e) <= mach.area

LogEvent(e, extended) ==
    IF Fits(e)
    THEN log' = Append(log, [event |-> e, extended |-> extended, at |-> Len(tpm.pcrs)]) /\ next' = next + Size(e)
    ELSE UNCHANGED <<log, next>>

\* tpm_build_digest: a 2.0 needs to know the hashes of its banks.
HasDigest == ver = "1.2" \/ (ver = "2.0" /\ sel # NoSelection /\ sel \subseteq HashParameters)

\* tpm_set_failure shuts the TPM off, whatever the commands for that answer.
Fail == Send(IF ver = "1.2" THEN Cmd("SetTempDeactivated") ELSE HierarchyControl("E"), "failure")

SetFailure ==
    /\ Ended("failure")
    /\ IF tx.cmd.ord = "DisableEndorsement"
       THEN Send(HierarchyControl("O"), "failure") /\ UNCHANGED working
       ELSE working' = FALSE /\ Return("measure")
    /\ UNCHANGED <<hwSame, mach, phase, meas, presence, sel, log, next, shut, menu, code, ran, used>>

\* tpm_add_measurement_to_log, of each measurement a function makes: none is
\* made if the TPM does not work or there is no digest.
Measure ==
    /\ pc = "measure"
    /\ meas # <<>>
    /\ IF working /\ HasDigest
       THEN Send(ExtendCmd(Head(meas)), "extend") /\ UNCHANGED meas
       ELSE meas' = Tail(meas) /\ UNCHANGED <<pc, tx, dev>>
    /\ UNCHANGED <<hwSame, mach, phase, working, presence, sel, log, next, shut, menu, code, ran, used>>

\* Broken variant: the event is logged whatever the TPM answered.
ExtendedAny ==
    /\ Ended("extend")
    /\ meas' = Tail(meas)
    /\ LogEvent(Head(meas), TRUE)
    /\ IF Ok THEN Return("measure") ELSE Fail
    /\ UNCHANGED <<hwSame, mach, phase, working, presence, sel, shut, menu, code, ran, used>>

\* The end of tpm_add_measurement_to_log, after tpm12_extend or tpm20_extend: what
\* was extended is logged, and a log that is full is not noticed.
Extended ==
    /\ Ended("extend")
    /\ meas' = Tail(meas)
    /\ IF Ok THEN LogEvent(Head(meas), TRUE) /\ Return("measure")
             ELSE Fail /\ UNCHANGED <<log, next>>
    /\ UNCHANGED <<hwSame, mach, phase, working, presence, sel, shut, menu, code, ran, used>>

\* The function returns; the code that it measured is run by its caller.
Measured ==
    /\ pc = "measure"
    /\ meas = <<>>
    /\ Return("idle")
    /\ ran' = IF code = "none" THEN ran ELSE ran \cup {code}
    /\ code' = "none"
    /\ phase' = IF phase = "setup" THEN "roms" ELSE IF code \in {"mbr", "cdrom"} THEN "guest" ELSE phase
    /\ UNCHANGED <<hwSame, mach, meas, working, presence, sel, log, next, shut, menu, used>>

-----------------------------------------------------------------------------
\* tpm_setup: without a log area of the ACPI tables, or a TPM, nothing is done.
\* On Xen the TPM has been started before.
TpmSetup ==
    /\ pc = "setup"
    /\ IF mach.area = 0 THEN working' = FALSE /\ UNCHANGED <<ver, drv>>
       ELSE HwProbe(mach.iface) /\ working' = (ver' # "none")
    /\ pc' = IF working' /\ ~mach.xen THEN "start" ELSE "measure"
    /\ tpm' = IF mach.xen THEN [tpm EXCEPT !.on = TRUE] ELSE tpm
    /\ UNCHANGED <<tx, dev, faults, mach, phase, meas, presence, sel, log, next, shut, menu, code, ran, used>>

TpmStartup ==
    /\ pc = "start"
    /\ Send(Cmd("Startup"), "startup")
    /\ UNCHANGED <<hwSame, mach, phase, meas, working, presence, sel, log, next, shut, menu, code, ran, used>>

\* The measurements that end tpm_setup.
SetupMeasurements == <<Event(1, "smbios"), Event(2, "romscan")>>

\* tpm12_startup: the commands in order, with a detour for the presence.
Following12 ==
    [Startup |-> "PresenceOn", TisTimeout |-> "Duration", Duration |-> "SelfTest",
     SelfTest |-> "ResetEstablishmentBit"]

Tpm12Startup ==
    /\ Ended("startup")
    /\ ver = "1.2"
    /\ \/ Ok /\ tx.cmd.ord = "Startup" /\ Send(Cmd("PresenceOn"), "presence") /\ UNCHANGED meas
       \/ Ok /\ tx.cmd.ord \in DOMAIN Following12 \ {"Startup"}
             /\ Send(Cmd(Following12[tx.cmd.ord]), "startup") /\ UNCHANGED meas
       \/ tx.cmd.ord = "ResetEstablishmentBit" /\ tx.res \in {"ok", "badlocality"}
             /\ Return("measure") /\ meas' = SetupMeasurements
       \/ tx.res \in {"error", "fail"} /\ Fail /\ UNCHANGED meas
    /\ UNCHANGED <<hwSame, mach, phase, working, presence, sel, log, next, shut, menu, code, ran, used>>

\* tpm12_assert_physical_presence: if presence is refused, the command is enabled
\* where the flags allow it, and tried once more. Its failure is no failure.
AssertPresence ==
    /\ Ended("presence") \/ Ended("again")
    /\ \/ pc = "presence" /\ tx.cmd.ord = "PresenceOn" /\ Ok /\ presence' = TRUE /\ Send(Cmd("TisTimeout"), "startup")
       \/ pc = "presence" /\ tx.cmd.ord = "PresenceOn" /\ ~Ok /\ UNCHANGED presence
             /\ Send(Cmd("PermanentFlags"), "presence")
       \/ tx.cmd.ord = "PermanentFlags"
             /\ presence' = (Ok /\ mach.hwPresence)
             /\ IF Ok /\ ~mach.hwPresence /\ ~mach.lifetimeLock /\ ~tpm.cmdEnable
                THEN Send(Cmd("PresenceEnable"), "presence") ELSE Send(Cmd("TisTimeout"), "startup")
       \/ tx.cmd.ord = "PresenceEnable" /\ Send(Cmd("PresenceOn"), "again") /\ UNCHANGED presence
       \/ pc = "again" /\ presence' = Ok /\ Send(Cmd("TisTimeout"), "startup")
    /\ UNCHANGED <<hwSame, mach, phase, meas, working, sel, log, next, shut, menu, code, ran, used>>

\* tpm20_get_pcrbanks keeps the banks the TPM reports, if there is memory.
GetPcrBanks == \E mem \in BOOLEAN : sel' = IF mem THEN mach.hashes ELSE NoSelection

\* tpm20_write_EfiSpecIdEventStruct begins the log with the hashes in use, which
\* it has to know all.
SpecIdEvent == Event(0, "specid")
CanWriteSpecId == sel' # NoSelection /\ sel' \subseteq HashParameters /\ Fits(SpecIdEvent)

Tpm20Startup ==
    /\ Ended("startup")
    /\ ver = "2.0"
    /\ IF ~Ok THEN Fail /\ UNCHANGED <<meas, sel, log, next>>
       ELSE \/ tx.cmd.ord = "Startup" /\ Send(Cmd("SelfTest"), "startup") /\ UNCHANGED <<meas, sel, log, next>>
            \/ tx.cmd.ord = "SelfTest" /\ Send(Cmd("GetPcrBanks"), "startup") /\ UNCHANGED <<meas, sel, log, next>>
            \/ /\ tx.cmd.ord = "GetPcrBanks"
               /\ GetPcrBanks
               /\ IF CanWriteSpecId
                  THEN LogEvent(SpecIdEvent, FALSE) /\ Return("measure") /\ meas' = SetupMeasurements
                  ELSE Fail /\ UNCHANGED <<meas, log, next>>
    /\ UNCHANGED <<hwSame, mach, phase, working, presence, shut, menu, code, ran, used>>

-----------------------------------------------------------------------------
Begin(p, events, c) ==
    /\ pc' = p /\ meas' = events /\ code' = c
    /\ UNCHANGED <<hwSame, tx, dev, mach, working, presence, sel, log, next, shut, menu, ran>>

\* tpm_option_rom, before the initialisation of a ROM is called.
OptionRom ==
    /\ Idle /\ phase = "roms" /\ used.roms < Roms
    /\ used' = [used EXCEPT !.roms = @ + 1]
    /\ Begin("measure", <<Event(2, "rom")>>, "rom")
    /\ UNCHANGED phase

BootEvents == <<Event(4, "int19")>> \o [p \in 1 .. 8 |-> Event(p - 1, "separator")]

\* tpm_prepboot gives the physical presence up, or a 2.0 a password nobody
\* knows (tpm20_prepboot), even if the TPM failed before.
PrepBoot ==
    /\ Idle /\ phase = "roms"
    /\ phase' = "boot"
    /\ meas' = BootEvents
    /\ IF ver = "1.2" /\ presence THEN Send(Cmd("PresenceLock"), "prepboot")
       ELSE IF ver = "2.0" THEN Send(StirRandom, "prepboot")
       ELSE Return("measure")
    /\ UNCHANGED <<hwSame, mach, working, presence, sel, log, next, shut, menu, code, ran, used>>

\* Broken variant: the answers of the commands of a 2.0 are not looked at.
Tpm20PrepbootAny ==
    CASE tx.cmd.ord = "StirRandom" -> Send(GetRandom, "prepboot")
      [] tx.cmd.ord = "GetRandom" -> Send(HierarchyChangeAuth, "prepboot")
      [] OTHER -> Return("measure")

Tpm20Prepboot ==
    IF ~Ok THEN Fail
    ELSE CASE tx.cmd.ord = "StirRandom" -> Send(GetRandom, "prepboot")
           [] tx.cmd.ord = "GetRandom" -> Send(HierarchyChangeAuth, "prepboot")
           [] OTHER -> Return("measure")

PrepBootAnswer ==
    /\ Ended("prepboot")
    /\ IF ver = "2.0" THEN Tpm20Prepboot ELSE Return("measure")
    /\ UNCHANGED <<hwSame, mach, phase, meas, working, presence, sel, log, next, shut, menu, code, ran, used>>

\* tpm_add_bcv, tpm_add_cdrom_catalog and tpm_add_cdrom, before the boot sector or
\* the image of a CD is run.
AddBcv == <<Event(4, "bcv"), Event(4, "mbr"), Event(5, "partitions")>>
AddCdrom == <<Event(4, "cd"), Event(5, "catalog"), Event(4, "cd"), Event(4, "cdrom")>>

Boot ==
    /\ Idle /\ phase \in {"boot", "guest"} /\ used.boots < MaxBoots
    /\ used' = [used EXCEPT !.boots = @ + 1]
    /\ phase' = "boot"
    /\ Begin("measure", AddBcv, "mbr") \/ Begin("measure", AddCdrom, "cdrom")

\* S3: the TPM loses its power and keeps its PCRs. tpm_s3_resume starts it again,
\* unless it does not work.
Suspend ==
    /\ Idle /\ phase = "guest" /\ used.boots < MaxBoots
    /\ used' = [used EXCEPT !.boots = @ + 1]
    /\ tpm' = [tpm EXCEPT !.on = FALSE]
    /\ dev' = IdleDev
    /\ pc' = IF working THEN "wake" ELSE "idle"
    /\ UNCHANGED <<ver, drv, faults, tx, mach, phase, meas, working, presence, sel, log, next, shut, menu, code, ran>>

Resume ==
    /\ pc = "wake" \/ Ended("resume")
    /\ IF pc = "wake" THEN Send(Cmd("Startup"), "resume")
       ELSE IF ~Ok THEN Fail
       ELSE IF ver = "2.0" /\ tx.cmd.ord = "Startup" THEN Send(Cmd("SelfTest"), "resume")
       ELSE Return("idle")
    /\ UNCHANGED <<hwSame, mach, phase, meas, working, presence, sel, log, next, shut, menu, code, ran, used>>

-----------------------------------------------------------------------------
\* int 1Ah AH=BBh, tpm_interrupt_handler32. After the interface was shut down
\* every function but TCG_StatusCheck is refused.
Call == Idle /\ phase = "guest" /\ used.calls < MaxCalls /\ ~shut
Called == used' = [used EXCEPT !.calls = @ + 1]

\* hash_log_extend, called by TCG_HashLogExtendEvent and TCG_CompactHashLogExtendEvent.
\* It asks neither for the PCRs above 23 nor for what cannot be digested.
\* The digest and the PCR are the caller's (struct pcpes).
GuestEvents == {Event(8, "guest"), Event(24, "guest")}

HashLogExtend ==
    /\ Call /\ Called
    /\ \E e \in GuestEvents :
        IF e.pcr >= 24 \/ ~HasDigest THEN UNCHANGED <<pc, tx, dev, meas>>
        ELSE meas' = <<e>> /\ Send(ExtendCmd(e), "guest")
    /\ UNCHANGED <<hwSame, mach, phase, working, presence, sel, log, next, shut, menu, code, ran>>

\* An error of the TPM is reported (TCG_TCG_COMMAND_ERROR), and so is a log that is
\* full (TCG_PC_LOGOVERFLOW), when the PCR has been extended already.
HashLogExtended ==
    /\ Ended("guest")
    /\ IF Ok THEN LogEvent(Head(meas), TRUE) ELSE UNCHANGED <<log, next>>
    /\ meas' = <<>>
    /\ Return("idle")
    /\ UNCHANGED <<hwSame, mach, phase, working, presence, sel, shut, menu, code, ran, used>>

\* hash_log_event_int: TCG_HashLogEvent adds to the log and extends nothing.
HashLogEvent ==
    /\ Call /\ Called /\ HasDigest
    /\ LogEvent(Event(8, "logged"), FALSE)
    /\ UNCHANGED <<hwSame, tx, dev, mach, phase, pc, meas, working, presence, sel, shut, menu, code, ran>>

\* pass_through_to_tpm_int: a command of the guest's own, if its tag is one of the
\* version's.
PassThrough ==
    /\ Call /\ Called
    /\ Send(ExtendCmd(Event(8, "raw")), "pass")
    /\ UNCHANGED <<hwSame, mach, phase, meas, working, presence, sel, log, next, shut, menu, code, ran>>

PassedThrough ==
    /\ Ended("pass")
    /\ Return("idle")
    /\ UNCHANGED <<hwSame, mach, phase, meas, working, presence, sel, log, next, shut, menu, code, ran, used>>

\* shutdown_preboot_interface.
ShutdownInterface ==
    /\ Call /\ Called
    /\ shut' = TRUE
    /\ UNCHANGED <<hwSame, tx, dev, mach, phase, pc, meas, working, presence, sel, log, next, menu, code, ran>>

-----------------------------------------------------------------------------
\* tpm_can_show_menu, and tpm_menu when the user asks for it in the boot menu.
CanShowMenu == working /\ (ver = "1.2" => presence)

Menu ==
    /\ Idle /\ phase = "roms" /\ CanShowMenu /\ used.resets < MaxResets
    /\ pc' = IF ver = "1.2" THEN "menu" ELSE "key"
    /\ used' = [used EXCEPT !.resets = @ + 1]
    /\ UNCHANGED <<hwSame, tx, dev, mach, phase, meas, working, presence, sel, log, next, shut, menu, code, ran>>

\* tpm12_get_tpm_state: tpm12_menu returns if it cannot be read.
MenuState ==
    /\ pc = "menu" \/ Ended("state")
    /\ \/ pc = "menu" /\ Send(Cmd("PermanentFlags"), "state") /\ UNCHANGED menu
       \/ pc = "state" /\ Ok /\ tx.cmd.ord = "PermanentFlags"
             /\ Send(Cmd("Owner"), "state") /\ UNCHANGED menu
       \/ pc = "state" /\ Ok /\ tx.cmd.ord = "Owner" /\ Return("key")
             /\ menu' = [st |-> [f \in DOMAIN menu.st |-> tpm[f]], todo |-> <<>>]
       \/ pc = "state" /\ ~Ok /\ Return("idle") /\ UNCHANGED menu
    /\ UNCHANGED <<hwSame, mach, phase, meas, working, presence, sel, log, next, shut, code, ran, used>>

\* tpm12_show_tpm_menu: the options for the state that was read.
Options12(m) ==
    (IF m.disabled THEN {"enable"}
     ELSE {"disable"} \cup (IF m.inactive THEN {"activate"}
                            ELSE {"deactivate", IF ~m.owner /\ m.install THEN "prevent" ELSE "allow"}))
    \cup (IF m.owner THEN {"clear"} ELSE {})

\* tpm12_process_cfg: what an option does, in commands.
Process12 ==
    [enable     |-> <<"PermanentFlags", "PhysicalEnable">>,
     disable    |-> <<"PermanentFlags", "PhysicalDisable">>,
     activate   |-> <<"PermanentFlags", "PhysicalActivate", "reset">>,
     deactivate |-> <<"PermanentFlags", "PhysicalDeactivate">>,
     clear      |-> <<"Owner", "PermanentFlags", "PhysicalEnable", "PermanentFlags", "PhysicalActivate",
                      "ForceClear">>,
     allow      |-> <<"Owner", "PermanentFlags", "OwnerInstallOn">>,
     prevent    |-> <<"Owner", "PermanentFlags", "OwnerInstallOff">>]

\* tpm20_get_suppt_pcrbanks: the banks the user can toggle, some of which must stay
\* active (tpm20_menu_change_active_pcrbanks).
BankChoices == SUBSET (sel \cap HashParameters) \ {{}}

\* tpm20_process_cfg, and tpm20_activate_pcrbanks for the banks that are chosen.
Process20 ==
    {<<"ClearControl", "Clear">>}
    \cup (IF BankChoices = {} THEN {} ELSE {<<"PCR_Allocate", "Shutdown", "reset">>})

\* tpm12_menu and tpm20_menu: a key that is an option, or ESC for a reset.
MenuKey ==
    /\ pc = "key"
    /\ \E todo \in IF ver = "1.2" THEN {Process12[o] : o \in Options12(menu.st)} \cup {<<"reset">>}
                   ELSE Process20 \cup {<<"reset">>} : menu' = [menu EXCEPT !.todo = todo]
    /\ pc' = "cfg"
    /\ UNCHANGED <<hwSame, tx, dev, mach, phase, meas, working, presence, sel, log, next, shut, code, ran, used>>

\* What tpm12_enable_tpm, tpm12_activate_tpm, tpm12_force_clear and
\* tpm12_set_owner_install leave undone, by the flags they have read.
Needless(todo) ==
    LET c == Head(todo) IN
    CASE Len(todo) = 5            -> ~tpm.owner
      [] c = "PhysicalDisable"    -> tpm.disabled
      [] c = "PhysicalDeactivate" -> tpm.inactive \/ tpm.disabled
      [] c = "PhysicalActivate"   -> tpm.disabled
      [] c \in {"OwnerInstallOn", "OwnerInstallOff"} -> tpm.owner \/ tpm.disabled
      [] OTHER                    -> FALSE

\* The commands of an option one after the other; an error ends them.
MenuStep ==
    /\ pc = "cfg" \/ Ended("cmd")
    /\ LET c == Head(menu.todo)
           back == IF ver = "1.2" THEN "menu" ELSE "key" IN
       IF menu.todo = <<>> \/ (pc = "cmd" /\ ~Ok) THEN Return(back) /\ UNCHANGED menu
       ELSE IF Needless(menu.todo) THEN
            IF Len(menu.todo) > 1 /\ menu.todo[2] = "ForceClear"
            THEN menu' = [menu EXCEPT !.todo = Tail(@)] /\ Return("cfg")
            ELSE Return(back) /\ UNCHANGED menu
       ELSE /\ c # "reset"
            /\ menu' = [menu EXCEPT !.todo = Tail(@)]
            /\ IF c = "PCR_Allocate" THEN \E banks \in BankChoices : Send(SetPcrBanks(banks), "cmd")
                                     ELSE Send(Cmd(c), "cmd")
    /\ UNCHANGED <<hwSame, mach, phase, meas, working, presence, sel, log, next, shut, code, ran, used>>

\* reset(): the machine begins anew, and the TPM with it.
Reset ==
    /\ pc = "cfg" \/ (Ended("cmd") /\ Ok)
    /\ menu.todo # <<>> /\ Head(menu.todo) = "reset"
    /\ Restarted
    /\ tpm' = Fresh(tpm)
    /\ used' = [used EXCEPT !.roms = 0]
    /\ UNCHANGED <<mach, faults>>

-----------------------------------------------------------------------------
Next ==
    \/ DevExecute /\ UNCHANGED tcgVars
    \/ TransmitStep /\ UNCHANGED tcgVars
    \/ SetFailure \/ Measure \/ Extended \/ Measured
    \/ TpmSetup \/ TpmStartup \/ Tpm12Startup \/ AssertPresence \/ Tpm20Startup
    \/ OptionRom \/ PrepBoot \/ PrepBootAnswer \/ Boot \/ Suspend \/ Resume
    \/ HashLogExtend \/ HashLogExtended \/ HashLogEvent \/ PassThrough \/ PassedThrough \/ ShutdownInterface
    \/ Menu \/ MenuState \/ MenuKey \/ MenuStep \/ Reset

TpmSpec == Init /\ [][Next]_tpmVars /\ WF_tpmVars(Next)

-----------------------------------------------------------------------------
\* The answer a function acts on is the answer to the command it sent. A TIS is
\* told to drop what it is doing before every command; with CRB this holds as
\* long as nothing has timed out.
AnswersMatch == tx.st = "end" => tx.own \/ (drv = "crb" /\ faults > 0)

\* What the log says was extended, and a command of the guest's own.
Logged == {i \in DOMAIN log : log[i].extended}
Raw == Event(8, "raw")
InPcrs(e) == \E i \in 1 .. Len(tpm.pcrs) : tpm.pcrs[i] = e

\* Replaying the log gives the PCRs, event by event, without a fault, a
\* pass-through or a full log. In any case what it says was extended, in that
\* order, unless a CRB answered late; and the log stays in its area.
LogReplays ==
    /\ next <= mach.area
    /\ (pc \in {"idle", "measure"} /\ faults = 0 /\ working /\ next < mach.area - 1 /\ ~InPcrs(Raw))
         => \A k \in 1 .. Len(tpm.pcrs) : \E i \in Logged : log[i].at = k
    /\ (drv = "tis" \/ faults = 0)
         => \A i \in Logged : /\ log[i].at \in 1 .. Len(tpm.pcrs) /\ tpm.pcrs[log[i].at] = log[i].event
                              /\ \A j \in Logged : i < j => log[i].at < log[j].at

\* No code runs unmeasured while the TPM works, and none of the guest's runs
\* before the separators and, on a 2.0, before the platform hierarchy is closed.
MeasuredBeforeRun ==
    working /\ HasDigest =>
        /\ \A c \in ran : InPcrs(Event(IF c = "rom" THEN 2 ELSE 4, c))
        /\ phase = "guest" =>
            /\ \A p \in 0 .. 7 : InPcrs(Event(p, "separator"))
            /\ ver = "2.0" => tpm.auth # "empty"
=============================================================================
