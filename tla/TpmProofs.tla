------------------------------ MODULE TpmProofs ------------------------------
(***************************************************************************)
(* Proofs about Tpm, for all machines, log areas and events: an answer is  *)
(* the answer to its command, the log replays, and what is run has been    *)
(* measured.                                                               *)
(***************************************************************************)
EXTENDS Tpm, TLAPS

Whats == {"smbios", "romscan", "rom", "int19", "separator", "bcv", "mbr", "partitions", "cd", "catalog",
          "cdrom", "guest", "raw", "logged", "specid"}
Events == [pcr : 0 .. 24, what : Whats]
Entries == [event : Events, extended : BOOLEAN, at : Nat]

\* The commands that are known by their ordinal alone, those of the menu first.
MenuOrds == {"PermanentFlags", "Owner", "PhysicalEnable", "PhysicalDisable", "PhysicalActivate",
             "PhysicalDeactivate", "ForceClear", "OwnerInstallOn", "OwnerInstallOff", "ClearControl",
             "Clear", "Shutdown"}
MenuSteps == MenuOrds \cup {"PCR_Allocate", "reset"}
Ords == MenuOrds \cup
        {"none", "Startup", "SelfTest", "GetPcrBanks", "PresenceOn", "PresenceEnable", "PresenceLock",
         "TisTimeout", "Duration", "ResetEstablishmentBit", "SetTempDeactivated", "DisableEndorsement",
         "DisableOwner", "HierarchyChangeAuth", "StirRandom", "GetRandom"}
Cmds == [ord : Ords] \cup [ord : {"Extend"}, event : Events]
                     \cup [ord : {"PCR_Allocate"}, banks : SUBSET HashParameters]
Codes == {"none", "rom", "mbr", "cdrom"}

TxType == [st : {"idle", "activate", "send", "wait", "end"}, cmd : Cmds,
           res : {"none", "fail", "ok", "error", "badlocality"}, own : BOOLEAN]
DevType == [st : {"idle", "exec", "done"}, cmd : Cmds, ans : {"none", "ok", "error", "badlocality"},
            own : BOOLEAN]

\* What the TPM keeps that the properties are about
TpmKept(t) == "pcrs" \in DOMAIN t /\ "auth" \in DOMAIN t /\ t.pcrs \in Seq(Events)

\* The functions that wait for an answer, and those that send none.
Sending == {"startup", "presence", "again", "extend", "failure", "prepboot", "resume",
            "guest", "pass", "state", "cmd"}
Quiet == {"setup", "start", "measure", "idle", "wake", "menu", "key", "cfg"}

TpmTypeOK ==
    /\ ver \in {"none", "1.2", "2.0"} /\ drv \in {"none", "tis", "crb"} /\ faults \in Nat
    /\ tx \in TxType /\ dev \in DevType /\ TpmKept(tpm)
    /\ mach \in Machines /\ phase \in {"setup", "roms", "boot", "guest"} /\ pc \in Sending \cup Quiet
    /\ meas \in Seq(Events) /\ working \in BOOLEAN /\ sel \in {NoSelection, mach.hashes}
    /\ log \in Seq(Entries) /\ next \in Nat
    /\ "todo" \in DOMAIN menu /\ menu.todo \in Seq(MenuSteps)
    /\ code \in Codes /\ ran \subseteq Codes \ {"none"}

\* Which function has sent the command, and what that says of the start.
Shape ==
    /\ pc \in Quiet <=> tx.st = "idle"
    /\ tx.st = "idle" => tx = IdleTx
    /\ tx.st \in {"activate", "send", "wait"} => drv # "none" /\ tx.own
    /\ pc = "setup" => /\ phase = "setup" /\ dev.st = "idle" /\ log = <<>> /\ tpm.pcrs = <<>>
    /\ pc \in {"setup", "start", "startup", "presence", "again"} => phase = "setup"
    /\ pc \in {"wake", "resume", "guest", "pass"} => phase = "guest"
    /\ phase = "setup" => ran = {} /\ code = "none"
    /\ pc \notin {"measure", "extend", "failure"} => code = "none"
    /\ code \in {"mbr", "cdrom"} => phase = "boot"
    /\ pc \in {"idle", "wake", "resume", "pass", "menu", "state", "key", "cfg", "cmd"} => meas = <<>>
    /\ phase = "guest" => meas = <<>> \/ pc = "guest"
    /\ pc \in {"menu", "state", "presence", "again"} => ver = "1.2"
    /\ drv = "crb" => ver = "2.0"

\* The command is the one of the function.
CmdOf ==
    /\ tx.cmd.ord = "Extend" <=> pc \in {"extend", "guest", "pass"}
    /\ pc \in {"extend", "guest"} => meas # <<>> /\ tx.cmd = ExtendCmd(Head(meas))
    /\ pc = "pass" => tx.cmd = ExtendCmd(Raw)
    /\ pc = "prepboot" /\ ver = "2.0" => tx.cmd.ord \in {"StirRandom", "GetRandom", "HierarchyChangeAuth"}

\* Whose command the device holds
Holds ==
    /\ tx.st = "wait" /\ dev.own => dev.st # "idle" /\ dev.cmd = tx.cmd
    /\ tx.st \in {"activate", "send"} => ~dev.own
    /\ drv = "tis" => /\ tx.st = "send" => dev.st = "idle"
                      /\ tx.st = "wait" => dev.own
    /\ faults = 0 => /\ tx.st # "wait" => dev.st = "idle"
                     /\ tx.st = "wait" => dev.own
    /\ tx.st = "end" /\ tx.res # "fail" => dev.st = "idle" 
    /\ tx.st = "end" /\ tx.res = "fail" => tx.own

\* The command of the transmission has been executed.
Done == (tx.st = "wait" /\ dev.st = "done" /\ dev.own /\ dev.ans = "ok") \/ (tx.st = "end" /\ tx.own /\ tx.res = "ok")

Effect ==
    Done => /\ tx.cmd.ord = "Extend" => InPcrs(tx.cmd.event)
            /\ tx.cmd.ord = "HierarchyChangeAuth" => tpm.auth # "empty"

\* TPM_working, and what tpm_build_digest needs
Measuring == working /\ HasDigest

\* The device of a CRB still has a command that was given up, or its answer was read.
Strayed ==
    /\ drv = "crb"
    /\ \/ dev.st # "idle" /\ ~(tx.st = "wait" /\ dev.own)
       \/ tx.st = "end" /\ ~tx.own

\* Only calls of the guest and the menu leave such a command behind: wherever else one
\* is given up the TPM is shut off. The first event of a boot attempt may be lost to it.
Firsts == {Event(4, "bcv"), Event(4, "cd")}
Excused ==
    \/ phase = "guest"
    \/ pc \in {"key", "cfg", "cmd", "failure"}
    \/ tx.st = "end" /\ tx.res = "fail" /\ pc \in {"startup", "extend", "prepboot"}
    \/ pc \in {"measure", "extend"} /\ meas # <<>> /\ Head(meas) \in Firsts
Straying == Strayed /\ Measuring => Excused

\* What is needed before something runs is in the PCRs, or left to be measured.
Crit(c) == Event(IF c = "rom" THEN 2 ELSE 4, c)
Separator(p) == Event(p, "separator")
InMeas(e) == \E i \in 1 .. Len(meas) : meas[i] = e
Sure(e) == InPcrs(e) \/ InMeas(e)

RanMeasured == \A c \in ran : InPcrs(Crit(c))
CodeMeasured == code # "none" /\ pc # "failure" => Sure(Crit(code))
BootMeasured == phase = "boot" /\ pc # "failure" => \A p \in 0 .. 7 : Sure(Separator(p))
BootClosed == phase = "boot" /\ ver = "2.0" /\ pc \notin {"prepboot", "failure"} => tpm.auth # "empty"
GuestMeasured == phase = "guest" => /\ \A p \in 0 .. 7 : InPcrs(Separator(p))
                                    /\ ver = "2.0" => tpm.auth # "empty"

BeforeRun == Measuring => RanMeasured /\ CodeMeasured /\ BootMeasured /\ BootClosed /\ GuestMeasured

InLog(k) == \E i \in Logged : log[i].at = k

\* As long as nothing was late, and with a TIS in any case, the log has what the TPM
\* was given, in that order, and what it was given last is new.
Trusted == drv = "tis" \/ faults = 0
InOrder ==
    \A i \in Logged : /\ log[i].at \in 1 .. Len(tpm.pcrs) /\ tpm.pcrs[log[i].at] = log[i].event
                      /\ \A j \in Logged : i < j => log[i].at < log[j].at
DoneExtend == Done /\ tx.cmd.ord = "Extend"
LastIsNew ==
    DoneExtend => /\ Len(tpm.pcrs) > 0
                  /\ tpm.pcrs[Len(tpm.pcrs)] = tx.cmd.event
                  /\ \A i \in Logged : log[i].at # Len(tpm.pcrs)
LogOrder == Trusted => InOrder /\ LastIsNew

\* What the TPM was given is in the log, or about to be put there.
Undisturbed == faults = 0 /\ working /\ next < mach.area - 1 /\ ~InPcrs(Raw)
LogWhole == Undisturbed => \A k \in 1 .. Len(tpm.pcrs) : InLog(k) \/ (k = Len(tpm.pcrs) /\ DoneExtend)

LogInArea == next <= mach.area

TpmInv == TpmTypeOK /\ Shape /\ CmdOf /\ Holds /\ AnswersMatch

-----------------------------------------------------------------------------
LEMMA CmdTypes ==
    /\ NoCmd \in Cmds
    /\ \A o \in Ords : Cmd(o) \in Cmds
    /\ \A e \in Events : ExtendCmd(e) \in Cmds
    /\ \A banks \in SUBSET HashParameters : SetPcrBanks(banks) \in Cmds
    /\ StirRandom \in Cmds /\ GetRandom \in Cmds /\ HierarchyChangeAuth \in Cmds
    /\ \A h : HierarchyControl(h) \in Cmds
<1>1. \A o \in Ords : Cmd(o) \in Cmds
  BY DEF Cmd, Cmds
<1>2. \A e \in Events : ExtendCmd(e) \in Cmds
  BY DEF ExtendCmd, Cmds
<1>3. \A banks \in SUBSET HashParameters : SetPcrBanks(banks) \in Cmds
  BY DEF SetPcrBanks, Cmds
<1>4. NoCmd \in Cmds
  BY DEF NoCmd, Cmds, Ords
<1>5. {"StirRandom", "GetRandom", "HierarchyChangeAuth", "DisableEndorsement", "DisableOwner"} \subseteq Ords
  BY DEF Ords
<1> QED
  BY <1>1, <1>2, <1>3, <1>4, <1>5 DEF StirRandom, GetRandom, HierarchyChangeAuth, HierarchyControl

LEMMA IdleTypes == IdleTx \in TxType /\ IdleDev \in DevType
BY CmdTypes DEF IdleTx, IdleDev, TxType, DevType

\* tpmhw_transmit keeps the types.
LEMMA TransmitType ==
    ASSUME TpmTypeOK, NEW c \in Cmds, Transmit(c)
    PROVE  tx' \in TxType /\ dev' \in DevType
<1>1. tx' \in TxType
  BY CmdTypes DEF Transmit, IdleTx, TxType
<1>2. dev' \in DevType
  BY DEF Transmit, TpmTypeOK, DevType
<1> QED
  BY <1>1, <1>2

\* The steps of the functions
TcgStep ==
    \/ SetFailure \/ Measure \/ Extended \/ Measured
    \/ TpmSetup \/ TpmStartup \/ Tpm12Startup \/ AssertPresence \/ Tpm20Startup
    \/ OptionRom \/ PrepBoot \/ PrepBootAnswer \/ Boot \/ Suspend \/ Resume
    \/ HashLogExtend \/ HashLogExtended \/ HashLogEvent \/ PassThrough \/ PassedThrough \/ ShutdownInterface
    \/ Menu \/ MenuState \/ MenuKey \/ MenuStep \/ Reset

LEMMA Steps == Next => ((DevExecute \/ TransmitStep) /\ UNCHANGED tcgVars) \/ TcgStep
BY DEF Next, TcgStep

\* What an execution does to the PCRs and to the password of the platform.
LEMMA ExecutedEffect ==
    ASSUME TpmKept(tpm), NEW c \in Cmds
    PROVE  /\ TpmKept(Executed(c))
           /\ Executed(c).pcrs = IF c.ord = "Extend" THEN Append(tpm.pcrs, c.event) ELSE tpm.pcrs
           /\ Executed(c).auth = IF c.ord = "HierarchyChangeAuth" THEN "random" ELSE tpm.auth
<1>1. CASE c.ord = "Extend"
  <2>1. c.event \in Events
    BY <1>1 DEF Cmds, Ords, MenuOrds
  <2>2. Executed(c) = [tpm EXCEPT !.pcrs = Append(@, c.event)]
    BY <1>1 DEF Executed
  <2> QED
    BY <1>1, <2>1, <2>2 DEF TpmKept
<1>2. CASE c.ord = "HierarchyChangeAuth"
  <2>1. Executed(c) = [tpm EXCEPT !.auth = "random"]
    BY <1>2 DEF Executed
  <2> QED
    BY <1>2, <2>1 DEF TpmKept
<1>3. CASE c.ord \notin {"Extend", "HierarchyChangeAuth"}
  BY <1>3 DEF TpmKept, Executed
<1> QED
  BY <1>1, <1>2, <1>3

\* A reset of the platform empties the PCRs.
LEMMA FreshTpm ==
    ASSUME TpmKept(tpm)
    PROVE  TpmKept(Fresh(tpm)) /\ Fresh(tpm).pcrs = <<>>
BY DEF TpmKept, Fresh

\* The events that the code measures.
LEMMA EventTypes ==
    /\ SetupMeasurements \in Seq(Events) /\ AddBcv \in Seq(Events) /\ AddCdrom \in Seq(Events)
    /\ BootEvents \in Seq(Events)
    /\ <<Event(2, "rom")>> \in Seq(Events)
    /\ GuestEvents \subseteq Events /\ Raw \in Events /\ SpecIdEvent \in Events /\ Event(8, "logged") \in Events
<1>1. \A n \in 0 .. 24, w \in Whats : Event(n, w) \in Events
  BY DEF Event, Events
<1>2. \A w \in {"smbios", "romscan", "rom", "int19", "separator", "bcv", "mbr", "partitions", "cd", "catalog",
                "cdrom", "guest", "raw", "logged", "specid"} : w \in Whats
  BY DEF Whats
<1>3. BootEvents \in Seq(Events)
  <2>1. <<Event(4, "int19")>> \in Seq(Events)
    BY <1>1, <1>2
  <2>2. \A p \in 1 .. 8 : Event(p - 1, "separator") \in Events
    BY <1>1, <1>2
  <2>3. [p \in 1 .. 8 |-> Event(p - 1, "separator")] \in Seq(Events)
    BY <2>2
  <2> QED
    BY <2>1, <2>3 DEF BootEvents
<1>4. SetupMeasurements \in Seq(Events) /\ AddBcv \in Seq(Events)
  BY <1>1, <1>2 DEF SetupMeasurements, AddBcv
<1>5. AddCdrom \in Seq(Events)
  BY <1>1, <1>2 DEF AddCdrom
<1>6. <<Event(2, "rom")>> \in Seq(Events) /\ Raw \in Events /\ SpecIdEvent \in Events
  BY <1>1, <1>2 DEF Raw, SpecIdEvent
<1>7. GuestEvents \subseteq Events /\ Event(8, "logged") \in Events
  BY <1>1, <1>2 DEF GuestEvents
<1> QED
  BY <1>3, <1>4, <1>5, <1>6, <1>7

\* tpm_log_event keeps the log.
LEMMA LogType ==
    ASSUME TpmTypeOK, NEW e \in Events, NEW x \in BOOLEAN, LogEvent(e, x)
    PROVE  /\ log' \in Seq(Entries)
           /\ next' \in Nat
<1>1. Len(tpm.pcrs) \in Nat
  BY DEF TpmTypeOK, TpmKept
<1>2. Size(e) \in Nat
  BY DEF Size
<1>3. [event |-> e, extended |-> x, at |-> Len(tpm.pcrs)] \in Entries
  BY <1>1 DEF Entries
<1>4. log \in Seq(Entries) /\ next \in Nat
  BY DEF TpmTypeOK
<1>5. CASE Fits(e)
  <2>1. log' = Append(log, [event |-> e, extended |-> x, at |-> Len(tpm.pcrs)]) /\ next' = next + Size(e)
    BY <1>5 DEF LogEvent
  <2>2. log' \in Seq(Entries)
    BY <1>3, <1>4, <2>1
  <2> QED
    BY <1>2, <1>4, <2>1, <2>2
<1>6. CASE ~Fits(e)
  BY <1>4, <1>6 DEF LogEvent
<1> QED
  BY <1>5, <1>6

\* The options of the menu are commands of the menu.
LEMMA OptionTypes ==
    /\ \A m : \A o \in Options12(m) : Process12[o] \in Seq(MenuSteps)
    /\ \A todo \in Process20 : todo \in Seq(MenuSteps)
    /\ <<"reset">> \in Seq(MenuSteps) /\ <<>> \in Seq(MenuSteps)
<1>1. \A m : Options12(m) \subseteq {"enable", "disable", "activate", "deactivate", "clear", "allow", "prevent"}
  BY DEF Options12
<1>2. \A o \in {"enable", "disable", "activate", "deactivate", "clear", "allow", "prevent"} : Process12[o] \in Seq(MenuSteps)
  <2>1. Process12["enable"] \in Seq(MenuSteps) /\ Process12["disable"] \in Seq(MenuSteps)
    BY DEF Process12, MenuOrds, MenuSteps
  <2>2. Process12["activate"] \in Seq(MenuSteps) /\ Process12["deactivate"] \in Seq(MenuSteps)
    BY DEF Process12, MenuOrds, MenuSteps
  <2>3. Process12["clear"] \in Seq(MenuSteps)
    <3>1. Process12["clear"] = <<"Owner", "PermanentFlags", "PhysicalEnable", "PermanentFlags",
                                 "PhysicalActivate", "ForceClear">>
      BY DEF Process12
    <3>2. {"Owner", "PermanentFlags", "PhysicalEnable", "PhysicalActivate", "ForceClear"} \subseteq MenuSteps
      BY DEF MenuOrds, MenuSteps
    <3> QED
      BY <3>1, <3>2
  <2>4. Process12["allow"] \in Seq(MenuSteps) /\ Process12["prevent"] \in Seq(MenuSteps)
    BY DEF Process12, MenuOrds, MenuSteps
  <2> QED
    BY <2>1, <2>2, <2>3, <2>4
<1>3. <<"ClearControl", "Clear">> \in Seq(MenuSteps)
  BY DEF MenuOrds, MenuSteps
<1>4. <<"PCR_Allocate", "Shutdown", "reset">> \in Seq(MenuSteps)
  BY DEF MenuOrds, MenuSteps
<1>5. \A todo \in Process20 : todo \in Seq(MenuSteps)
  <2> SUFFICES ASSUME NEW todo \in Process20 PROVE todo \in Seq(MenuSteps)
    OBVIOUS
  <2>1. todo = <<"ClearControl", "Clear">> \/ todo = <<"PCR_Allocate", "Shutdown", "reset">>
    BY Zenon DEF Process20
  <2> QED
    BY <1>3, <1>4, <2>1
<1>6. <<"reset">> \in Seq(MenuSteps) /\ <<>> \in Seq(MenuSteps)
  BY DEF MenuSteps
<1> QED
  BY <1>1, <1>2, <1>5, <1>6

\* A function that sends a command, and one that returns.
LEMMA SendType ==
    ASSUME TpmTypeOK, NEW c \in Cmds, NEW p, Send(c, p)
    PROVE  tx' \in TxType /\ dev' \in DevType /\ pc' = p
BY TransmitType DEF Send

LEMMA ReturnType ==
    ASSUME TpmTypeOK, NEW p, Return(p)
    PROVE  tx' \in TxType /\ dev' \in DevType /\ pc' = p
BY IdleTypes DEF Return, TpmTypeOK

\* The commands of tpm_set_failure
LEMMA FailSends ==
    ASSUME Fail
    PROVE  \E c \in Cmds : /\ Send(c, "failure")
                           /\ c.ord \in {"SetTempDeactivated", "DisableEndorsement"}
<1>1. Cmd("SetTempDeactivated") \in Cmds /\ HierarchyControl("E") \in Cmds
  BY CmdTypes DEF Ords
<1>2. Cmd("SetTempDeactivated").ord = "SetTempDeactivated" /\ HierarchyControl("E").ord = "DisableEndorsement"
  BY DEF Cmd, HierarchyControl
<1> QED
  BY <1>1, <1>2 DEF Fail

-----------------------------------------------------------------------------
\* The steps of the transmission and of the device keep the types.
LEMMA DeviceTypes ==
    ASSUME TpmTypeOK, DevExecute \/ TransmitStep, UNCHANGED tcgVars
    PROVE  TpmTypeOK'
<1>1. /\ mach' = mach /\ phase' = phase /\ pc' = pc /\ meas' = meas /\ working' = working /\ sel' = sel
      /\ log' = log /\ next' = next /\ menu' = menu /\ code' = code /\ ran' = ran
  BY DEF tcgVars
<1>2. SUFFICES /\ ver' \in {"none", "1.2", "2.0"} /\ drv' \in {"none", "tis", "crb"} /\ faults' \in Nat
               /\ tx' \in TxType /\ dev' \in DevType /\ TpmKept(tpm)'
  BY <1>1 DEF TpmTypeOK
<1>3. CASE DevExecute
  <2>1. dev' \in DevType
    BY <1>3 DEF DevExecute, TpmTypeOK, DevType
  <2>2. TpmKept(tpm)' /\ faults' \in Nat
    <3>1. dev.cmd \in Cmds
      BY DEF TpmTypeOK, DevType
    <3>2. TpmKept(Executed(dev.cmd))
      BY <3>1, ExecutedEffect DEF TpmTypeOK
    <3>3. (tpm' = tpm \/ tpm' = Executed(dev.cmd)) /\ (faults' = faults \/ faults' = faults + 1)
      BY <1>3 DEF DevExecute
    <3> QED
      BY <3>2, <3>3 DEF TpmTypeOK, TpmKept
  <2> QED
    BY <1>3, <2>1, <2>2 DEF DevExecute, TpmTypeOK
<1>4. CASE GiveUp
  <2>1. tx' \in TxType /\ dev' \in DevType
    BY <1>4, IdleTypes DEF GiveUp, TpmTypeOK, TxType
  <2> QED
    BY <1>4, <2>1 DEF GiveUp, TpmTypeOK, TpmKept
<1>5. CASE Activate
  <2>1. tx' \in TxType /\ dev' \in DevType
    BY <1>5, IdleTypes DEF Activate, TisActivated, CrbActivated, TpmTypeOK, TxType
  <2> QED
    BY <1>5, <2>1 DEF Activate, TpmTypeOK, TpmKept
<1>8. CASE NoLocality
  <2>1. tx' \in TxType /\ dev' \in DevType
    BY <1>8, IdleTypes DEF NoLocality, TpmTypeOK, TxType
  <2> QED
    BY <1>8, <2>1 DEF NoLocality, TpmTypeOK, TpmKept
<1>6. CASE SendData
  <2>1. tx' \in TxType /\ tx.cmd \in Cmds
    BY <1>6 DEF SendData, TpmTypeOK, TxType
  <2>2. [dev EXCEPT !.st = "exec", !.cmd = tx.cmd, !.own = TRUE] \in DevType
    BY <2>1 DEF TpmTypeOK, DevType
  <2>3. dev' \in DevType
    BY <1>6, <2>2 DEF SendData, TisSent, CrbSent, TpmTypeOK
  <2> QED
    BY <1>6, <2>1, <2>3 DEF SendData, TpmTypeOK, TpmKept
<1>7. CASE ReadResp
  <2>1. tx' \in TxType /\ dev' \in DevType
    BY <1>7, IdleTypes DEF ReadResp, TpmTypeOK, TxType, DevType
  <2> QED
    BY <1>7, <2>1 DEF ReadResp, TpmTypeOK, TpmKept
<1> QED
  BY <1>3, <1>4, <1>5, <1>6, <1>7, <1>8 DEF TransmitStep

\* So do the steps of the functions.
LEMMA TcgTypes ==
    ASSUME TpmTypeOK, CmdOf, TcgStep
    PROVE  TpmTypeOK'
<1> USE DEF hwSame, Ended, Idle
<1>0. /\ \A o \in Ords : Cmd(o) \in Cmds
      /\ \A p : \A c \in Cmds : Send(c, p) => tx' \in TxType /\ dev' \in DevType /\ pc' = p
      /\ \A p : Return(p) => tx' \in TxType /\ dev' \in DevType /\ pc' = p
      /\ Fail => tx' \in TxType /\ dev' \in DevType /\ pc' = "failure"
      /\ meas # <<>> => Head(meas) \in Events /\ Tail(meas) \in Seq(Events)
  BY CmdTypes, SendType, ReturnType, FailSends DEF TpmTypeOK
<1>1. CASE SetFailure
  BY <1>0, <1>1, CmdTypes DEF SetFailure, TpmTypeOK, TpmKept, Sending, Quiet
<1>2. CASE Measure
  BY <1>0, <1>2, CmdTypes DEF Measure, TpmTypeOK, TpmKept, Sending, Quiet
<1>3. CASE Extended
  <2>1. meas # <<>>
    BY <1>3 DEF Extended, CmdOf
  <2>2. log' \in Seq(Entries) /\ next' \in Nat
    BY <1>0, <1>3, <2>1, LogType DEF Extended, TpmTypeOK
  <2> QED
    BY <1>0, <1>3, <2>1, <2>2 DEF Extended, TpmTypeOK, TpmKept, Sending, Quiet
<1>4. CASE Measured
  BY <1>0, <1>4 DEF Measured, TpmTypeOK, TpmKept, Sending, Quiet, Codes
<1>5. CASE TpmSetup
  <2>1. ver' \in {"none", "1.2", "2.0"} /\ drv' \in {"none", "tis", "crb"} /\ working' \in BOOLEAN
    BY <1>5 DEF TpmSetup, HwProbe, TisVersion, TpmTypeOK
  <2>2. TpmKept(tpm)'
    BY <1>5 DEF TpmSetup, TpmTypeOK, TpmKept
  <2> QED
    BY <1>5, <2>1, <2>2 DEF TpmSetup, TpmTypeOK, Sending, Quiet
<1>6. CASE TpmStartup
  BY <1>0, <1>6 DEF TpmStartup, TpmTypeOK, TpmKept, Sending, Quiet, Ords
<1>7. CASE Tpm12Startup
  BY <1>0, <1>7, EventTypes DEF Tpm12Startup, Following12, TpmTypeOK, TpmKept, Sending, Quiet, Ords
<1>8. CASE AssertPresence
  BY <1>0, <1>8 DEF AssertPresence, TpmTypeOK, TpmKept, Sending, Quiet, Ords, MenuOrds
<1>9. CASE Tpm20Startup
  <2>1. log' \in Seq(Entries) /\ next' \in Nat
    BY <1>9, LogType, EventTypes DEF Tpm20Startup, TpmTypeOK
  <2>2. sel' \in {NoSelection, mach.hashes}
    BY <1>9 DEF Tpm20Startup, GetPcrBanks, TpmTypeOK
  <2>3. meas' \in Seq(Events)
    BY <1>9, EventTypes DEF Tpm20Startup, TpmTypeOK
  <2>4. tx' \in TxType /\ dev' \in DevType /\ pc' \in Sending \cup Quiet
    BY <1>0, <1>9 DEF Tpm20Startup, Sending, Quiet, Ords
  <2> QED
    BY <1>9, <2>1, <2>2, <2>3, <2>4 DEF Tpm20Startup, TpmTypeOK, TpmKept
<1>10. CASE OptionRom
  BY <1>10, EventTypes DEF OptionRom, Begin, TpmTypeOK, TpmKept, Quiet, Codes
<1>11. CASE PrepBoot
  BY <1>0, <1>11, EventTypes, CmdTypes DEF PrepBoot, TpmTypeOK, TpmKept, Sending, Quiet, Ords
<1>12. CASE PrepBootAnswer
  BY <1>0, <1>12, CmdTypes DEF PrepBootAnswer, Tpm20Prepboot, TpmTypeOK, TpmKept, Sending, Quiet
<1>13. CASE Boot
  BY <1>13, EventTypes DEF Boot, Begin, TpmTypeOK, TpmKept, Quiet, Codes
<1>14. CASE Suspend
  BY <1>14, IdleTypes DEF Suspend, TpmTypeOK, TpmKept, Quiet
<1>15. CASE Resume
  BY <1>0, <1>15 DEF Resume, TpmTypeOK, TpmKept, Sending, Quiet, Ords
<1>16. CASE HashLogExtend
  <2>1. PICK e \in GuestEvents :
          \/ UNCHANGED <<pc, tx, dev, meas>>
          \/ meas' = <<e>> /\ Send(ExtendCmd(e), "guest")
    BY <1>16 DEF HashLogExtend
  <2>2. e \in Events /\ ExtendCmd(e) \in Cmds /\ <<e>> \in Seq(Events)
    BY EventTypes, CmdTypes
  <2>3. tx' \in TxType /\ dev' \in DevType /\ pc' \in Sending \cup Quiet /\ meas' \in Seq(Events)
    BY <1>0, <2>1, <2>2 DEF TpmTypeOK, Sending
  <2> QED
    BY <1>16, <2>3 DEF HashLogExtend, TpmTypeOK, TpmKept
<1>17. CASE HashLogExtended
  <2>1. meas # <<>>
    BY <1>17 DEF HashLogExtended, CmdOf
  <2>2. log' \in Seq(Entries) /\ next' \in Nat
    BY <1>0, <1>17, <2>1, LogType DEF HashLogExtended, TpmTypeOK
  <2> QED
    BY <1>0, <1>17, <2>2 DEF HashLogExtended, TpmTypeOK, TpmKept, Quiet
<1>18. CASE HashLogEvent
  <2>1. log' \in Seq(Entries) /\ next' \in Nat
    BY <1>18, LogType, EventTypes DEF HashLogEvent, TpmTypeOK
  <2> QED
    BY <1>18, <2>1 DEF HashLogEvent, TpmTypeOK, TpmKept
<1>19. CASE PassThrough
  BY <1>0, <1>19, EventTypes, CmdTypes DEF PassThrough, Raw, TpmTypeOK, TpmKept, Sending
<1>20. CASE PassedThrough
  BY <1>0, <1>20 DEF PassedThrough, TpmTypeOK, TpmKept, Quiet
<1>21. CASE ShutdownInterface
  BY <1>21 DEF ShutdownInterface, TpmTypeOK, TpmKept
<1>22. CASE Menu
  BY <1>22 DEF Menu, TpmTypeOK, TpmKept, Quiet
<1>23. CASE MenuState
  <2>1. "todo" \in DOMAIN menu' /\ menu'.todo \in Seq(MenuSteps)
    <3>1. menu' = menu \/ \E st : menu' = [st |-> st, todo |-> <<>>]
      BY <1>23 DEF MenuState
    <3>2. \A st : [st |-> st, todo |-> <<>>].todo = <<>> /\ "todo" \in DOMAIN [st |-> st, todo |-> <<>>]
      OBVIOUS
    <3>3. CASE menu' = menu
      BY <3>3 DEF TpmTypeOK
    <3>4. CASE \E st : menu' = [st |-> st, todo |-> <<>>]
      BY <3>2, <3>4, OptionTypes, Zenon
    <3> QED
      BY <3>1, <3>3, <3>4
  <2> QED
    BY <1>0, <1>23, <2>1 DEF MenuState, TpmTypeOK, TpmKept, Sending, Quiet, Ords, MenuOrds
<1>24. CASE MenuKey
  <2>1. "todo" \in DOMAIN menu' /\ menu'.todo \in Seq(MenuSteps)
    BY <1>24, OptionTypes DEF MenuKey, TpmTypeOK
  <2> QED
    BY <1>24, <2>1 DEF MenuKey, TpmTypeOK, TpmKept, Quiet
<1>25. CASE MenuStep
  <2>1. "todo" \in DOMAIN menu' /\ menu'.todo \in Seq(MenuSteps)
    <3>1. menu' = menu \/ (menu.todo # <<>> /\ menu' = [menu EXCEPT !.todo = Tail(@)])
      BY <1>25 DEF MenuStep
    <3>2. menu.todo \in Seq(MenuSteps) /\ "todo" \in DOMAIN menu
      BY DEF TpmTypeOK
    <3>3. menu.todo # <<>> => Tail(menu.todo) \in Seq(MenuSteps)
      BY <3>2
    <3>4. CASE menu' = menu
      BY <3>2, <3>4
    <3>5. CASE menu.todo # <<>> /\ menu' = [menu EXCEPT !.todo = Tail(@)]
      BY <3>2, <3>3, <3>5
    <3> QED
      BY <3>1, <3>4, <3>5
  <2>2. \A banks \in BankChoices : SetPcrBanks(banks) \in Cmds
    BY CmdTypes DEF BankChoices
  <2>3. menu.todo # <<>> => Head(menu.todo) \in MenuSteps
    BY DEF TpmTypeOK
  <2>4. tx' \in TxType /\ dev' \in DevType /\ pc' \in Sending \cup Quiet
    BY <1>0, <1>25, <2>2, <2>3 DEF MenuStep, Sending, Quiet, MenuSteps, Ords
  <2> QED
    BY <1>25, <2>1, <2>4 DEF MenuStep, TpmTypeOK, TpmKept
<1>26. CASE Reset
  <2>1. TpmKept(tpm)'
    BY <1>26, FreshTpm DEF Reset, TpmTypeOK, TpmKept
  <2>2. "todo" \in DOMAIN NoMenu /\ NoMenu.todo \in Seq(MenuSteps)
    BY DEF NoMenu
  <2> QED
    <3>1. /\ ver' = "none" /\ drv' = "none" /\ faults' = faults /\ tx' = IdleTx /\ dev' = IdleDev
          /\ mach' = mach /\ phase' = "setup" /\ pc' = "setup" /\ meas' = <<>> /\ working' = FALSE
          /\ sel' = NoSelection /\ log' = <<>> /\ next' = 0 /\ menu' = NoMenu /\ code' = "none" /\ ran' = {}
      BY <1>26 DEF Reset, Restarted, NoSelection
    <3>2. "todo" \in DOMAIN menu' /\ menu'.todo \in Seq(MenuSteps)
      BY <2>2, <3>1
    <3>3. meas' \in Seq(Events) /\ log' \in Seq(Entries) /\ ran' \subseteq Codes \ {"none"}
      BY <3>1
    <3> QED
      BY <2>1, <3>1, <3>2, <3>3, IdleTypes DEF TpmTypeOK, Quiet, Codes
<1> QED
  BY <1>1, <1>2, <1>3, <1>4, <1>5, <1>6, <1>7, <1>8, <1>9, <1>10, <1>11, <1>12, <1>13, <1>14, <1>15, <1>16,
     <1>17, <1>18, <1>19, <1>20, <1>21, <1>22, <1>23, <1>24, <1>25, <1>26 DEF TcgStep

-----------------------------------------------------------------------------
\* What a command that is sent, and a return, make of the transmission
LEMMA SendShape ==
    ASSUME TpmTypeOK, NEW c, NEW p, Send(c, p)
    PROVE  /\ pc' = p /\ tx'.cmd = c /\ tx'.own /\ dev'.st = dev.st /\ ~dev'.own
           /\ \/ tx'.st = "activate" /\ drv # "none"
              \/ tx'.st = "end" /\ tx'.res = "fail" /\ drv = "none"
BY DEF Send, Transmit, IdleTx, TpmTypeOK, DevType

LEMMA ReturnShape ==
    ASSUME NEW p, Return(p)
    PROVE  pc' = p /\ tx' = IdleTx /\ dev' = dev
BY DEF Return

LEMMA IdleShape ==
    /\ IdleTx.st = "idle" /\ IdleTx.cmd = NoCmd /\ IdleTx.own /\ NoCmd.ord = "none"
    /\ IdleDev.st = "idle" /\ ~IdleDev.own
BY DEF IdleTx, IdleDev, NoCmd

\* The ordinals of the commands
LEMMA CmdOrds ==
    /\ \A o : Cmd(o).ord = o
    /\ \A e : ExtendCmd(e).ord = "Extend" /\ ExtendCmd(e).event = e
    /\ \A banks : SetPcrBanks(banks).ord = "PCR_Allocate"
    /\ HierarchyControl("E").ord = "DisableEndorsement" /\ HierarchyControl("O").ord = "DisableOwner"
    /\ StirRandom.ord = "StirRandom" /\ GetRandom.ord = "GetRandom"
    /\ HierarchyChangeAuth.ord = "HierarchyChangeAuth"
BY DEF Cmd, ExtendCmd, SetPcrBanks, HierarchyControl, StirRandom, GetRandom, HierarchyChangeAuth

\* The steps of the transmission and of the device, with one line for each of their effects.
LEMMA DeviceSteps ==
    ASSUME TpmTypeOK, DevExecute \/ TransmitStep
    PROVE  /\ ver' = ver /\ drv' = drv /\ tx'.cmd = tx.cmd
           /\ \/ /\ dev.st = "exec" /\ dev'.st = "done" /\ dev'.cmd = dev.cmd /\ dev'.own = dev.own /\ tx' = tx
                 /\ \/ dev'.ans # "ok" /\ tpm' = tpm
                    \/ tpm' = Executed(dev.cmd) /\ ~Refused(dev.cmd) /\ faults' = faults
                 /\ faults' = faults /\ dev'.ans # "ok" /\ dev.cmd.ord # "ResetEstablishmentBit" => Refused(dev.cmd)
                 /\ faults' \in {faults, faults + 1}
              \/ /\ tx.st \in {"activate", "send", "wait"} /\ tx'.st = "end" /\ tx'.res = "fail" /\ tx'.own = tx.own
                 /\ dev' = dev \/ dev' = IdleDev
                 /\ faults' = faults + 1 /\ tpm' = tpm
              \/ /\ tx.st = "activate" /\ tx'.st = "send" /\ tx'.own = tx.own
                 /\ dev' = IF drv = "tis" THEN IdleDev ELSE dev
                 /\ faults' = faults /\ tpm' = tpm
              \/ /\ tx.st = "send" /\ tx'.st = "wait" /\ tx'.own = tx.own
                 /\ \/ dev.st # "exec" /\ dev'.st = "exec" /\ dev'.cmd = tx.cmd /\ dev'.own
                    \/ dev.st # "idle" /\ dev' = dev
                 /\ faults' = faults /\ tpm' = tpm
              \/ /\ tx.st = "wait" /\ dev.st = "done" /\ tx'.st = "end" /\ tx'.res = dev.ans /\ tx'.own = dev.own
                 /\ dev' = IdleDev
                 /\ faults' = faults /\ tpm' = tpm
<1>1. CASE DevExecute
  BY <1>1 DEF DevExecute, TpmTypeOK, DevType
<1>2. CASE GiveUp
  BY <1>2 DEF GiveUp, TpmTypeOK, TxType
<1>3. CASE Activate
  BY <1>3 DEF Activate, TisActivated, CrbActivated, TpmTypeOK, TxType
<1>6. CASE NoLocality
  BY <1>6 DEF NoLocality, TpmTypeOK, TxType
<1>4. CASE SendData
  BY <1>4 DEF SendData, TisSent, CrbSent, TpmTypeOK, TxType, DevType
<1>5. CASE ReadResp
  BY <1>5 DEF ReadResp, TpmTypeOK, TxType
<1> QED
  BY <1>1, <1>2, <1>3, <1>4, <1>5, <1>6 DEF TransmitStep

\* The steps of the functions, each of which leaves the transmission alone, sends a
\* command or returns, keep its shape.
LEMMA TcgShape ==
    ASSUME TpmTypeOK, Shape, CmdOf, TcgStep
    PROVE  Shape'
<1> USE DEF hwSame, Ended, Idle
<1>0. /\ \A c, p : Send(c, p) =>
           /\ pc' = p /\ tx'.st \in {"activate", "end"} /\ tx'.own
           /\ tx'.st = "activate" => drv # "none"
      /\ \A p : Return(p) => pc' = p /\ tx' = IdleTx /\ dev' = dev /\ tx'.st = "idle"
      /\ Fail => /\ pc' = "failure" /\ tx'.st \in {"activate", "end"} /\ tx'.own
                 /\ tx'.st = "activate" => drv # "none"
  BY SendShape, ReturnShape, IdleShape, FailSends
<1>1. CASE SetFailure
  BY <1>0, <1>1 DEF SetFailure, Shape, Sending, Quiet
<1>2. CASE Measure
  BY <1>0, <1>2 DEF Measure, Shape, Sending, Quiet
<1>3. CASE Extended
  <2>1. meas # <<>> /\ phase # "guest"
    BY <1>3 DEF Extended, CmdOf, Shape
  <2>2. \/ pc' = "measure" /\ tx' = IdleTx /\ tx'.st = "idle"
        \/ pc' = "failure" /\ tx'.st \in {"activate", "end"} /\ tx'.own /\ (tx'.st = "activate" => drv # "none")
    BY <1>0, <1>3 DEF Extended
  <2>3. UNCHANGED <<ver, drv, phase, code, ran>> /\ pc = "extend"
    BY <1>3 DEF Extended
  <2> QED
    BY <2>1, <2>2, <2>3 DEF Shape, Sending, Quiet
<1>4. CASE Measured
  BY <1>0, <1>4 DEF Measured, Codes, Shape, Sending, Quiet
<1>5. CASE TpmSetup
  BY <1>0, <1>5 DEF TpmSetup, HwProbe, TisVersion, Shape, Sending, Quiet
<1>6. CASE TpmStartup
  BY <1>0, <1>6 DEF TpmStartup, Shape, Sending, Quiet
<1>7. CASE Tpm12Startup
  BY <1>0, <1>7 DEF Tpm12Startup, Following12, Shape, Sending, Quiet
<1>8. CASE AssertPresence
  BY <1>0, <1>8 DEF AssertPresence, Shape, Sending, Quiet
<1>9. CASE Tpm20Startup
  <2>1. \/ pc' = "measure" /\ tx' = IdleTx /\ tx'.st = "idle"
        \/ pc' \in {"startup", "failure"} /\ tx'.st \in {"activate", "end"} /\ tx'.own /\ (tx'.st = "activate" => drv # "none")
    BY <1>0, <1>9 DEF Tpm20Startup
  <2>2. UNCHANGED <<ver, drv, phase, code, ran>> /\ pc = "startup"
    BY <1>9 DEF Tpm20Startup
  <2> QED
    BY <2>1, <2>2 DEF Shape, Sending, Quiet
<1>10. CASE OptionRom
  BY <1>0, <1>10 DEF OptionRom, Begin, Shape, Sending, Quiet
<1>11. CASE PrepBoot
  BY <1>0, <1>11 DEF PrepBoot, Shape, Sending, Quiet
<1>12. CASE PrepBootAnswer
  BY <1>0, <1>12 DEF PrepBootAnswer, Tpm20Prepboot, Shape, Sending, Quiet
<1>13. CASE Boot
  BY <1>0, <1>13 DEF Boot, Begin, Shape, Sending, Quiet
<1>14. CASE Suspend
  BY <1>0, <1>14 DEF Suspend, Shape, Sending, Quiet
<1>15. CASE Resume
  BY <1>0, <1>15 DEF Resume, Shape, Sending, Quiet
<1>16. CASE HashLogExtend
  BY <1>0, <1>16 DEF HashLogExtend, Call, Shape, Sending, Quiet
<1>17. CASE HashLogExtended
  BY <1>0, <1>17 DEF HashLogExtended, Shape, Sending, Quiet
<1>18. CASE HashLogEvent
  BY <1>0, <1>18 DEF HashLogEvent, Call, Shape, Sending, Quiet
<1>19. CASE PassThrough
  BY <1>0, <1>19 DEF PassThrough, Call, Shape, Sending, Quiet
<1>20. CASE PassedThrough
  BY <1>0, <1>20 DEF PassedThrough, Shape, Sending, Quiet
<1>21. CASE ShutdownInterface
  BY <1>0, <1>21 DEF ShutdownInterface, Call, Shape, Sending, Quiet
<1>22. CASE Menu
  BY <1>0, <1>22 DEF Menu, Shape, Sending, Quiet
<1>23. CASE MenuState
  BY <1>0, <1>23 DEF MenuState, Shape, Sending, Quiet
<1>24. CASE MenuKey
  BY <1>0, <1>24 DEF MenuKey, Shape, Sending, Quiet
<1>25. CASE MenuStep
  <2>1. \/ pc' \in {"menu", "key", "cfg"} /\ tx' = IdleTx /\ tx'.st = "idle" /\ (pc' = "menu" => ver = "1.2")
        \/ pc' = "cmd" /\ tx'.st \in {"activate", "end"} /\ tx'.own /\ (tx'.st = "activate" => drv # "none")
    BY <1>0, <1>25 DEF MenuStep
  <2>2. UNCHANGED <<ver, drv, phase, meas, code, ran>> /\ pc \in {"cfg", "cmd"}
    BY <1>25 DEF MenuStep
  <2> QED
    BY <2>1, <2>2 DEF Shape, Sending, Quiet
<1>26. CASE Reset
  <2>1. /\ phase' = "setup" /\ pc' = "setup" /\ meas' = <<>> /\ log' = <<>> /\ code' = "none" /\ ran' = {}
        /\ drv' = "none" /\ tx' = IdleTx /\ dev' = IdleDev
    BY <1>26 DEF Reset, Restarted
  <2>2. tpm'.pcrs = <<>>
    BY <1>26, FreshTpm DEF Reset, TpmTypeOK
  <2> QED
    BY <2>1, <2>2, IdleShape DEF Shape, Quiet
<1> QED
  BY <1>1, <1>2, <1>3, <1>4, <1>5, <1>6, <1>7, <1>8, <1>9, <1>10, <1>11, <1>12, <1>13, <1>14, <1>15, <1>16,
     <1>17, <1>18, <1>19, <1>20, <1>21, <1>22, <1>23, <1>24, <1>25, <1>26 DEF TcgStep

\* The command is the one of the function, whatever the function does.
LEMMA CmdOfStep ==
    ASSUME TpmTypeOK, Shape, CmdOf, Next
    PROVE  CmdOf'
<1> USE DEF hwSame, Ended, Idle
<1>0. /\ \A c, p : Send(c, p) => pc' = p /\ tx'.cmd = c
      /\ \A p : Return(p) => pc' = p /\ tx'.cmd.ord = "none"
      /\ Fail => pc' = "failure" /\ tx'.cmd.ord \in {"SetTempDeactivated", "DisableEndorsement"}
      /\ pc \in Quiet => tx.cmd.ord = "none"
  BY SendShape, ReturnShape, IdleShape, FailSends DEF Shape
<1>27. CASE (DevExecute \/ TransmitStep) /\ UNCHANGED tcgVars
  BY <1>27, DeviceSteps DEF CmdOf, tcgVars
<1>1. CASE SetFailure
  BY <1>0, CmdOrds, <1>1 DEF SetFailure, CmdOf, Quiet
<1>2. CASE Measure
  BY <1>0, CmdOrds, <1>2 DEF Measure, CmdOf, Quiet
<1>3. CASE Extended
  <2>1. pc' \in {"measure", "failure"} /\ tx'.cmd.ord # "Extend"
    BY <1>0, <1>3 DEF Extended
  <2> QED
    BY <2>1 DEF CmdOf
<1>4. CASE Measured
  BY <1>0, CmdOrds, <1>4 DEF Measured, Codes, CmdOf, Quiet
<1>5. CASE TpmSetup
  BY <1>0, CmdOrds, <1>5 DEF TpmSetup, HwProbe, TisVersion, CmdOf, Quiet
<1>6. CASE TpmStartup
  BY <1>0, CmdOrds, <1>6 DEF TpmStartup, CmdOf, Quiet
<1>7. CASE Tpm12Startup
  BY <1>0, CmdOrds, <1>7 DEF Tpm12Startup, Following12, CmdOf, Quiet
<1>8. CASE AssertPresence
  BY <1>0, CmdOrds, <1>8 DEF AssertPresence, CmdOf, Quiet
<1>9. CASE Tpm20Startup
  <2>1. pc' \in {"startup", "measure", "failure"} /\ tx'.cmd.ord # "Extend"
    <3>1. \/ Fail \/ Return("measure")
          \/ Send(Cmd("SelfTest"), "startup") \/ Send(Cmd("GetPcrBanks"), "startup")
      BY <1>9 DEF Tpm20Startup
    <3> QED
      BY <1>0, CmdOrds, <3>1
  <2> QED
    BY <2>1 DEF CmdOf
<1>10. CASE OptionRom
  BY <1>0, CmdOrds, <1>10 DEF OptionRom, Begin, CmdOf, Quiet
<1>11. CASE PrepBoot
  BY <1>0, CmdOrds, <1>11 DEF PrepBoot, CmdOf, Quiet
<1>12. CASE PrepBootAnswer
  BY <1>0, CmdOrds, <1>12 DEF PrepBootAnswer, Tpm20Prepboot, CmdOf, Quiet
<1>13. CASE Boot
  BY <1>0, CmdOrds, <1>13 DEF Boot, Begin, CmdOf, Quiet
<1>14. CASE Suspend
  BY <1>0, CmdOrds, <1>14 DEF Suspend, CmdOf, Quiet
<1>15. CASE Resume
  BY <1>0, CmdOrds, <1>15 DEF Resume, CmdOf, Quiet
<1>16. CASE HashLogExtend
  BY <1>0, CmdOrds, <1>16 DEF HashLogExtend, Call, CmdOf, Quiet
<1>17. CASE HashLogExtended
  BY <1>0, CmdOrds, <1>17 DEF HashLogExtended, CmdOf, Quiet
<1>18. CASE HashLogEvent
  BY <1>0, CmdOrds, <1>18 DEF HashLogEvent, Call, CmdOf, Quiet
<1>19. CASE PassThrough
  BY <1>0, CmdOrds, <1>19 DEF PassThrough, Raw, CmdOf, Quiet
<1>20. CASE PassedThrough
  BY <1>0, CmdOrds, <1>20 DEF PassedThrough, CmdOf, Quiet
<1>21. CASE ShutdownInterface
  BY <1>0, CmdOrds, <1>21 DEF ShutdownInterface, Call, CmdOf, Quiet
<1>22. CASE Menu
  BY <1>0, CmdOrds, <1>22 DEF Menu, CmdOf, Quiet
<1>23. CASE MenuState
  BY <1>0, CmdOrds, <1>23 DEF MenuState, CmdOf, Quiet
<1>24. CASE MenuKey
  BY <1>0, CmdOrds, <1>24 DEF MenuKey, CmdOf, Quiet
<1>25. CASE MenuStep
  <2>1. menu.todo # <<>> => Head(menu.todo) # "Extend"
    BY DEF TpmTypeOK, MenuSteps, MenuOrds
  <2>2. pc' \in {"menu", "key", "cfg", "cmd"} /\ tx'.cmd.ord # "Extend"
    BY <1>0, CmdOrds, <1>25, <2>1 DEF MenuStep
  <2> QED
    BY <2>2 DEF CmdOf
<1>26. CASE Reset
  BY <1>26, IdleShape DEF Reset, Restarted, CmdOf
<1> QED
  BY <1>1, <1>2, <1>3, <1>4, <1>5, <1>6, <1>7, <1>8, <1>9, <1>10, <1>11, <1>12, <1>13, <1>14, <1>15, <1>16,
     <1>17, <1>18, <1>19, <1>20, <1>21, <1>22, <1>23, <1>24, <1>25, <1>26, <1>27 DEF Next, TcgStep

\* What a step of a function makes of the transmission and of the device: it sends a
\* command, or the transmission is over and the device left alone or idle.
SendStep ==
    /\ UNCHANGED <<drv, tpm>> /\ tx.st \in {"idle", "end"} /\ pc' \in Sending
    /\ dev'.st = dev.st /\ ~dev'.own /\ tx'.own
    /\ \/ tx'.st = "activate" /\ drv # "none"
       \/ tx'.st = "end" /\ tx'.res = "fail" /\ drv = "none"
RestStep ==
    /\ tx.st \in {"idle", "end"} /\ tx' = IdleTx /\ dev' \in {dev, IdleDev}
    /\ tpm'.pcrs = tpm.pcrs /\ tpm'.auth = tpm.auth
    /\ drv' = drv \/ pc = "setup"
ResetStep ==
    /\ tx' = IdleTx /\ dev' = IdleDev /\ tpm'.pcrs = <<>>
    /\ phase' = "setup" /\ pc' = "setup" /\ log' = <<>> /\ next' = 0 /\ ran' = {} /\ code' = "none" /\ drv' = "none"
    /\ ~working' /\ mach' = mach

LEMMA TcgSteps ==
    ASSUME TpmTypeOK, Shape, TcgStep
    PROVE  faults' = faults /\ (SendStep \/ RestStep \/ ResetStep)
<1> USE DEF hwSame, Ended, Idle
<1>0. /\ \A c, p : UNCHANGED <<drv, tpm>> /\ tx.st \in {"idle", "end"} /\ p \in Sending /\ Send(c, p) => SendStep
      /\ \A p : UNCHANGED <<drv, tpm>> /\ tx.st \in {"idle", "end"} /\ Return(p) => RestStep
      /\ UNCHANGED <<drv, tpm>> /\ tx.st \in {"idle", "end"} /\ Fail => SendStep
      /\ UNCHANGED <<drv, tpm, tx, dev>> /\ pc \in Quiet => RestStep
      /\ pc \in Quiet => tx.st = "idle" /\ tx = IdleTx
  BY SendShape, ReturnShape, FailSends DEF SendStep, RestStep, Shape, Sending
<1>1. CASE SetFailure
  BY <1>0, <1>1 DEF SetFailure, Quiet, Sending
<1>2. CASE Measure
  BY <1>0, <1>2 DEF Measure, Quiet, Sending
<1>3. CASE Extended
  BY <1>0, <1>3 DEF Extended, Quiet, Sending
<1>4. CASE Measured
  BY <1>0, <1>4 DEF Measured, Codes, Quiet, Sending
<1>5. CASE TpmSetup
  <2>1. tpm'.pcrs = tpm.pcrs /\ tpm'.auth = tpm.auth
    BY <1>5 DEF TpmSetup, TpmTypeOK, TpmKept
  <2> QED
    BY <1>0, <1>5, <2>1 DEF TpmSetup, Quiet, RestStep
<1>6. CASE TpmStartup
  BY <1>0, <1>6 DEF TpmStartup, Quiet, Sending
<1>7. CASE Tpm12Startup
  BY <1>0, <1>7 DEF Tpm12Startup, Following12, Quiet, Sending
<1>8. CASE AssertPresence
  BY <1>0, <1>8 DEF AssertPresence, Quiet, Sending
<1>9. CASE Tpm20Startup
  BY <1>0, <1>9 DEF Tpm20Startup, Quiet, Sending
<1>10. CASE OptionRom
  BY <1>0, <1>10 DEF OptionRom, Begin, Quiet, Sending
<1>11. CASE PrepBoot
  BY <1>0, <1>11 DEF PrepBoot, Quiet, Sending
<1>12. CASE PrepBootAnswer
  BY <1>0, <1>12 DEF PrepBootAnswer, Tpm20Prepboot, Quiet, Sending
<1>13. CASE Boot
  BY <1>0, <1>13 DEF Boot, Begin, Quiet, Sending
<1>14. CASE Suspend
  <2>1. tpm'.pcrs = tpm.pcrs /\ tpm'.auth = tpm.auth
    BY <1>14 DEF Suspend, TpmTypeOK, TpmKept
  <2> QED
    BY <1>0, <1>14, <2>1 DEF Suspend, Quiet, RestStep
<1>15. CASE Resume
  BY <1>0, <1>15 DEF Resume, Quiet, Sending
<1>16. CASE HashLogExtend
  BY <1>0, <1>16 DEF HashLogExtend, Call, Quiet, Sending
<1>17. CASE HashLogExtended
  BY <1>0, <1>17 DEF HashLogExtended, Quiet, Sending
<1>18. CASE HashLogEvent
  BY <1>0, <1>18 DEF HashLogEvent, Call, Quiet, Sending
<1>19. CASE PassThrough
  BY <1>0, <1>19 DEF PassThrough, Call, Quiet, Sending
<1>20. CASE PassedThrough
  BY <1>0, <1>20 DEF PassedThrough, Quiet, Sending
<1>21. CASE ShutdownInterface
  BY <1>0, <1>21 DEF ShutdownInterface, Call, Quiet, Sending
<1>22. CASE Menu
  BY <1>0, <1>22 DEF Menu, Quiet, Sending
<1>23. CASE MenuState
  BY <1>0, <1>23 DEF MenuState, Quiet, Sending
<1>24. CASE MenuKey
  BY <1>0, <1>24 DEF MenuKey, Quiet, Sending
<1>25. CASE MenuStep
  BY <1>0, <1>25 DEF MenuStep, Quiet, Sending
<1>26. CASE Reset
  BY <1>26, FreshTpm DEF Reset, Restarted, TpmTypeOK, ResetStep
<1> QED
  BY <1>1, <1>2, <1>3, <1>4, <1>5, <1>6, <1>7, <1>8, <1>9, <1>10, <1>11, <1>12, <1>13, <1>14, <1>15, <1>16,
     <1>17, <1>18, <1>19, <1>20, <1>21, <1>22, <1>23, <1>24, <1>25, <1>26 DEF TcgStep

LEMMA DeviceShape ==
    ASSUME TpmTypeOK, Shape, DevExecute \/ TransmitStep, UNCHANGED tcgVars
    PROVE  Shape'
<1>1. /\ phase' = phase /\ pc' = pc /\ meas' = meas /\ code' = code /\ ran' = ran /\ ver' = ver /\ drv' = drv
  BY DeviceSteps DEF tcgVars
<1>2. tx.st # "idle"
      \/ (dev.st = "exec" /\ tx' = tx)
  BY DeviceSteps
<1>3. tx'.st # "idle" \/ tx' = tx
  BY DeviceSteps
<1>4. tx'.st \in {"activate", "send", "wait"} => tx.st \in {"activate", "send", "wait"} /\ tx'.own = tx.own
  BY DeviceSteps
<1>5. pc # "setup"
  BY <1>2 DEF Shape, Quiet
<1> QED
  BY <1>1, <1>2, <1>3, <1>4, <1>5 DEF Shape

\* The device holds the command it was sent last, or one that was given up.
LEMMA HoldsStep ==
    ASSUME TpmInv, Next
    PROVE  Holds' /\ AnswersMatch'
<1> USE DEF TpmInv
<1>1. CASE DevExecute \/ TransmitStep
  <2>1. faults' = 0 => faults = 0
    BY <1>1, DeviceSteps DEF TpmTypeOK
  <2>2. dev.ans # "fail" /\ faults \in Nat
    BY DEF TpmTypeOK, DevType
  <2>3. Holds'
    <3>1. tx'.st = "wait" /\ dev'.own => dev'.st # "idle" /\ dev'.cmd = tx'.cmd
      BY <1>1, DeviceSteps, IdleShape DEF Holds
    <3>6. tx'.st \in {"activate", "send"} => ~dev'.own
      BY <1>1, DeviceSteps, IdleShape DEF Holds
    <3>2. drv' = "tis" => /\ tx'.st = "send" => dev'.st = "idle"
                          /\ tx'.st = "wait" => dev'.own
      BY <1>1, DeviceSteps, IdleShape DEF Holds
    <3>3. faults' = 0 => /\ tx'.st # "wait" => dev'.st = "idle"
                         /\ tx'.st = "wait" => dev'.own
      BY <1>1, <2>1, <2>2, DeviceSteps, IdleShape DEF Holds
    <3>4. tx'.st = "end" /\ tx'.res # "fail" => dev'.st = "idle"
      BY <1>1, DeviceSteps, IdleShape DEF Holds
    <3>5. tx'.st = "end" /\ tx'.res = "fail" => tx'.own
      BY <1>1, <2>2, DeviceSteps DEF Holds, Shape
    <3> QED
      BY <3>1, <3>2, <3>3, <3>4, <3>5, <3>6 DEF Holds
  <2>4. AnswersMatch'
    BY <1>1, <2>1, <2>2, DeviceSteps DEF Holds, Shape, AnswersMatch, TpmTypeOK
  <2> QED
    BY <2>3, <2>4
<1>2. CASE TcgStep
  <2>1. faults' = faults /\ (SendStep \/ RestStep \/ ResetStep)
    BY <1>2, TcgSteps
  <2> QED
    BY <2>1, IdleShape DEF SendStep, RestStep, ResetStep, Holds, AnswersMatch, TpmTypeOK
<1> QED
  BY <1>1, <1>2, Steps

\* The invariant holds at the start and is inductive.
LEMMA TpmInvInit == Init => TpmInv
<1> SUFFICES ASSUME Init PROVE TpmInv
  OBVIOUS
<1>1. TpmTypeOK
  <2>1. "todo" \in DOMAIN NoMenu /\ NoMenu.todo \in Seq(MenuSteps)
    BY DEF NoMenu
  <2>2. TpmKept(tpm)
    BY DEF Init, TpmKept
  <2>3. meas \in Seq(Events) /\ log \in Seq(Entries) /\ ran \subseteq Codes \ {"none"}
    BY DEF Init
  <2> QED
    BY <2>1, <2>2, <2>3, IdleTypes DEF Init, TpmTypeOK, Quiet, Codes, NoSelection
<1>2. Shape /\ CmdOf
  BY IdleShape DEF Init, Shape, CmdOf, Quiet
<1>3. Holds /\ AnswersMatch
  BY IdleShape DEF Init, Holds, AnswersMatch
<1> QED
  BY <1>1, <1>2, <1>3 DEF TpmInv

LEMMA TpmInvStep ==
    ASSUME TpmInv, [Next]_tpmVars
    PROVE  TpmInv'
<1> USE DEF TpmInv
<1>1. CASE Next
  <2>1. TpmTypeOK'
    BY <1>1, Steps, DeviceTypes, TcgTypes
  <2>2. Shape'
    BY <1>1, Steps, DeviceShape, TcgShape
  <2>3. CmdOf'
    BY <1>1, CmdOfStep
  <2>4. Holds' /\ AnswersMatch'
    BY <1>1, HoldsStep
  <2> QED
    BY <2>1, <2>2, <2>3, <2>4
<1>2. CASE UNCHANGED tpmVars
  BY <1>2 DEF tpmVars, devVars, tcgVars, TpmTypeOK, TpmKept, Shape, CmdOf, Holds, AnswersMatch, Quiet, Sending
<1> QED
  BY <1>1, <1>2

\* The states that a start of the TPM, its timeouts and the calls of the guest lead to.
THEOREM TpmTypes == TpmSpec => []TpmTypeOK
<1>1. TpmInv => TpmTypeOK
  BY DEF TpmInv
<1> QED
  BY <1>1, TpmInvInit, TpmInvStep, PTL DEF TpmSpec

\* The answer a function of tcgbios.c acts on is the answer to the command it sent
\* with tpmhw_transmit, unless a CRB was late before.
THEOREM AnswersAreMatched == TpmSpec => []AnswersMatch
<1>1. TpmInv => AnswersMatch
  BY DEF TpmInv
<1> QED
  BY <1>1, TpmInvInit, TpmInvStep, PTL DEF TpmSpec

-----------------------------------------------------------------------------
\* A command of a transmission that has been executed was executed before, or is by this step.
LEMMA DoneSteps ==
    ASSUME TpmInv, Next, Done'
    PROVE  /\ tx'.cmd = tx.cmd /\ UNCHANGED tcgVars /\ drv' = drv /\ ver' = ver /\ faults' = faults
           /\ \/ Done /\ tpm' = tpm
              \/ /\ tx.st = "wait" /\ dev.st = "exec" /\ dev.cmd = tx.cmd /\ tpm' = Executed(tx.cmd)
                 /\ tx.cmd \in Cmds
<1> USE DEF TpmInv
<1>1. CASE (DevExecute \/ TransmitStep) /\ UNCHANGED tcgVars
  <2>1. tx.cmd \in Cmds
    BY DEF TpmTypeOK, TxType
  <2>2. faults' = faults
    BY <1>1, DeviceSteps DEF Done, Holds, TpmTypeOK
  <2> QED
    BY <1>1, <2>1, <2>2, DeviceSteps, IdleShape DEF Done, Holds
<1>2. CASE TcgStep
  <2>1. SendStep \/ RestStep \/ ResetStep
    BY <1>2, TcgSteps
  <2> QED
    BY <2>1, IdleShape DEF SendStep, RestStep, ResetStep, Done
<1> QED
  BY <1>1, <1>2, Steps

\* The PCRs grow by the event of a command the device executes, or are emptied by a reset.
LEMMA PcrsSteps ==
    ASSUME TpmInv, Next
    PROVE  \/ ResetStep
           \/ tpm'.pcrs = tpm.pcrs
           \/ /\ dev.st = "exec" /\ dev.cmd.ord = "Extend" /\ dev.cmd.event \in Events
              /\ tpm'.pcrs = Append(tpm.pcrs, dev.cmd.event)
              /\ tx' = tx /\ dev'.st = "done" /\ dev'.own = dev.own /\ dev'.ans = "ok"
              /\ faults' = faults /\ drv' = drv /\ UNCHANGED tcgVars
<1> USE DEF TpmInv
<1>1. CASE DevExecute /\ UNCHANGED tcgVars
  <2>1. dev.cmd \in Cmds /\ (dev.cmd.ord = "Extend" => dev.cmd.event \in Events)
    BY DEF TpmTypeOK, DevType, Cmds, Ords, MenuOrds
  <2>2. Executed(dev.cmd).pcrs = IF dev.cmd.ord = "Extend" THEN Append(tpm.pcrs, dev.cmd.event) ELSE tpm.pcrs
    BY <2>1, ExecutedEffect DEF TpmTypeOK
  <2>3. CASE tpm' = tpm
    BY <2>3
  <2>4. CASE tpm' # tpm
    <3>1. /\ tpm' = Executed(dev.cmd) /\ dev.st = "exec" /\ faults' = faults /\ drv' = drv /\ tx' = tx
          /\ dev'.st = "done" /\ dev'.own = dev.own /\ dev'.ans \in {"ok", "badlocality"}
          /\ dev'.ans = "badlocality" => dev.cmd.ord = "ResetEstablishmentBit"
      BY <1>1, <2>4 DEF DevExecute, TpmTypeOK, DevType
    <3> QED
      BY <1>1, <2>1, <2>2, <3>1
  <2> QED
    BY <2>3, <2>4
<1>2. CASE TransmitStep /\ UNCHANGED tcgVars
  BY <1>2 DEF TransmitStep, GiveUp, Activate, NoLocality, SendData, ReadResp
<1>3. CASE TcgStep
  BY <1>3, TcgSteps DEF SendStep, RestStep
<1> QED
  BY <1>1, <1>2, <1>3, Steps

\* What is in the PCRs stays there until a reset.
LEMMA PcrsKept ==
    ASSUME TpmInv, Next, NEW e, InPcrs(e)
    PROVE  InPcrs(e)' \/ ResetStep
<1>1. tpm.pcrs \in Seq(Events)
  BY DEF TpmInv, TpmTypeOK, TpmKept
<1>2. PICK i \in 1 .. Len(tpm.pcrs) : tpm.pcrs[i] = e
  BY DEF InPcrs
<1>3. CASE tpm'.pcrs = tpm.pcrs
  BY <1>2, <1>3 DEF InPcrs
<1>4. CASE \E x \in Events : tpm'.pcrs = Append(tpm.pcrs, x)
  <2>1. PICK x \in Events : tpm'.pcrs = Append(tpm.pcrs, x)
    BY <1>4
  <2>2. i \in 1 .. Len(tpm'.pcrs) /\ tpm'.pcrs[i] = e
    BY <1>1, <1>2, <2>1
  <2> QED
    BY <2>2 DEF InPcrs
<1> QED
  BY <1>3, <1>4, PcrsSteps

\* A command that was answered had its effect.
LEMMA EffectStep ==
    ASSUME TpmInv, Effect, Next
    PROVE  Effect'
<1> SUFFICES ASSUME Done'
             PROVE  (/\ tx.cmd.ord = "Extend" => InPcrs(tx.cmd.event)
                     /\ tx.cmd.ord = "HierarchyChangeAuth" => tpm.auth # "empty")'
  BY DEF Effect
<1> USE DEF TpmInv
<1>1. CASE Done /\ tpm' = tpm
  BY <1>1, DoneSteps DEF Effect, InPcrs
<1>2. CASE tpm' = Executed(tx.cmd) /\ tx.cmd \in Cmds
  <2>1. /\ tpm'.pcrs = IF tx.cmd.ord = "Extend" THEN Append(tpm.pcrs, tx.cmd.event) ELSE tpm.pcrs
        /\ tpm'.auth = IF tx.cmd.ord = "HierarchyChangeAuth" THEN "random" ELSE tpm.auth
    BY <1>2, ExecutedEffect DEF TpmTypeOK
  <2>2. tx'.cmd = tx.cmd
    BY DoneSteps
  <2>3. ASSUME tx.cmd.ord = "Extend"
        PROVE  InPcrs(tx.cmd.event)'
    <3>1. tpm.pcrs \in Seq(Events)
      BY DEF TpmTypeOK, TpmKept
    <3>2. tpm'.pcrs = Append(tpm.pcrs, tx.cmd.event)
      BY <2>1, <2>3
    <3>3. Len(tpm.pcrs) + 1 \in 1 .. Len(tpm'.pcrs) /\ tpm'.pcrs[Len(tpm.pcrs) + 1] = tx.cmd.event
      BY <3>1, <3>2
    <3> QED
      BY <2>2, <3>3 DEF InPcrs
  <2> QED
    BY <2>1, <2>2, <2>3
<1> QED
  BY <1>1, <1>2, DoneSteps

-----------------------------------------------------------------------------
\* tpm_log_event adds an entry at the end, if there is room for it.
LEMMA LogAppends ==
    ASSUME TpmTypeOK, NEW e \in Events, NEW x \in BOOLEAN, LogEvent(e, x)
    PROVE  \/ ~Fits(e) /\ log' = log /\ next' = next
           \/ /\ Fits(e) /\ next' = next + Size(e) /\ Len(log) \in Nat
              /\ DOMAIN log = 1 .. Len(log) /\ DOMAIN log' = 1 .. (Len(log) + 1)
              /\ \A i \in DOMAIN log : log'[i] = log[i]
              /\ log'[Len(log) + 1] = [event |-> e, extended |-> x, at |-> Len(tpm.pcrs)]
<1>1. CASE Fits(e)
  <2>1. log \in Seq(Entries)
    BY DEF TpmTypeOK
  <2>2. Len(tpm.pcrs) \in Nat
    BY DEF TpmTypeOK, TpmKept
  <2> DEFINE new == [event |-> e, extended |-> x, at |-> Len(tpm.pcrs)]
  <2>3. new \in Entries
    BY <2>2 DEF Entries
  <2>4. log' = Append(log, new) /\ next' = next + Size(e)
    BY <1>1 DEF LogEvent
  <2> HIDE DEF new
  <2>5. /\ Len(log) \in Nat /\ DOMAIN log = 1 .. Len(log) /\ DOMAIN log' = 1 .. (Len(log) + 1)
        /\ \A i \in DOMAIN log : log'[i] = log[i]
        /\ log'[Len(log) + 1] = new
    BY <2>1, <2>3, <2>4
  <2> QED
    BY <1>1, <2>4, <2>5 DEF new
<1>2. CASE ~Fits(e)
  BY <1>2 DEF LogEvent
<1> QED
  BY <1>1, <1>2

\* What the steps of the functions do to the log: what is marked as extended is the
\* event of the command that has just been answered.
LEMMA LogSteps ==
    ASSUME TpmInv, TcgStep
    PROVE  \/ ResetStep
           \/ /\ UNCHANGED <<log, next, mach>> /\ (working' => working \/ pc = "setup")
              /\ ~(pc \in {"extend", "guest"} /\ tx.st = "end" /\ Ok)
           \/ /\ mach' = mach /\ working' = working /\ tx.cmd.ord # "Extend"
              /\ \E e \in Events : LogEvent(e, FALSE)
           \/ /\ mach' = mach /\ working' = working /\ pc \in {"extend", "guest"}
              /\ tx.st = "end" /\ Ok /\ Head(meas) \in Events /\ LogEvent(Head(meas), TRUE)
<1> USE DEF TpmInv, hwSame, Ended, Idle
<1>0. /\ pc \in Quiet => tx.cmd.ord = "none"
      /\ pc \in {"extend", "guest"} => Head(meas) \in Events
      /\ pc = "startup" => tx.cmd.ord # "Extend"
  BY IdleShape DEF Shape, CmdOf, TpmTypeOK
<1>1. CASE SetFailure
  BY <1>0, <1>1 DEF SetFailure, Quiet
<1>2. CASE Measure
  BY <1>0, <1>2 DEF Measure, Quiet
<1>3. CASE Extended
  BY <1>0, <1>3 DEF Extended, Quiet
<1>4. CASE Measured
  BY <1>0, <1>4 DEF Measured, Codes, Quiet
<1>5. CASE TpmSetup
  BY <1>0, <1>5 DEF TpmSetup, HwProbe, TisVersion, Quiet
<1>6. CASE TpmStartup
  BY <1>0, <1>6 DEF TpmStartup, Quiet
<1>7. CASE Tpm12Startup
  BY <1>0, <1>7 DEF Tpm12Startup, Following12, Quiet
<1>8. CASE AssertPresence
  BY <1>0, <1>8 DEF AssertPresence, Quiet
<1>9. CASE Tpm20Startup
  BY <1>0, <1>9, EventTypes DEF Tpm20Startup
<1>10. CASE OptionRom
  BY <1>0, <1>10 DEF OptionRom, Begin, Quiet
<1>11. CASE PrepBoot
  BY <1>0, <1>11 DEF PrepBoot, Quiet
<1>12. CASE PrepBootAnswer
  BY <1>0, <1>12 DEF PrepBootAnswer, Tpm20Prepboot, Quiet
<1>13. CASE Boot
  BY <1>0, <1>13 DEF Boot, Begin, Quiet
<1>14. CASE Suspend
  BY <1>0, <1>14 DEF Suspend, Quiet
<1>15. CASE Resume
  BY <1>0, <1>15 DEF Resume, Quiet
<1>16. CASE HashLogExtend
  BY <1>0, <1>16 DEF HashLogExtend, Call, Quiet
<1>17. CASE HashLogExtended
  BY <1>0, <1>17 DEF HashLogExtended, Quiet
<1>18. CASE HashLogEvent
  BY <1>0, <1>18, EventTypes DEF HashLogEvent, Call, Quiet
<1>19. CASE PassThrough
  BY <1>0, <1>19 DEF PassThrough, Call, Quiet
<1>20. CASE PassedThrough
  BY <1>0, <1>20 DEF PassedThrough, Quiet
<1>21. CASE ShutdownInterface
  BY <1>0, <1>21 DEF ShutdownInterface, Call, Quiet
<1>22. CASE Menu
  BY <1>0, <1>22 DEF Menu, Quiet
<1>23. CASE MenuState
  BY <1>0, <1>23 DEF MenuState, Quiet
<1>24. CASE MenuKey
  BY <1>0, <1>24 DEF MenuKey, Quiet
<1>25. CASE MenuStep
  BY <1>0, <1>25 DEF MenuStep, Quiet
<1>26. CASE Reset
  BY <1>26, TcgSteps, FreshTpm DEF Reset, Restarted, ResetStep, TpmTypeOK
<1> QED
  BY <1>1, <1>2, <1>3, <1>4, <1>5, <1>6, <1>7, <1>8, <1>9, <1>10, <1>11, <1>12, <1>13, <1>14, <1>15, <1>16,
     <1>17, <1>18, <1>19, <1>20, <1>21, <1>22, <1>23, <1>24, <1>25, <1>26 DEF TcgStep

LEMMA LogInAreaStep ==
    ASSUME TpmInv, LogInArea, Next
    PROVE  LogInArea'
<1> USE DEF TpmInv
<1>0. mach.area \in Nat /\ next \in Nat
  BY TpmAssumption DEF TpmTypeOK
<1>1. CASE UNCHANGED tcgVars
  BY <1>1 DEF tcgVars, LogInArea
<1>2. CASE TcgStep
  <2>1. CASE ResetStep
    BY <1>0, <2>1 DEF ResetStep, LogInArea
  <2>2. CASE UNCHANGED <<log, next, mach>>
    BY <2>2 DEF LogInArea
  <2>3. CASE \E e \in Events, x \in BOOLEAN : mach' = mach /\ LogEvent(e, x)
    BY <2>3 DEF LogInArea, LogEvent, Fits
  <2> QED
    BY <1>2, <2>1, <2>2, <2>3, LogSteps
<1> QED
  BY <1>1, <1>2, Steps

\* The entries in order stay so when the TPM is given another event.
LEMMA InOrderKept ==
    ASSUME TpmTypeOK, InOrder, UNCHANGED log,
           tpm'.pcrs = tpm.pcrs \/ \E e \in Events : tpm'.pcrs = Append(tpm.pcrs, e)
    PROVE  InOrder'
<1>1. tpm.pcrs \in Seq(Events) /\ Len(tpm.pcrs) \in Nat
  BY DEF TpmTypeOK, TpmKept
<1>2. Logged' = Logged
  BY DEF Logged
<1>3. CASE tpm'.pcrs = tpm.pcrs
  BY <1>2, <1>3 DEF InOrder
<1>4. ASSUME NEW e \in Events, tpm'.pcrs = Append(tpm.pcrs, e)
      PROVE  InOrder'
  <2>1. \A k \in 1 .. Len(tpm.pcrs) : k \in 1 .. Len(tpm'.pcrs) /\ tpm'.pcrs[k] = tpm.pcrs[k]
    BY <1>1, <1>4
  <2> QED
    BY <1>2, <2>1 DEF InOrder
<1> QED
  BY <1>3, <1>4

\* An entry that is added behind them is the newest.
LEMMA InOrderAdded ==
    ASSUME TpmTypeOK, InOrder, NEW e \in Events, NEW x \in BOOLEAN, LogEvent(e, x), tpm'.pcrs = tpm.pcrs,
           x => /\ Len(tpm.pcrs) > 0 /\ tpm.pcrs[Len(tpm.pcrs)] = e
                /\ \A i \in Logged : log[i].at # Len(tpm.pcrs)
    PROVE  InOrder'
<1>1. Len(tpm.pcrs) \in Nat
  BY DEF TpmTypeOK, TpmKept
<1>2. CASE ~Fits(e)
  BY <1>2, LogAppends DEF InOrder, Logged
<1>3. CASE Fits(e)
  <2> DEFINE n == Len(log) + 1
  <2>1. /\ Len(log) \in Nat /\ DOMAIN log = 1 .. Len(log) /\ DOMAIN log' = 1 .. n
        /\ \A i \in DOMAIN log : log'[i] = log[i]
        /\ log'[n].event = e /\ log'[n].extended = x /\ log'[n].at = Len(tpm.pcrs)
    <3>1. /\ Len(log) \in Nat /\ DOMAIN log = 1 .. Len(log) /\ DOMAIN log' = 1 .. (Len(log) + 1)
          /\ \A i \in DOMAIN log : log'[i] = log[i]
          /\ log'[Len(log) + 1] = [event |-> e, extended |-> x, at |-> Len(tpm.pcrs)]
      BY <1>3, LogAppends
    <3>2. log'[n] = [event |-> e, extended |-> x, at |-> Len(tpm.pcrs)]
      BY <3>1
    <3> HIDE DEF n
    <3>3. log'[n].event = e /\ log'[n].extended = x /\ log'[n].at = Len(tpm.pcrs)
      BY <3>2
    <3> QED
      BY <3>1, <3>3 DEF n
  <2>2. Logged' \subseteq Logged \cup (IF x THEN {n} ELSE {})
    BY <2>1 DEF Logged
  <2>3. \A i \in Logged : i \in DOMAIN log /\ i < n /\ log'[i] = log[i]
    BY <2>1 DEF Logged
  <2>4. \A i \in Logged : /\ log'[i].at \in 1 .. Len(tpm'.pcrs) /\ tpm'.pcrs[log'[i].at] = log'[i].event
                          /\ \A j \in Logged : i < j => log'[i].at < log'[j].at
    BY <2>3 DEF InOrder
  <2>5. x => /\ log'[n].at \in 1 .. Len(tpm'.pcrs) /\ tpm'.pcrs[log'[n].at] = log'[n].event
             /\ \A i \in Logged : log'[i].at < log'[n].at
    <3>1. \A i \in Logged : log'[i].at = log[i].at /\ log[i].at \in 1 .. Len(tpm.pcrs)
      BY <2>3 DEF InOrder
    <3>2. \A k \in 1 .. Len(tpm.pcrs) : k # Len(tpm.pcrs) => k < Len(tpm.pcrs)
      BY <1>1
    <3>3. x => \A i \in Logged : log'[i].at < Len(tpm.pcrs)
      BY <3>1, <3>2
    <3>4. x => Len(tpm.pcrs) \in 1 .. Len(tpm.pcrs)
      BY <1>1
    <3> QED
      BY <2>1, <3>3, <3>4
  <2>6. \A i \in Logged : ~(n < i)
    BY <2>1, <2>3
  <2> HIDE DEF n
  <2>7. SUFFICES ASSUME NEW i \in Logged'
                 PROVE  /\ log'[i].at \in 1 .. Len(tpm'.pcrs) /\ tpm'.pcrs[log'[i].at] = log'[i].event
                        /\ \A j \in Logged' : i < j => log'[i].at < log'[j].at
    BY DEF InOrder
  <2>8. n \in Nat
    BY <2>1 DEF n
  <2> QED
    BY <2>2, <2>4, <2>5, <2>6, <2>8
<1> QED
  BY <1>2, <1>3

LEMMA LogOrderStep ==
    ASSUME TpmInv, LogOrder, Next
    PROVE  LogOrder'
<1> SUFFICES ASSUME Trusted' PROVE InOrder' /\ LastIsNew'
  BY DEF LogOrder
<1> USE DEF TpmInv
<1>1. CASE (DevExecute \/ TransmitStep) /\ UNCHANGED tcgVars
  <2>1. Trusted
    BY <1>1, DeviceSteps DEF Trusted, TpmTypeOK
  <2>2. InOrder /\ LastIsNew
    BY <2>1 DEF LogOrder
  <2>3. InOrder'
    <3>1. ~ResetStep \/ log' = <<>>
      BY DEF ResetStep
    <3>2. CASE ResetStep
      BY <3>2 DEF ResetStep, InOrder, Logged
    <3>3. CASE ~ResetStep
      BY <1>1, <2>2, <3>3, PcrsSteps, InOrderKept DEF tcgVars
    <3> QED
      BY <3>2, <3>3
  <2>4. LastIsNew'
    <3> SUFFICES ASSUME DoneExtend' PROVE LastIsNew'
      BY DEF LastIsNew
    <3>1. Done' /\ tx'.cmd.ord = "Extend"
      BY DEF DoneExtend
    <3>2. tx'.cmd = tx.cmd /\ log' = log
      BY <3>1, DoneSteps DEF tcgVars
    <3>3. Logged' = Logged
      BY <3>2 DEF Logged
    <3>4. CASE Done /\ tpm' = tpm
      BY <2>2, <3>1, <3>2, <3>3, <3>4 DEF LastIsNew, DoneExtend
    <3>5. CASE tpm' = Executed(tx.cmd) /\ tx.cmd \in Cmds
      <4>1. tpm'.pcrs = Append(tpm.pcrs, tx.cmd.event)
        BY <3>1, <3>2, <3>5, ExecutedEffect DEF TpmTypeOK
      <4>2. tpm.pcrs \in Seq(Events) /\ Len(tpm.pcrs) \in Nat
        BY DEF TpmTypeOK, TpmKept
      <4>3. Len(tpm'.pcrs) = Len(tpm.pcrs) + 1 /\ tpm'.pcrs[Len(tpm.pcrs) + 1] = tx.cmd.event
        BY <4>1, <4>2
      <4>4. \A i \in Logged : log[i].at # Len(tpm.pcrs) + 1
        BY <2>2, <4>2 DEF InOrder
      <4> QED
        BY <3>2, <3>3, <4>2, <4>3, <4>4 DEF LastIsNew
    <3> QED
      BY <3>1, <3>4, <3>5, DoneSteps
  <2> QED
    BY <2>3, <2>4
<1>2. CASE TcgStep
  <2>1. ~DoneExtend'
    BY <1>2, TcgSteps, IdleShape DEF SendStep, RestStep, ResetStep, DoneExtend, Done
  <2>2. InOrder'
    <3>1. CASE ResetStep
      BY <3>1 DEF ResetStep, InOrder, Logged
    <3>2. CASE ~ResetStep /\ pc = "setup"
      <4>1. log = <<>> /\ tx.st # "end"
        BY <3>2 DEF Shape, Quiet
      <4>2. TpmSetup
        BY <1>2, <3>2, <4>1 DEF TcgStep, Ended, Idle, SetFailure, Measure, Extended, Measured, TpmStartup,
           Tpm12Startup, AssertPresence, Tpm20Startup, OptionRom, PrepBoot, PrepBootAnswer, Boot, Suspend,
           Resume, HashLogExtend, HashLogExtended, HashLogEvent, PassThrough, PassedThrough,
           ShutdownInterface, Call, Menu, MenuState, MenuKey, MenuStep, Reset
      <4>3. log' = <<>>
        BY <4>1, <4>2 DEF TpmSetup
      <4> QED
        BY <4>3 DEF InOrder, Logged
    <3>3. CASE ~ResetStep /\ pc # "setup"
      <4>1. /\ faults' = faults /\ drv' = drv /\ tpm'.pcrs = tpm.pcrs
        BY <1>2, <3>3, TcgSteps DEF SendStep, RestStep
      <4>2. InOrder /\ LastIsNew
        BY <4>1 DEF LogOrder, Trusted
      <4>3. CASE log' = log
        BY <4>1, <4>2, <4>3, InOrderKept
      <4>4. CASE \E e \in Events : LogEvent(e, FALSE)
        BY <4>1, <4>2, <4>4, InOrderAdded
      <4>5. CASE /\ pc \in {"extend", "guest"} /\ tx.st = "end" /\ Ok /\ Head(meas) \in Events
                 /\ LogEvent(Head(meas), TRUE)
        <5>1. tx.own
          BY <3>3, <4>1, <4>5 DEF AnswersMatch, Trusted, TpmTypeOK
        <5>2. DoneExtend /\ tx.cmd.event = Head(meas)
          BY <4>5, <5>1, CmdOrds DEF DoneExtend, Done, Ok, CmdOf
        <5> QED
          BY <4>1, <4>2, <4>5, <5>2, InOrderAdded DEF LastIsNew
      <4> QED
        BY <1>2, <3>3, <4>3, <4>4, <4>5, LogSteps
    <3> QED
      BY <3>1, <3>2, <3>3
  <2> QED
    BY <2>1, <2>2 DEF LastIsNew
<1> QED
  BY <1>1, <1>2, Steps

\* What is in the log stays there, and an event that fits is put there.
LEMMA InLogAdded ==
    ASSUME TpmTypeOK, NEW e \in Events, NEW x \in BOOLEAN, LogEvent(e, x)
    PROVE  /\ \A k : InLog(k) => InLog(k)'
           /\ x /\ Fits(e) => \E i \in Logged' : log'[i].at = Len(tpm.pcrs)
<1>1. CASE ~Fits(e)
  <2>1. log' = log
    BY <1>1, LogAppends
  <2> QED
    BY <1>1, <2>1 DEF InLog, Logged
<1>2. CASE Fits(e)
  <2>1. /\ Len(log) \in Nat /\ DOMAIN log = 1 .. Len(log) /\ DOMAIN log' = 1 .. (Len(log) + 1)
        /\ \A i \in DOMAIN log : log'[i] = log[i]
        /\ log'[Len(log) + 1] = [event |-> e, extended |-> x, at |-> Len(tpm.pcrs)]
    BY <1>2, LogAppends
  <2>2. \A i \in Logged : i \in Logged' /\ log'[i] = log[i]
    BY <2>1 DEF Logged
  <2>3. log'[Len(log) + 1].extended = x /\ log'[Len(log) + 1].at = Len(tpm.pcrs)
    BY <2>1
  <2>4. x => Len(log) + 1 \in Logged'
    BY <2>1, <2>3 DEF Logged
  <2> QED
    BY <2>2, <2>3, <2>4 DEF InLog
<1> QED
  BY <1>1, <1>2

LEMMA LogWholeStep ==
    ASSUME TpmInv, Effect, LogWhole, Next
    PROVE  LogWhole'
<1> SUFFICES ASSUME Undisturbed', ~ResetStep, NEW k \in 1 .. Len(tpm'.pcrs)
             PROVE  InLog(k)' \/ (k = Len(tpm'.pcrs) /\ DoneExtend')
  BY DEF LogWhole, ResetStep
<1> USE DEF TpmInv
<1>0. /\ tpm.pcrs \in Seq(Events) /\ Len(tpm.pcrs) \in Nat /\ next \in Nat /\ faults \in Nat
      /\ mach.area \in Nat
  BY TpmAssumption DEF TpmTypeOK, TpmKept
<1>1. ~InPcrs(Raw)
  BY PcrsKept DEF Undisturbed
<1>2. CASE (DevExecute \/ TransmitStep) /\ UNCHANGED tcgVars
  <2>1. faults = 0 /\ faults' = faults
    BY <1>0, <1>2, DeviceSteps DEF Undisturbed
  <2>2. Undisturbed
    BY <1>1, <1>2, <2>1 DEF Undisturbed, tcgVars
  <2>3. InLog(k)' = InLog(k)
    BY <1>2 DEF InLog, Logged, tcgVars
  <2>4. Done => dev.st # "exec"
    BY DEF Done, Holds
  <2>5. CASE tpm'.pcrs = tpm.pcrs
    <3>1. DoneExtend => DoneExtend'
      BY <1>0, <1>2, <2>1, <2>4, DeviceSteps DEF DoneExtend, Done
    <3> QED
      BY <2>2, <2>3, <2>5, <3>1 DEF LogWhole
  <2>6. CASE tpm'.pcrs # tpm.pcrs
    <3>1. /\ dev.st = "exec" /\ dev.cmd.ord = "Extend" /\ dev.cmd.event \in Events
          /\ tpm'.pcrs = Append(tpm.pcrs, dev.cmd.event)
          /\ tx' = tx /\ dev'.st = "done" /\ dev'.own = dev.own /\ dev'.ans = "ok"
      BY <2>6, PcrsSteps
    <3>2. tx.st = "wait" /\ dev.own /\ dev.cmd = tx.cmd
      BY <2>1, <3>1 DEF Holds
    <3>3. DoneExtend'
      BY <3>1, <3>2 DEF DoneExtend, Done
    <3>4. k = Len(tpm'.pcrs) \/ k \in 1 .. Len(tpm.pcrs)
      BY <1>0, <3>1
    <3>5. k \in 1 .. Len(tpm.pcrs) => InLog(k)
      BY <2>2, <2>4, <3>1 DEF LogWhole, DoneExtend
    <3> QED
      BY <2>3, <3>3, <3>4, <3>5
  <2> QED
    BY <2>5, <2>6
<1>3. CASE TcgStep
  <2>1. faults' = faults /\ tpm'.pcrs = tpm.pcrs /\ tx.st \in {"idle", "end"}
    BY <1>3, TcgSteps DEF SendStep, RestStep
  <2>2. pc # "setup"
    BY <2>1 DEF Shape
  <2>3. DoneExtend => pc \in {"extend", "guest"} /\ tx.st = "end" /\ Ok
    <3>1. pc # "pass" \/ ~DoneExtend
      BY <1>1, CmdOrds DEF CmdOf, Effect, DoneExtend
    <3> QED
      BY <2>1, <3>1 DEF CmdOf, DoneExtend, Done, Ok
  <2>4. CASE UNCHANGED <<log, next, mach>> /\ working /\ ~DoneExtend
    <3>1. Undisturbed
      BY <1>1, <2>1, <2>4 DEF Undisturbed
    <3>2. InLog(k)
      BY <2>1, <2>4, <3>1 DEF LogWhole
    <3> QED
      BY <2>4, <3>2 DEF InLog, Logged
  <2>5. ASSUME NEW e \in Events, NEW x \in BOOLEAN, mach' = mach, working' = working, LogEvent(e, x),
               DoneExtend => x
        PROVE  InLog(k)'
    <3>1. Size(e) \in {1, 2}
      BY DEF Size
    <3>7. next' = next \/ next' = next + Size(e)
      BY <2>5 DEF LogEvent
    <3>3. next' < mach.area - 1 /\ working /\ faults = 0
      BY <2>1, <2>5 DEF Undisturbed
    <3>4. Undisturbed
      BY <1>0, <1>1, <3>1, <3>3, <3>7 DEF Undisturbed
    <3>5. Fits(e)
      <4>1. next < mach.area - 1
        BY <3>4 DEF Undisturbed
      <4> QED
        BY <1>0, <3>1, <4>1 DEF Fits
    <3>6. InLog(k) \/ (k = Len(tpm.pcrs) /\ x)
      <4>1. k \in 1 .. Len(tpm.pcrs)
        BY <2>1
      <4>2. InLog(k) \/ (k = Len(tpm.pcrs) /\ DoneExtend)
        BY <3>4, <4>1 DEF LogWhole
      <4> QED
        BY <2>5, <4>2
    <3> QED
      BY <2>5, <3>5, <3>6, InLogAdded DEF InLog
  <2>6. working'
    BY DEF Undisturbed
  <2>7. \/ UNCHANGED <<log, next, mach>> /\ working /\ ~DoneExtend
        \/ \E e \in Events, x \in BOOLEAN :
             mach' = mach /\ working' = working /\ LogEvent(e, x) /\ (DoneExtend => x)
    BY <1>3, <2>2, <2>3, <2>6, LogSteps DEF DoneExtend
  <2> QED
    BY <2>4, <2>5, <2>7
<1> QED
  BY <1>2, <1>3, Steps

\* What the log needs
LogInv == TpmInv /\ Effect /\ LogInArea /\ LogOrder /\ LogWhole

LEMMA LogInvInit == Init => LogInv
<1> SUFFICES ASSUME Init PROVE Effect /\ LogInArea /\ LogOrder /\ LogWhole
  BY TpmInvInit DEF LogInv
<1>1. ~Done
  BY IdleShape DEF Init, Done
<1>2. LogInArea
  BY TpmAssumption DEF Init, LogInArea
<1>3. tpm.pcrs = <<>> /\ log = <<>>
  BY DEF Init
<1>4. InOrder /\ LastIsNew
  BY <1>1, <1>3 DEF InOrder, LastIsNew, DoneExtend, Logged
<1> QED
  BY <1>1, <1>2, <1>3, <1>4 DEF Effect, LogOrder, LogWhole

LEMMA LogInvStep ==
    ASSUME LogInv, [Next]_tpmVars
    PROVE  LogInv'
<1> USE DEF LogInv
<1>1. CASE Next
  BY <1>1, TpmInvStep, EffectStep, LogInAreaStep, LogOrderStep, LogWholeStep
<1>2. CASE UNCHANGED tpmVars
  <2>1. TpmInv'
    BY TpmInvStep
  <2>2. UNCHANGED <<drv, tx, dev, tpm, faults, mach, working, log, next>>
    BY <1>2 DEF tpmVars, devVars, tcgVars
  <2>3. Done' = Done /\ Logged' = Logged /\ InPcrs(Raw)' = InPcrs(Raw) /\ DoneExtend' = DoneExtend
    BY <2>2 DEF Done, Logged, InPcrs, DoneExtend
  <2>4. Effect' /\ LogInArea'
    BY <2>2, <2>3 DEF Effect, LogInArea, InPcrs
  <2>5. InOrder' = InOrder /\ LastIsNew' = LastIsNew
    BY <2>2, <2>3 DEF InOrder, LastIsNew
  <2>6. LogOrder'
    BY <2>2, <2>5 DEF LogOrder, Trusted
  <2>7. LogWhole'
    BY <2>2, <2>3 DEF LogWhole, Undisturbed, InLog
  <2> QED
    BY <2>1, <2>4, <2>6, <2>7
<1> QED
  BY <1>1, <1>2

\* The log of the ACPI tables stays in its area and replays: what it says was extended
\* is in the PCRs in that order, and without a fault, a command of the guest's own or a
\* full log nothing else is (tpm_log_event after tpm_log_extend_event and hash_log_extend).
THEOREM TheLogReplays == TpmSpec => []LogReplays
<1>1. LogInv => LogReplays
  <2> SUFFICES ASSUME LogInv PROVE LogReplays
    OBVIOUS
  <2>1. pc \in {"idle", "measure"} => ~DoneExtend
    BY DEF LogInv, TpmInv, Shape, Quiet, DoneExtend, Done
  <2>2. Undisturbed /\ pc \in {"idle", "measure"} => \A k \in 1 .. Len(tpm.pcrs) : InLog(k)
    BY <2>1 DEF LogInv, LogWhole
  <2>3. Trusted => InOrder
    BY DEF LogInv, LogOrder
  <2> QED
    BY <2>2, <2>3 DEF LogInv, LogInArea, LogReplays, InLog, Undisturbed, InOrder, Trusted
<1> QED
  BY <1>1, LogInvInit, LogInvStep, PTL DEF TpmSpec

-----------------------------------------------------------------------------
\* Whether there are measurements changes only where tpm_setup is under way.
LEMMA MeasuringSteps ==
    ASSUME TpmInv, TcgStep, Measuring'
    PROVE  Measuring \/ pc \in {"setup", "startup"}
<1> USE DEF TpmInv, hwSame, Ended, Idle, Measuring, HasDigest
<1>1. CASE SetFailure
  BY <1>1 DEF SetFailure
<1>2. CASE Measure
  BY <1>2 DEF Measure
<1>3. CASE Extended
  BY <1>3 DEF Extended
<1>4. CASE Measured
  BY <1>4 DEF Measured, Codes
<1>5. CASE TpmSetup
  BY <1>5 DEF TpmSetup, HwProbe, TisVersion
<1>6. CASE TpmStartup
  BY <1>6 DEF TpmStartup
<1>7. CASE Tpm12Startup
  BY <1>7 DEF Tpm12Startup, Following12
<1>8. CASE AssertPresence
  BY <1>8 DEF AssertPresence
<1>9. CASE Tpm20Startup
  BY <1>9 DEF Tpm20Startup
<1>10. CASE OptionRom
  BY <1>10 DEF OptionRom, Begin
<1>11. CASE PrepBoot
  BY <1>11 DEF PrepBoot
<1>12. CASE PrepBootAnswer
  BY <1>12 DEF PrepBootAnswer, Tpm20Prepboot
<1>13. CASE Boot
  BY <1>13 DEF Boot, Begin
<1>14. CASE Suspend
  BY <1>14 DEF Suspend
<1>15. CASE Resume
  BY <1>15 DEF Resume
<1>16. CASE HashLogExtend
  BY <1>16 DEF HashLogExtend, Call
<1>17. CASE HashLogExtended
  BY <1>17 DEF HashLogExtended
<1>18. CASE HashLogEvent
  BY <1>18 DEF HashLogEvent, Call
<1>19. CASE PassThrough
  BY <1>19 DEF PassThrough, Call
<1>20. CASE PassedThrough
  BY <1>20 DEF PassedThrough
<1>21. CASE ShutdownInterface
  BY <1>21 DEF ShutdownInterface, Call
<1>22. CASE Menu
  BY <1>22 DEF Menu
<1>23. CASE MenuState
  BY <1>23 DEF MenuState
<1>24. CASE MenuKey
  BY <1>24 DEF MenuKey
<1>25. CASE MenuStep
  BY <1>25 DEF MenuStep
<1>26. CASE Reset
  BY <1>26 DEF Reset, Restarted, Fresh
<1> QED
  BY <1>1, <1>2, <1>3, <1>4, <1>5, <1>6, <1>7, <1>8, <1>9, <1>10, <1>11, <1>12, <1>13, <1>14, <1>15, <1>16,
     <1>17, <1>18, <1>19, <1>20, <1>21, <1>22, <1>23, <1>24, <1>25, <1>26 DEF TcgStep

\* What a command that was left behind may still do when a function goes on.
LEMMA StrayingTcg ==
    ASSUME TpmInv, Straying, TcgStep, Strayed', Measuring'
    PROVE  Excused'
<1> USE DEF TpmInv, hwSame, Ended, Idle
<1>a. drv' = drv \/ pc = "setup"
  BY TcgSteps DEF SendStep, RestStep, ResetStep, Strayed
<1>b. pc # "setup" /\ drv = "crb" /\ dev'.st = dev.st /\ dev.st # "idle" /\ Strayed
  BY <1>a, TcgSteps, IdleShape DEF SendStep, RestStep, ResetStep, Strayed, Shape, Quiet
<1>c. ver = "2.0" /\ (tx.st = "end" => tx.res = "fail")
  BY <1>b DEF Shape, Holds
<1>d. \/ phase = "guest"
      \/ pc \in {"key", "cfg", "cmd", "failure"}
      \/ tx.st = "end" /\ pc \in {"startup", "extend", "prepboot"}
      \/ pc \in {"measure", "extend"} /\ meas # <<>> /\ Head(meas) \in Firsts
  <2>1. CASE Measuring
    BY <1>b, <2>1 DEF Straying, Excused
  <2>2. CASE ~Measuring
    <3>1. pc = "startup" /\ tx.st # "idle"
      <4>1. pc = "startup"
        BY <1>b, <2>2, MeasuringSteps
      <4> QED
        BY <4>1 DEF Shape, Quiet
    <3>2. tx.st = "end"
      BY <1>b, <3>1, TcgSteps, IdleShape DEF SendStep, RestStep, ResetStep
    <3> QED
      BY <3>1, <3>2
  <2> QED
    BY <2>1, <2>2
<1>e. /\ AddBcv # <<>> /\ Head(AddBcv) \in Firsts
      /\ AddCdrom # <<>> /\ Head(AddCdrom) \in Firsts
  BY DEF AddBcv, AddCdrom, Firsts
<1>f. /\ \A c, p : Send(c, p) => pc' = p
      /\ \A p : Return(p) => pc' = p
      /\ Fail => pc' = "failure"
      /\ pc \in Quiet => tx.st = "idle"
  BY SendShape, ReturnShape, FailSends DEF Shape
<1>g. ~Ok \/ tx.st # "end"
  BY <1>c DEF Ok
<1>0. /\ ver = "2.0" /\ pc # "setup" /\ dev.st # "idle" /\ dev'.st = dev.st
      /\ pc \in {"presence", "again", "state", "menu"} => FALSE
  BY <1>b, <1>c DEF Shape
<1>1. CASE SetFailure
  BY <1>d, <1>f, <1>1 DEF SetFailure, Measuring, Excused
<1>2. CASE Measure
  BY <1>d, <1>f, <1>2 DEF Measure, Measuring, HasDigest, Quiet, Excused
<1>3. CASE Extended
  <2>1. pc' = "failure"
    BY <1>f, <1>g, <1>3 DEF Extended
  <2> QED
    BY <2>1 DEF Excused
<1>4. CASE Measured
  BY <1>c, <1>d, <1>e, <1>f, <1>g, <1>0, <1>4 DEF Measured, Codes, Quiet, Excused
<1>5. CASE TpmSetup
  BY <1>c, <1>d, <1>e, <1>f, <1>g, <1>0, <1>5 DEF TpmSetup, HwProbe, TisVersion, Quiet, Excused
<1>6. CASE TpmStartup
  BY <1>c, <1>d, <1>e, <1>f, <1>g, <1>0, <1>6 DEF TpmStartup, Quiet, Excused
<1>7. CASE Tpm12Startup
  BY <1>c, <1>d, <1>e, <1>f, <1>g, <1>0, <1>7 DEF Tpm12Startup, Following12, Quiet, Excused
<1>8. CASE AssertPresence
  BY <1>c, <1>d, <1>e, <1>f, <1>g, <1>0, <1>8 DEF AssertPresence, Quiet, Excused
<1>9. CASE Tpm20Startup
  BY <1>c, <1>d, <1>e, <1>f, <1>g, <1>0, <1>9 DEF Tpm20Startup, Quiet, Excused
<1>10. CASE OptionRom
  BY <1>c, <1>d, <1>e, <1>f, <1>g, <1>0, <1>10 DEF OptionRom, Begin, Quiet, Excused
<1>11. CASE PrepBoot
  BY <1>c, <1>d, <1>e, <1>f, <1>g, <1>0, <1>11 DEF PrepBoot, Quiet, Excused
<1>12. CASE PrepBootAnswer
  BY <1>c, <1>d, <1>e, <1>f, <1>g, <1>0, <1>12 DEF PrepBootAnswer, Tpm20Prepboot, Quiet, Excused
<1>13. CASE Boot
  BY <1>c, <1>d, <1>e, <1>f, <1>g, <1>0, <1>13 DEF Boot, Begin, Quiet, Excused
<1>14. CASE Suspend
  BY <1>0, <1>14, IdleShape DEF Suspend
<1>15. CASE Resume
  BY <1>c, <1>d, <1>e, <1>f, <1>g, <1>0, <1>15 DEF Resume, Quiet, Excused
<1>16. CASE HashLogExtend
  BY <1>c, <1>d, <1>e, <1>f, <1>g, <1>0, <1>16 DEF HashLogExtend, Call, Quiet, Excused
<1>17. CASE HashLogExtended
  BY <1>c, <1>d, <1>e, <1>f, <1>g, <1>0, <1>17 DEF HashLogExtended, Quiet, Excused
<1>18. CASE HashLogEvent
  BY <1>c, <1>d, <1>e, <1>f, <1>g, <1>0, <1>18 DEF HashLogEvent, Call, Quiet, Excused
<1>19. CASE PassThrough
  BY <1>c, <1>d, <1>e, <1>f, <1>g, <1>0, <1>19 DEF PassThrough, Call, Quiet, Excused
<1>20. CASE PassedThrough
  BY <1>c, <1>d, <1>e, <1>f, <1>g, <1>0, <1>20 DEF PassedThrough, Quiet, Excused
<1>21. CASE ShutdownInterface
  BY <1>c, <1>d, <1>e, <1>f, <1>g, <1>0, <1>21 DEF ShutdownInterface, Call, Quiet, Excused
<1>22. CASE Menu
  BY <1>c, <1>d, <1>e, <1>f, <1>g, <1>0, <1>22 DEF Menu, Quiet, Excused
<1>23. CASE MenuState
  BY <1>c, <1>d, <1>e, <1>f, <1>g, <1>0, <1>23 DEF MenuState, Quiet, Excused
<1>24. CASE MenuKey
  BY <1>c, <1>d, <1>e, <1>f, <1>g, <1>0, <1>24 DEF MenuKey, Quiet, Excused
<1>25. CASE MenuStep
  BY <1>c, <1>d, <1>e, <1>f, <1>g, <1>0, <1>25 DEF MenuStep, Quiet, Excused
<1>26. CASE Reset
  BY <1>0, <1>26, IdleShape DEF Reset, Restarted
<1> QED
  BY <1>1, <1>2, <1>3, <1>4, <1>5, <1>6, <1>7, <1>8, <1>9, <1>10, <1>11, <1>12, <1>13, <1>14, <1>15, <1>16,
     <1>17, <1>18, <1>19, <1>20, <1>21, <1>22, <1>23, <1>24, <1>25, <1>26 DEF TcgStep

LEMMA StrayingStep ==
    ASSUME TpmInv, Straying, Next
    PROVE  Straying'
<1> SUFFICES ASSUME Strayed', Measuring'
             PROVE  Excused'
  BY DEF Straying
<1> USE DEF TpmInv
<1>1. CASE (DevExecute \/ TransmitStep) /\ UNCHANGED tcgVars
  <2>1. /\ phase' = phase /\ pc' = pc /\ meas' = meas /\ Measuring /\ drv' = drv /\ ver' = ver /\ drv = "crb"
        /\ ver = "2.0"
    BY <1>1, DeviceSteps DEF tcgVars, Measuring, HasDigest, Strayed, Shape
  <2>2. \/ Strayed /\ (tx.st = "end" => tx'.st = "end" /\ tx'.res = tx.res)
        \/ tx.st # "idle" /\ tx'.st = "end" /\ tx'.res = "fail"
    BY <1>1, <2>1, DeviceSteps, IdleShape DEF Strayed, Holds
  <2>3. tx.st # "idle" => pc \in Sending
    BY DEF Shape, TpmTypeOK
  <2>4. CASE tx.st # "idle" /\ tx'.st = "end" /\ tx'.res = "fail"
    BY <2>1, <2>3, <2>4 DEF Shape, Sending, Excused
  <2>5. CASE Strayed /\ (tx.st = "end" => tx'.st = "end" /\ tx'.res = tx.res)
    BY <2>1, <2>5 DEF Straying, Excused
  <2> QED
    BY <2>2, <2>4, <2>5
<1>2. CASE TcgStep
  BY <1>2, StrayingTcg
<1> QED
  BY <1>1, <1>2, Steps

\* tpm_prepboot's list has every separator.
LEMMA BootEventsHas == \A p \in 0 .. 7 : p + 2 \in 1 .. Len(BootEvents) /\ BootEvents[p + 2] = Separator(p)
<1> DEFINE seps == [p \in 1 .. 8 |-> Event(p - 1, "separator")]
<1>1. seps \in Seq({seps[p] : p \in 1 .. 8}) /\ Len(seps) = 8
  OBVIOUS
<1> SUFFICES ASSUME NEW p \in 0 .. 7
             PROVE  p + 2 \in 1 .. Len(BootEvents) /\ BootEvents[p + 2] = Separator(p)
  OBVIOUS
<1>2. seps[p + 1] = Separator(p) /\ p + 1 \in 1 .. 8
  BY DEF Separator
<1>3. BootEvents = <<Event(4, "int19")>> \o seps
  BY DEF BootEvents
<1> HIDE DEF seps
<1>4. p + 2 \in 1 .. Len(BootEvents) /\ BootEvents[p + 2] = seps[p + 1]
  BY <1>1, <1>2, <1>3
<1> QED
  BY <1>2, <1>4

LEMMA BeforeRunTcg ==
    ASSUME TpmInv, Effect, Straying, BeforeRun, TcgStep, ~ResetStep, Measuring', phase # "setup"
    PROVE  RanMeasured' /\ CodeMeasured' /\ BootMeasured' /\ BootClosed' /\ GuestMeasured'
<1> USE DEF TpmInv, hwSame, Ended, Idle
<1>0. phase # "setup" /\ pc \notin {"setup", "start", "startup", "presence", "again"}
  BY DEF Shape
<1>m. Measuring
  BY <1>0, MeasuringSteps
<1>a. RanMeasured /\ CodeMeasured /\ BootMeasured /\ BootClosed /\ GuestMeasured
  BY <1>m DEF BeforeRun
<1>b. (\A e : InPcrs(e)' = InPcrs(e)) /\ tpm'.auth = tpm.auth
  BY TcgSteps DEF SendStep, RestStep, InPcrs
<1>c. meas' = meas => \A e : InMeas(e)' = InMeas(e)
  BY DEF InMeas
<1>k. /\ UNCHANGED <<ver, phase, meas, code, ran>> /\ pc \notin {"prepboot", "failure"}
      => RanMeasured' /\ CodeMeasured' /\ BootMeasured' /\ BootClosed' /\ GuestMeasured'
  BY <1>a, <1>b, <1>c DEF RanMeasured, CodeMeasured, BootMeasured, BootClosed, GuestMeasured, Sure, Crit, Separator
<1>f. pc' = "failure" /\ UNCHANGED <<ver, phase, code, ran>>
      => RanMeasured' /\ CodeMeasured' /\ BootMeasured' /\ BootClosed' /\ GuestMeasured'
  BY <1>a, <1>b DEF RanMeasured, CodeMeasured, BootMeasured, BootClosed, GuestMeasured, Crit, Separator
<1>o. (\A p \in 0 .. 7 : Separator(p) \notin Firsts) /\ (code # "none" => Crit(code) \notin Firsts)
  BY DEF Separator, Crit, Firsts, Event, TpmTypeOK, Codes
<1>1f. /\ \A c, p : Send(c, p) => pc' = p
       /\ \A p : Return(p) => pc' = p
       /\ Fail => pc' = "failure"
  BY SendShape, ReturnShape, FailSends
<1>1. CASE SetFailure
  <2>1. CASE working' # FALSE
    <3>1. Send(HierarchyControl("O"), "failure")
      BY <1>1, <2>1 DEF SetFailure
    <3>2. pc' = "failure" /\ UNCHANGED <<ver, phase, code, ran>>
      BY <1>1f, <1>1, <3>1 DEF SetFailure
    <3> QED
      BY <1>f, <3>2
  <2>2. CASE working' = FALSE
    BY <2>2 DEF Measuring
  <2> QED
    BY <2>1, <2>2
<1>2. CASE Measure
  BY <1>1f, <1>k, <1>m, <1>2 DEF Measure, Measuring
<1>3. CASE Extended
  <2>1. UNCHANGED <<ver, phase, code, ran>> /\ pc = "extend" /\ meas' = Tail(meas) /\ tx.st = "end"
    BY <1>3 DEF Extended
  <2>2. CASE ~Ok
    <3>1. pc' = "failure"
      BY <1>1f, <1>3, <2>2 DEF Extended
    <3> QED
      BY <1>f, <2>1, <3>1
  <2>3. CASE Ok
    <3>1. pc' = "measure"
      BY <1>1f, <1>3, <2>3 DEF Extended
    <3>2. meas # <<>> /\ meas \in Seq(Events) /\ Len(meas) \in Nat /\ Len(meas) > 0
      BY <2>1 DEF CmdOf, TpmTypeOK
    <3>3. InPcrs(Head(meas)) \/ Head(meas) \in Firsts
      <4>1. CASE tx.own
        BY <2>1, <2>3, <4>1, CmdOrds DEF Done, Ok, Effect, CmdOf
      <4>2. CASE ~tx.own
        <5>1. Strayed
          BY <2>1, <4>2 DEF AnswersMatch, Strayed
        <5>2. phase # "guest"
          BY <2>1, <3>2 DEF Shape
        <5> QED
          BY <1>m, <2>1, <2>3, <5>1, <5>2 DEF Straying, Excused, Ok
      <4> QED
        BY <4>1, <4>2
    <3>4. ASSUME NEW e, Sure(e), e \notin Firsts
          PROVE  Sure(e)'
      <4>1. CASE InPcrs(e)
        BY <1>b, <4>1 DEF Sure
      <4>2. CASE InMeas(e)
        <5>1. PICK i \in 1 .. Len(meas) : meas[i] = e
          BY <4>2 DEF InMeas
        <5>2. CASE i = 1
          <6>1. Head(meas) = e
            BY <3>2, <5>1, <5>2
          <6> QED
            BY <1>b, <3>3, <3>4, <6>1 DEF Sure
        <5>3. CASE i # 1
          <6>1. i - 1 \in 1 .. Len(Tail(meas)) /\ Tail(meas)[i - 1] = e
            BY <3>2, <5>1, <5>3
          <6> QED
            BY <2>1, <6>1 DEF Sure, InMeas
        <5> QED
          BY <5>2, <5>3
      <4> QED
        BY <3>4, <4>1, <4>2 DEF Sure
    <3>5. (\A p \in 0 .. 7 : Separator(p) \notin Firsts) /\ (code # "none" => Crit(code) \notin Firsts)
      BY <1>o
    <3> QED
      BY <1>a, <1>b, <2>1, <3>1, <3>4, <3>5
         DEF RanMeasured, CodeMeasured, BootMeasured, BootClosed, GuestMeasured, Crit
  <2> QED
    BY <2>2, <2>3
<1>4. CASE Measured
  <2>1. meas = <<>> /\ pc = "measure" /\ pc' = "idle" /\ code' = "none" /\ ver' = ver /\ meas' = meas
    BY <1>1f, <1>4 DEF Measured
  <2>2. \A e : ~InMeas(e)
    BY <2>1 DEF InMeas
  <2>3. ran' = IF code = "none" THEN ran ELSE ran \cup {code}
    BY <1>4 DEF Measured
  <2>4. phase' = IF code \in {"mbr", "cdrom"} THEN "guest" ELSE phase
    BY <1>0, <1>4 DEF Measured
  <2>5. RanMeasured'
    BY <1>a, <1>b, <2>1, <2>2, <2>3 DEF RanMeasured, CodeMeasured, Sure, Crit
  <2>6. CodeMeasured'
    BY <2>1 DEF CodeMeasured
  <2>7. CASE code \in {"mbr", "cdrom"}
    <3>1. phase = "boot" /\ phase' = "guest"
      BY <2>4, <2>7 DEF Shape
    <3> QED
      BY <1>a, <1>b, <2>1, <2>2, <2>5, <2>6, <3>1
         DEF BootMeasured, BootClosed, GuestMeasured, Sure, Separator
  <2>8. CASE code \notin {"mbr", "cdrom"}
    <3>1. phase' = phase
      BY <2>4, <2>8
    <3> QED
      BY <1>a, <1>b, <2>1, <2>2, <2>5, <2>6, <3>1
         DEF BootMeasured, BootClosed, GuestMeasured, Sure, Separator
  <2> QED
    BY <2>7, <2>8
<1>5. CASE TpmSetup
  BY <1>0, <1>5 DEF TpmSetup
<1>6. CASE TpmStartup
  BY <1>0, <1>6 DEF TpmStartup
<1>7. CASE Tpm12Startup
  BY <1>0, <1>7 DEF Tpm12Startup
<1>8. CASE AssertPresence
  BY <1>0, <1>8 DEF AssertPresence
<1>9. CASE Tpm20Startup
  BY <1>0, <1>9 DEF Tpm20Startup
<1>10. CASE OptionRom
  <2>1. /\ phase = "roms" /\ phase' = "roms" /\ meas' = <<Event(2, "rom")>> /\ code' = "rom" /\ UNCHANGED <<ver, ran>>
    BY <1>10 DEF OptionRom, Begin
  <2>2. 1 \in 1 .. Len(meas') /\ meas'[1] = Event(2, "rom")
    BY <2>1
  <2>3. InMeas(Crit("rom"))'
    BY <2>2 DEF InMeas, Crit
  <2> QED
    BY <1>a, <1>b, <2>1, <2>3 DEF RanMeasured, CodeMeasured, BootMeasured, BootClosed, GuestMeasured, Sure, Crit
<1>11. CASE PrepBoot
  <2>1. /\ phase' = "boot" /\ meas' = BootEvents /\ code' = "none" /\ UNCHANGED <<ver, ran>>
        /\ ver = "2.0" => pc' = "prepboot"
    BY <1>1f, <1>11 DEF PrepBoot, Shape
  <2>2. \A p \in 0 .. 7 : p + 2 \in 1 .. Len(BootEvents) /\ BootEvents[p + 2] = Separator(p)
    BY BootEventsHas
  <2>3. \A p \in 0 .. 7 : InMeas(Separator(p))'
    BY <2>1, <2>2 DEF InMeas, Separator
  <2> QED
    BY <1>a, <1>b, <2>1, <2>3 DEF RanMeasured, CodeMeasured, BootMeasured, BootClosed, GuestMeasured, Sure, Separator
<1>12. CASE PrepBootAnswer
  <2>1. UNCHANGED <<ver, phase, meas, code, ran>> /\ pc = "prepboot" /\ tx.st = "end" /\ code = "none"
    BY <1>12 DEF PrepBootAnswer, Shape
  <2>2. CASE pc' = "failure"
    BY <1>f, <2>1, <2>2
  <2>3. CASE pc' # "failure"
    <3>1. ver = "2.0" => Ok /\ (tx.cmd.ord = "HierarchyChangeAuth" \/ pc' = "prepboot")
      BY <1>1f, <1>12, <2>1, <2>3 DEF PrepBootAnswer, Tpm20Prepboot, CmdOf
    <3>2. ver = "2.0" /\ phase = "boot" /\ pc' # "prepboot" => tpm.auth # "empty"
      <4> SUFFICES ASSUME ver = "2.0", phase = "boot", pc' # "prepboot"
                   PROVE  tpm.auth # "empty"
        OBVIOUS
      <4>1. tx.own
        BY <1>m, <2>1, <3>1 DEF AnswersMatch, Strayed, Straying, Excused, Ok
      <4> QED
        BY <2>1, <3>1, <4>1 DEF Done, Ok, Effect
    <3> QED
      BY <1>a, <1>b, <1>c, <2>1, <2>3, <3>2 DEF RanMeasured, CodeMeasured, BootMeasured, BootClosed, GuestMeasured, Sure, Crit, Separator
  <2> QED
    BY <2>2, <2>3
<1>13. CASE Boot
  <2>1. /\ pc = "idle" /\ meas = <<>> /\ phase \in {"boot", "guest"} /\ phase' = "boot" /\ pc' = "measure"
        /\ UNCHANGED <<ver, ran>>
        /\ \/ meas' = AddBcv /\ code' = "mbr"
           \/ meas' = AddCdrom /\ code' = "cdrom"
    BY <1>13 DEF Boot, Begin, Shape
  <2>2. /\ 2 \in 1 .. Len(AddBcv) /\ AddBcv[2] = Crit("mbr")
        /\ 4 \in 1 .. Len(AddCdrom) /\ AddCdrom[4] = Crit("cdrom")
    BY DEF AddBcv, AddCdrom, Crit
  <2>3. Sure(Crit(code))'
    BY <2>1, <2>2 DEF Sure, InMeas, Crit
  <2>4. \A e : ~InMeas(e)
    BY <2>1 DEF InMeas
  <2>5. \A p \in 0 .. 7 : InPcrs(Separator(p))
    BY <1>a, <2>1, <2>4 DEF BootMeasured, GuestMeasured, Sure
  <2>6. ver = "2.0" => tpm.auth # "empty"
    BY <1>a, <2>1 DEF BootClosed, GuestMeasured
  <2> QED
    BY <1>a, <1>b, <2>1, <2>3, <2>5, <2>6
       DEF RanMeasured, CodeMeasured, BootMeasured, BootClosed, GuestMeasured, Sure, Crit, Separator
<1>14. CASE Suspend
  BY <1>1f, <1>k, <1>14 DEF Suspend, Quiet
<1>15. CASE Resume
  BY <1>1f, <1>k, <1>15 DEF Resume, Quiet
<1>16. CASE HashLogExtend
  <2>1. UNCHANGED <<ver, phase, code, ran>> /\ phase = "guest" /\ code = "none"
    BY <1>16 DEF HashLogExtend, Call, Shape
  <2> QED
    BY <1>a, <1>b, <2>1 DEF RanMeasured, CodeMeasured, BootMeasured, BootClosed, GuestMeasured, Crit, Separator
<1>17. CASE HashLogExtended
  <2>1. UNCHANGED <<ver, phase, code, ran>> /\ phase = "guest" /\ code = "none"
    BY <1>17 DEF HashLogExtended, Call, Shape
  <2> QED
    BY <1>a, <1>b, <2>1 DEF RanMeasured, CodeMeasured, BootMeasured, BootClosed, GuestMeasured, Crit, Separator
<1>18. CASE HashLogEvent
  BY <1>1f, <1>k, <1>18 DEF HashLogEvent, Call
<1>19. CASE PassThrough
  BY <1>1f, <1>k, <1>19 DEF PassThrough, Call
<1>20. CASE PassedThrough
  BY <1>1f, <1>k, <1>20 DEF PassedThrough, Quiet
<1>21. CASE ShutdownInterface
  BY <1>1f, <1>k, <1>21 DEF ShutdownInterface, Call
<1>22. CASE Menu
  BY <1>1f, <1>k, <1>22 DEF Menu, Quiet
<1>23. CASE MenuState
  BY <1>1f, <1>k, <1>23 DEF MenuState, Quiet
<1>24. CASE MenuKey
  BY <1>1f, <1>k, <1>24 DEF MenuKey, Quiet
<1>25. CASE MenuStep
  BY <1>1f, <1>k, <1>25 DEF MenuStep, Quiet
<1>26. CASE Reset
  BY <1>26, FreshTpm DEF Reset, Restarted, ResetStep, TpmTypeOK
<1> QED
  BY <1>1, <1>2, <1>3, <1>4, <1>5, <1>6, <1>7, <1>8, <1>9, <1>10, <1>11, <1>12, <1>13, <1>14, <1>15, <1>16,
     <1>17, <1>18, <1>19, <1>20, <1>21, <1>22, <1>23, <1>24, <1>25, <1>26 DEF TcgStep

\* tpm_setup ends with its measurements.
LEMMA SetupEnds ==
    ASSUME TpmInv, TcgStep, phase = "setup", phase' # "setup"
    PROVE  phase' = "roms" /\ ran' = {} /\ code' = "none"
<1>1. ran = {} /\ code = "none" /\ pc \notin {"wake", "resume", "guest", "pass"}
  BY DEF TpmInv, Shape
<1>2. Measured
  BY DEF TcgStep, Ended, Idle, SetFailure, Measure, Extended, TpmSetup, TpmStartup,
     Tpm12Startup, AssertPresence, Tpm20Startup, OptionRom, PrepBoot, PrepBootAnswer, Boot, Begin, Suspend,
     Resume, HashLogExtend, HashLogExtended, HashLogEvent, PassThrough, PassedThrough,
     ShutdownInterface, Call, Menu, MenuState, MenuKey, MenuStep, Reset, Restarted
<1> QED
  BY <1>1, <1>2 DEF Measured

LEMMA BeforeRunStep ==
    ASSUME TpmInv, Effect, Straying, BeforeRun, Next
    PROVE  BeforeRun'
<1> SUFFICES ASSUME Measuring'
             PROVE  RanMeasured' /\ CodeMeasured' /\ BootMeasured' /\ BootClosed' /\ GuestMeasured'
  BY DEF BeforeRun
<1>1. CASE phase' = "setup"
  <2>1. ran' = {} /\ code' = "none"
    BY <1>1, TpmInvStep DEF TpmInv, Shape
  <2> QED
    BY <1>1, <2>1 DEF RanMeasured, CodeMeasured, BootMeasured, BootClosed, GuestMeasured
<1>2. CASE phase' # "setup" /\ (DevExecute \/ TransmitStep) /\ UNCHANGED tcgVars
  <2>1. UNCHANGED <<ver, phase, pc, meas, working, sel, code, ran>>
    BY <1>2, DeviceSteps DEF TpmInv, tcgVars
  <2>2. Measuring
    BY <2>1 DEF Measuring, HasDigest
  <2>3. \A e : InPcrs(e) => InPcrs(e)'
    BY <1>2, PcrsKept DEF ResetStep
  <2>4. \A e : InMeas(e)' = InMeas(e)
    BY <2>1 DEF InMeas
  <2>5. tpm.auth # "empty" => tpm'.auth # "empty"
    <3>1. tpm' = tpm \/ tpm' = Executed(dev.cmd)
      BY <1>2, DeviceSteps DEF TpmInv
    <3>2. dev.cmd \in Cmds /\ TpmKept(tpm)
      BY DEF TpmInv, TpmTypeOK, DevType
    <3> QED
      BY <3>1, <3>2, ExecutedEffect
  <2> QED
    BY <2>1, <2>2, <2>3, <2>4, <2>5
       DEF BeforeRun, RanMeasured, CodeMeasured, BootMeasured, BootClosed, GuestMeasured, Sure, Crit, Separator
<1>3. CASE phase' # "setup" /\ TcgStep /\ phase = "setup"
  <2>1. phase' = "roms" /\ ran' = {} /\ code' = "none"
    BY <1>3, SetupEnds
  <2> QED
    BY <2>1 DEF RanMeasured, CodeMeasured, BootMeasured, BootClosed, GuestMeasured
<1>4. CASE phase' # "setup" /\ TcgStep /\ phase # "setup"
  <2>1. ~ResetStep
    BY <1>4 DEF ResetStep
  <2> QED
    BY <1>4, <2>1, BeforeRunTcg
<1> QED
  BY <1>1, <1>2, <1>3, <1>4, Steps

\* What the order of measurements and code needs
RunInv == TpmInv /\ Effect /\ Straying /\ BeforeRun

LEMMA RunInvInit == Init => RunInv
<1> SUFFICES ASSUME Init PROVE Effect /\ Straying /\ BeforeRun
  BY TpmInvInit DEF RunInv
<1>1. ~Done /\ ~Measuring
  BY IdleShape DEF Init, Done, Measuring
<1> QED
  BY <1>1 DEF Effect, Straying, BeforeRun

LEMMA RunInvStep ==
    ASSUME RunInv, [Next]_tpmVars
    PROVE  RunInv'
<1> USE DEF RunInv
<1>1. CASE Next
  BY <1>1, TpmInvStep, EffectStep, StrayingStep, BeforeRunStep
<1>2. CASE UNCHANGED tpmVars
  <2>1. TpmInv'
    BY TpmInvStep
  <2>2. UNCHANGED <<ver, drv, tx, dev, tpm, phase, pc, meas, working, sel, code, ran>>
    BY <1>2 DEF tpmVars, devVars, tcgVars
  <2>3. Done' = Done /\ Measuring' = Measuring /\ Strayed' = Strayed /\ Excused' = Excused
    BY <2>2 DEF Done, Measuring, HasDigest, Strayed, Excused
  <2>4. (\A e : InPcrs(e)' = InPcrs(e)) /\ (\A e : InMeas(e)' = InMeas(e))
    BY <2>2 DEF InPcrs, InMeas
  <2>5. Effect' /\ Straying'
    BY <2>2, <2>3, <2>4 DEF Effect, Straying
  <2>6. BeforeRun'
    BY <2>2, <2>3, <2>4 DEF BeforeRun, RanMeasured, CodeMeasured, BootMeasured, BootClosed, GuestMeasured,
       Sure, Crit, Separator
  <2> QED
    BY <2>1, <2>5, <2>6
<1> QED
  BY <1>1, <1>2

\* As long as the TPM works, an option ROM, a boot sector or the image of a CD is run
\* when its measurement is in a PCR, and the guest's when the separators are in theirs
\* and, on a 2.0, the platform hierarchy has a password (tpm_option_rom, tpm_prepboot,
\* tpm_add_bcv, tpm_add_cdrom), whatever the TPM refuses or answers too late.
THEOREM IsMeasuredBeforeRun == TpmSpec => []MeasuredBeforeRun
<1>1. RunInv => MeasuredBeforeRun
  BY DEF RunInv, BeforeRun, Measuring, RanMeasured, GuestMeasured, MeasuredBeforeRun, Crit, Separator
<1> QED
  BY <1>1, RunInvInit, RunInvStep, PTL DEF TpmSpec
=============================================================================
