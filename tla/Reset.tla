------------------------------- MODULE Reset -------------------------------
(***************************************************************************)
(* The copy of SeaBIOS in the memory at 0xc0000-0xfffff from one reset to  *)
(* the next (post.c, resume.c, fw/shadow.c). POST copies the BIOS from its *)
(* flash, unlocks that memory, relocates part of the copy in place and     *)
(* locks it for the guest. A reset finds the copy as it was left: by       *)
(* HaveRunPost the BIOS tells a fresh copy from a used one, which must     *)
(* resume the guest or bring back a fresh copy and reset again. The        *)
(* machine may be reset between any two steps.                             *)
(***************************************************************************)
EXTENDS Integers

CONSTANTS
    RomEnds,    \* where roms may end and memory begin: KB from 0xc0000
    Writable    \* CONFIG_WRITABLE_UPPERMEMORY

ASSUME ResetAssumption == RomEnds \subseteq 0 .. 192 /\ RomEnds # {} /\ Writable \in BOOLEAN

VARIABLES
    kind,       \* "flash": QEMU; "alias": QEMU without a BIOS image that stays as it was;
                \* "other": Xen or coreboot, which load the BIOS anew after a reset
    where,      \* where the BIOS is; "guest" when the guest runs
    pam,        \* PAM0: what is at 0xf0000: the flash ("rom"), or memory that is "rw" or "ro"
    roms,       \* PAM1 to PAM6, 32K each: "rw", "ro", or "low": the first half is "ro"
    code,       \* the copy in memory: "none", "pristine", "patched" by the relocation,
                \* "part" while it is replaced, "broken" when relocated twice
    hrp,        \* HaveRunPost of that copy
    status,     \* CMOS_RESET_CODE: "none" (00), "jump" (05, 0a-0c), "s3" (fe) or "bad"
    reason,     \* the status handle_resume32 is called with
    wake,       \* does the FACS hold a resume vector?
    alive,      \* history: is the memory of a guest as the guest left it?
    romlast,    \* end of the last option rom
    rommax      \* start of the memory of the BIOS below 0xf0000

resetVars == <<kind, where, pam, roms, code, hrp, status, reason, wake, alive, romlast, rommax>>

Regions == 0 .. 5
Statuses == {"none", "jump", "s3", "bad"}
Unlocked == [i \in Regions |-> "rw"]
Stations == {"entry", "post", "preinit", "mark", "reloc", "main", "lock", "guest", "resume", "resume32", "s3",
           "reboot", "copy", "rest", "clear", "reset", "off", "halt"}

ResetInit ==
    /\ kind \in {"flash", "alias", "other"}
    /\ where = "entry"
    /\ pam = IF kind = "other" THEN "rw" ELSE "rom"
    /\ roms = Unlocked
    /\ code = IF kind = "flash" THEN "none" ELSE "pristine"
    /\ hrp = 0
    /\ status \in Statuses
    /\ reason = "none"
    /\ wake = FALSE
    /\ alive = FALSE
    /\ romlast = 0
    /\ rommax = 192

-----------------------------------------------------------------------------
\* entry_post looks at HaveRunPost at 0xf0000, in the flash or in the copy.
Seen == IF kind = "flash" /\ pam = "rom" THEN 0 ELSE hrp

entry_post ==
    /\ where = "entry"
    /\ where' = IF Seen = 0 THEN "post" ELSE "resume"
    /\ UNCHANGED <<kind, pam, roms, code, hrp, status, reason, wake, alive, romlast, rommax>>

\* make_bios_writable: the flash is copied if there was no memory in its place. It
\* goes on in code_mutable_preinit. Xen and coreboot have unlocked the memory.
make_bios_writable(c, h) ==
    IF kind = "other" THEN code' = c /\ hrp' = h /\ UNCHANGED <<pam, roms>>
    ELSE /\ pam' = "rw"
         /\ roms' = Unlocked
         /\ IF kind = "flash" /\ pam = "rom" THEN code' = "pristine" /\ hrp' = 0
            ELSE code' = c /\ hrp' = h

handle_post ==
    /\ where = "post"
    /\ where' = "preinit"
    /\ make_bios_writable(code, hrp)
    /\ UNCHANGED <<kind, status, reason, wake, alive, romlast, rommax>>

\* Broken variant: HaveRunPost is set before the reset code is cleared.
code_mutable_preinitSwapped ==
    /\ \/ /\ where = "preinit"
          /\ where' = IF hrp = 0 THEN "mark" ELSE "reloc"
          /\ hrp' = IF hrp = 0 THEN 1 ELSE hrp
          /\ UNCHANGED status
       \/ where = "mark" /\ where' = "reloc" /\ status' = "none" /\ UNCHANGED hrp
    /\ UNCHANGED <<kind, pam, roms, code, reason, wake, alive, romlast, rommax>>

\* code_mutable_preinit: nothing a later reset might act on is left of an earlier
\* session once HaveRunPost is set.
code_mutable_preinit ==
    /\ \/ /\ where = "preinit"
          /\ where' = IF hrp = 0 THEN "mark" ELSE "reloc"
          /\ status' = IF hrp = 0 THEN "none" ELSE status
          /\ UNCHANGED hrp
       \/ where = "mark" /\ where' = "reloc" /\ hrp' = 1 /\ UNCHANGED status
    /\ UNCHANGED <<kind, pam, roms, code, reason, wake, alive, romlast, rommax>>

\* dopost and reloc_preinit: updateRelocs adds the distance to addresses in the
\* copy, which must be those of the flash. Memory is used for other things now.
reloc_preinit ==
    /\ where = "reloc"
    /\ where' = "main"
    /\ code' = IF code = "pristine" THEN "patched" ELSE "broken"
    /\ alive' = FALSE
    /\ wake' = FALSE
    /\ UNCHANGED <<kind, pam, roms, hrp, status, reason, romlast, rommax>>

\* maininit up to its end: option roms are put in place, prepareboot sets HaveRunPost.
prepareboot ==
    /\ where = "main"
    /\ where' = "lock"
    /\ hrp' = 2
    /\ romlast' \in RomEnds /\ rommax' \in RomEnds /\ romlast' <= rommax'
    /\ UNCHANGED <<kind, pam, roms, code, status, reason, wake, alive>>

\* The loop of make_bios_readonly_intel locks regions from 0xc0000 up: whole ones,
\* and of the one where it breaks off the first half, if no memory is in it.
RomLast == IF Writable THEN romlast ELSE 192
Whole(i) == RomLast >= 32 * i + 16 /\ rommax >= 32 * i + 32
FirstHalf(i) == RomLast >= 32 * i /\ rommax >= 32 * i + 16
Locked(r) ==
    [i \in Regions |->
        IF Whole(i) THEN "ro"
        ELSE IF (i = 0 \/ Whole(i - 1)) /\ FirstHalf(i) THEN "low"
        ELSE r[i]]

make_bios_readonly ==
    IF kind = "other" THEN UNCHANGED <<pam, roms>>
    ELSE pam' = "ro" /\ roms' = Locked(roms)

\* The end of maininit: the guest is started.
boot_guest ==
    /\ where = "lock"
    /\ where' = "guest"
    /\ alive' = TRUE
    /\ make_bios_readonly
    /\ UNCHANGED <<kind, code, hrp, status, reason, wake, romlast, rommax>>

-----------------------------------------------------------------------------
\* The guest writes the reset code or the resume vector.
GuestWrites ==
    /\ where = "guest"
    /\ status' \in Statuses
    /\ wake' \in BOOLEAN
    /\ UNCHANGED <<kind, where, pam, roms, code, hrp, reason, alive, romlast, rommax>>

\* A reset, of the guest, the user or the BIOS: memory and PAM stay as they are
\* (qemu_reboot: "QEMU doesn't map 0xc0000-0xfffff back to the original rom").
HardReset ==
    /\ where # "off"
    /\ where' = "entry"
    /\ IF kind = "other" THEN code' = "pristine" /\ hrp' = 0 ELSE UNCHANGED <<code, hrp>>
    /\ UNCHANGED <<kind, pam, roms, status, reason, wake, alive, romlast, rommax>>

\* The machine is switched off and on: memory is lost, the CMOS is not.
PowerCycle ==
    /\ where' = "entry"
    /\ pam' = IF kind = "other" THEN "rw" ELSE "rom"
    /\ roms' = Unlocked
    /\ code' = IF kind = "flash" THEN "none" ELSE "pristine"
    /\ hrp' = 0
    /\ wake' = FALSE
    /\ alive' = FALSE
    /\ UNCHANGED <<kind, status, reason, romlast, rommax>>

-----------------------------------------------------------------------------
\* handle_resume: the reset code is taken and cleared. Execution goes on through
\* the vector at 40:67, or in 32bit mode; some codes are not implemented.
handle_resume ==
    /\ where = "resume"
    /\ status' = "none"
    /\ reason' = status
    /\ where' = CASE status = "bad" -> "halt" [] status = "jump" -> "guest" [] OTHER -> "resume32"
    /\ UNCHANGED <<kind, pam, roms, code, hrp, wake, alive, romlast, rommax>>

\* handle_resume32 and the start of s3_resume: find_resume_vector.
handle_resume32 ==
    /\ where = "resume32"
    /\ where' = IF reason = "s3" /\ wake THEN "s3" ELSE "reboot"
    /\ UNCHANGED <<kind, pam, roms, code, hrp, status, reason, wake, alive, romlast, rommax>>

\* The rest of s3_resume: devices are set up again, the memory is locked again.
s3_resume ==
    /\ where = "s3"
    /\ where' = "guest"
    /\ make_bios_readonly
    /\ UNCHANGED <<kind, code, hrp, status, reason, wake, alive, romlast, rommax>>

\* tryReboot and the start of qemu_reboot: without a fresh image the machine is
\* reset once, and switched off (apm_shutdown) if it comes here again.
tryReboot ==
    /\ where = "reboot"
    /\ IF kind = "other" THEN where' = "reset" /\ UNCHANGED <<pam, roms, code, hrp>>
       ELSE IF kind = "flash" THEN where' = "copy" /\ make_bios_writable(code, hrp)
       ELSE IF hrp = 3 THEN where' = "off" /\ UNCHANGED <<pam, roms, code, hrp>>
       ELSE where' = "reset" /\ make_bios_writable(code, 3)
    /\ UNCHANGED <<kind, status, reason, wake, alive, romlast, rommax>>

\* qemu_reboot copies what is below HaveRunPost, what is above it, and then clears it.
qemu_reboot ==
    /\ \/ where = "copy" /\ where' = "rest" /\ code' = "part" /\ UNCHANGED hrp
       \/ where = "rest" /\ where' = "clear" /\ code' = "pristine" /\ UNCHANGED hrp
       \/ where = "clear" /\ where' = "reset" /\ hrp' = 0 /\ UNCHANGED code
    /\ UNCHANGED <<kind, pam, roms, status, reason, wake, alive, romlast, rommax>>

\* The reset does not come: acpi_reboot, i8042_reboot and pci_reboot do nothing on
\* this board, and neither does the triple fault.
RebootFails ==
    /\ where = "reset" /\ kind = "other"
    /\ where' = "halt"
    /\ UNCHANGED <<kind, pam, roms, code, hrp, status, reason, wake, alive, romlast, rommax>>

ResetNext ==
    \/ entry_post \/ handle_post \/ code_mutable_preinit \/ reloc_preinit \/ prepareboot \/ boot_guest
    \/ GuestWrites \/ HardReset \/ PowerCycle
    \/ handle_resume \/ handle_resume32 \/ s3_resume \/ tryReboot \/ qemu_reboot \/ RebootFails

ResetSpec == ResetInit /\ [][ResetNext]_resetVars

-----------------------------------------------------------------------------
ResetType ==
    /\ kind \in {"flash", "alias", "other"}
    /\ where \in Stations
    /\ pam \in {"rom", "rw", "ro"}
    /\ roms \in [Regions -> {"rw", "ro", "low"}]
    /\ code \in {"none", "pristine", "patched", "part", "broken"}
    /\ hrp \in 0 .. 3
    /\ status \in Statuses
    /\ reason \in Statuses
    /\ wake \in BOOLEAN
    /\ alive \in BOOLEAN
    /\ romlast \in 0 .. 192 /\ rommax \in 0 .. 192 /\ romlast <= rommax

\* Is the 16K half h of region i read-only?
ReadOnly(i, h) == roms[i] = "ro" \/ (roms[i] = "low" /\ h = 0)

\* What make_bios_readonly is for: no memory the BIOS keeps below 0xf0000 is locked,
\* and every half with a part of a rom, and no such memory in it, is.
RomsLocked ==
    \A i \in Regions, h \in {0, 1} :
        /\ rommax < 32 * i + 16 * h + 16 => ~ReadOnly(i, h)
        /\ romlast > 32 * i + 16 * h /\ rommax >= 32 * i + 16 * h + 16 => ReadOnly(i, h)

\* The guest runs with its memory as it left it, on a copy that was relocated once
\* and that it cannot write to.
GuestSafe ==
    where = "guest" =>
        /\ alive /\ code = "patched" /\ hrp = 2
        /\ kind # "other" => pam = "ro" /\ RomsLocked

\* Whenever the machine is reset: POST never relocates a copy that was relocated
\* before, a resume never enters a guest that is not there, and the guest never
\* runs with the BIOS unlocked.
BiosIntact == code # "broken" /\ GuestSafe
=============================================================================
