------------------------------- MODULE MCTpm -------------------------------
(***************************************************************************)
(* Instances of Tpm: machines with a TPM 1.2, with a 2.0 behind either     *)
(* interface, without one, on Xen, and with logs that are soon full.       *)
(***************************************************************************)
EXTENDS Tpm

Iface == [tis |-> TRUE, crb |-> FALSE, did |-> TRUE, id |-> "old", selTis |-> TRUE, selCrb |-> FALSE,
          cap3 |-> FALSE, high |-> FALSE]
Machine == [iface |-> Iface, area |-> 40, xen |-> FALSE, hashes |-> {"SHA1", "SHA256"}, cmdEnable |-> TRUE,
            hwPresence |-> FALSE, lifetimeLock |-> FALSE, disabled |-> FALSE]
Crb == [Iface EXCEPT !.id = "crb", !.crb = TRUE]

MCMachines ==
    {Machine,
     [Machine EXCEPT !.area = 13, !.cmdEnable = FALSE, !.disabled = TRUE],
     [Machine EXCEPT !.iface.cap3 = TRUE],
     [Machine EXCEPT !.iface = Crb],
     [Machine EXCEPT !.iface = [Crb EXCEPT !.id = "tis"], !.hashes = {"SHA1", "SHA3_256"}],
     [Machine EXCEPT !.iface.cap3 = TRUE, !.xen = TRUE],
     [Machine EXCEPT !.iface.tis = FALSE],
     [Machine EXCEPT !.area = 0]}
=============================================================================
