------------------------------ MODULE MCDevice ------------------------------
(***************************************************************************)
(* Two machines that share no state, explored side by side: a behaviour is *)
(* one of the relay link or one of serial_enter_uboot.                     *)
(***************************************************************************)
EXTENDS RelayLink, UbootEntry

VARIABLE part

deviceVars == <<part, relayVars, ubootVars>>

DeviceInit ==
    /\ RelayInit /\ UbootInit
    /\ \/ part = "relay" /\ dut = "linux"
       \/ part = "uboot" /\ echoes

DeviceNext ==
    \/ part = "relay" /\ RelayNext /\ UNCHANGED <<part, ubootVars>>
    \/ part = "uboot" /\ UbootNext /\ UNCHANGED <<part, relayVars>>

\* A relay link at rest has no step to be fair to.
DeviceSpec == DeviceInit /\ [][DeviceNext]_deviceVars /\ RelayFairness

\* The variables of the two modules have their types.
DeviceTypeOK == RelayTypeOK /\ UbootTypeOK
=============================================================================
