---------------------------- MODULE MCIoMapTable ----------------------------
(***************************************************************************)
(* Finite command lines for IoMapTable: up to MaxMaps maps at addresses of *)
(* ChosenAddr, of sizes of ChosenSize (in bytes, as parsed).               *)
(***************************************************************************)
EXTENDS IoMapTable

CONSTANTS ChosenAddr, ChosenSize, MaxMaps, LoadAt, Ram

ChosenMaps ==
    UNION { [1 .. n -> [addr : ChosenAddr, size : ChosenSize]] : n \in 1 .. MaxMaps }

MCCmdlines ==
    { [is_using_mmap |-> TRUE, choosen_iomaps |-> maps, ramamnt |-> PAGE, load_at |-> l] :
        maps \in ChosenMaps, l \in LoadAt }
    \cup
    { [is_using_mmap |-> FALSE, choosen_iomaps |-> << >>, ramamnt |-> r, load_at |-> l] :
        r \in Ram, l \in LoadAt }
=============================================================================
