------------------------------ MODULE MemPort -------------------------------
(***************************************************************************)
(* The memory port the descriptor adapter is modelled with: a beat that is *)
(* offered is accepted in one step, which performs it on memory and        *)
(* returns the data read and whether it failed.  A failed write may have   *)
(* been stored.                                                            *)
(***************************************************************************)
EXTENDS Naturals

CONSTANTS PortAddresses, PortData

VARIABLES pmem,            \* [address -> data]
          port,            \* the beat offered: [valid, we, addr, data]
          beat             \* the beat accepted last, its answer, a count mod 2

portVars == <<pmem, port, beat>>

NoBeat == [valid |-> FALSE, we |-> FALSE, addr |-> 0, data |-> 0]
Beats == [valid : {TRUE}, we : {FALSE}, addr : PortAddresses, data : {0}]
         \cup [valid : {TRUE}, we : {TRUE}, addr : PortAddresses, data : PortData]

Answered(rdata, error) ==
    [we |-> port.we, addr |-> port.addr, data |-> port.data,
     rdata |-> IF port.we THEN 0 ELSE rdata, error |-> error, count |-> 1 - beat.count]

PortInit ==
    /\ pmem \in [PortAddresses -> PortData]
    /\ port = NoBeat
    /\ beat = [we |-> FALSE, addr |-> 0, data |-> 0, rdata |-> 0, error |-> FALSE, count |-> 0]

OfferBeat ==
    /\ ~port.valid
    /\ port' \in Beats
    /\ UNCHANGED <<pmem, beat>>

After(error) ==
    IF ~port.we THEN {pmem}
    ELSE {[pmem EXCEPT ![port.addr] = port.data]} \cup (IF error THEN {pmem} ELSE {})

AcceptBeat ==
    /\ port.valid
    /\ \E error \in BOOLEAN : /\ beat' = Answered(pmem[port.addr], error)
                              /\ pmem' \in After(error)
    /\ port' \in Beats \cup {NoBeat}

\* A reset of the requester.
Withdraw == port' = NoBeat /\ UNCHANGED <<pmem, beat>>

PortNext == OfferBeat \/ AcceptBeat \/ Withdraw

PortSpec == PortInit /\ [][PortNext]_portVars /\ WF_portVars(AcceptBeat)
=============================================================================
