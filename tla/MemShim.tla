------------------------------ MODULE MemShim -------------------------------
(***************************************************************************)
(* spx_mem_master_shim_mock: turns a beat of the descriptor adapter's port *)
(* into one bus request and waits for its response, in the cycle of the    *)
(* request or later.  One step of ShimTick is one clock edge; its          *)
(* arguments are the wires: the beat of the port, bus_req_ready and        *)
(* bus_rsp_valid.                                                          *)
(***************************************************************************)
EXTENDS Naturals, Sequences

CONSTANTS BusAddresses, BusData

VARIABLES shim_state_q,
          req_q                \* req_we_q, req_addr_q, req_wdata_q

shimVars == <<shim_state_q, req_q>>

RequestOf(p) == [we |-> p.we, addr |-> p.addr, data |-> p.data]
NoRequest == [we |-> FALSE, addr |-> 0, data |-> 0]

BusReqValid(p) == shim_state_q = "IDLE" /\ p.valid
BusRequest(p)  == IF shim_state_q = "IDLE" THEN RequestOf(p) ELSE req_q

ReqFire(p, busReady) == BusReqValid(p) /\ busReady
RspFireIdle(p, busReady, rsp) == shim_state_q = "IDLE" /\ ReqFire(p, busReady) /\ rsp
RspFireWait(rsp) == shim_state_q = "WAIT_RSP" /\ rsp

\* In the fault a write is acknowledged when the bus takes it.
PostedWrite(p, busReady, rsp) ==
    \/ p.we /\ ReqFire(p, busReady)
    \/ p.valid /\ (RspFireIdle(p, busReady, rsp) \/ RspFireWait(rsp))
MemReady(p, busReady, rsp) ==
    p.valid /\ (RspFireIdle(p, busReady, rsp) \/ RspFireWait(rsp))

ShimInit == shim_state_q = "IDLE" /\ req_q = NoRequest

\* In the fault the shim waits although the bus has not taken the request.
WithoutReady(p, busReady, rsp) == BusReqValid(p) /\ ~rsp
WaitForResponse(p, busReady, rsp) == ReqFire(p, busReady) /\ ~rsp

ShimIdle(p, busReady, rsp) ==
    /\ shim_state_q = "IDLE"
    /\ IF WaitForResponse(p, busReady, rsp)
       THEN shim_state_q' = "WAIT_RSP" /\ req_q' = RequestOf(p)
       ELSE UNCHANGED shimVars

ShimWait(rsp) ==
    /\ shim_state_q = "WAIT_RSP"
    /\ shim_state_q' = IF rsp THEN "IDLE" ELSE "WAIT_RSP"
    /\ UNCHANGED req_q

ShimTick(p, busReady, rsp) == ShimIdle(p, busReady, rsp) \/ ShimWait(rsp)

\* rst_n low.
ShimReset == shim_state_q' = "IDLE" /\ req_q' = NoRequest

----------------------------------------------------------------------------
(***************************************************************************)
(* The shim between a port whose requester holds a beat until it is        *)
(* accepted (StallHoldsRequest shows it of the descriptor adapter) and a   *)
(* bus (external).  The bus takes requests when it likes, several if it is *)
(* offered several, and answers them in order, performing each when it     *)
(* answers it; of a write answered with an error it may have stored the    *)
(* data.  A reset reaches requester, shim and bus, as in the testbenches.  *)
(***************************************************************************)
VARIABLES mem, port, beat,     \* as in MemPort
          taken                \* requests the bus has taken, not answered

busVars == <<shimVars, mem, port, beat, taken>>

Port == INSTANCE MemPort WITH PortAddresses <- BusAddresses, PortData <- BusData, pmem <- mem

\* What the bus may answer: nothing, or done, with an error and stored or not.
Silence == [valid |-> FALSE, error |-> FALSE, stored |-> FALSE]
Answers == {[valid |-> TRUE, error |-> FALSE, stored |-> TRUE],
            [valid |-> TRUE, error |-> TRUE, stored |-> TRUE],
            [valid |-> TRUE, error |-> TRUE, stored |-> FALSE]}

BusInit ==
    /\ ShimInit
    /\ Port!PortInit
    /\ taken = <<>>

Waiting(busReady) == IF ReqFire(port, busReady) THEN Append(taken, BusRequest(port)) ELSE taken

\* mem_ready, mem_rdata and mem_error are read by the requester at this edge.
BusCycle(busReady, answer) ==
    LET requests == Waiting(busReady)
        r == Head(requests)
        accepted == MemReady(port, busReady, answer.valid)
    IN  /\ answer.valid => requests # <<>>
        /\ ShimTick(port, busReady, answer.valid)
        /\ taken' = IF answer.valid THEN Tail(requests) ELSE requests
        /\ mem' = IF answer.valid /\ r.we /\ answer.stored
                  THEN [mem EXCEPT ![r.addr] = r.data] ELSE mem
        /\ beat' = IF accepted
                   THEN Port!Answered(IF answer.valid THEN mem[r.addr] ELSE 0, answer.error)
                   ELSE beat
        /\ port' \in IF port.valid /\ ~accepted THEN {port} ELSE Port!Beats \cup {Port!NoBeat}

BusReset ==
    /\ ShimReset
    /\ port' = Port!NoBeat
    /\ taken' = <<>>
    /\ UNCHANGED <<mem, beat>>

BusTakes   == port.valid /\ shim_state_q = "IDLE" /\ \E answer \in Answers \cup {Silence} : BusCycle(TRUE, answer)
BusAnswers == taken # <<>> /\ \E busReady \in BOOLEAN, answer \in Answers : BusCycle(busReady, answer)

BusNext == \/ \E busReady \in BOOLEAN, answer \in Answers \cup {Silence} : BusCycle(busReady, answer)
           \/ BusReset

\* The bus takes a request that is held and answers what it took.
BusSpec == BusInit /\ [][BusNext]_busVars /\ WF_busVars(BusTakes) /\ WF_busVars(BusAnswers)

----------------------------------------------------------------------------
(***************************************************************************)
(* docs/phase3_5c_memory_master_shim.md: exactly one outstanding           *)
(* transaction.  While the shim waits the bus has one request of it, the   *)
(* beat still offered and still on the bus wires, and otherwise none: no   *)
(* response can answer another beat.                                       *)
(***************************************************************************)
OneOutstanding ==
    /\ taken = IF shim_state_q = "WAIT_RSP" THEN <<RequestOf(port)>> ELSE <<>>
    /\ taken # <<>> => BusRequest(port) = RequestOf(port)

(***************************************************************************)
(* Shim and bus together are the memory port the adapter is modelled with: *)
(* an accepted beat was performed once, at the moment it was accepted,     *)
(* with its own answer, and every beat that is held is accepted.           *)
(***************************************************************************)
ImplementsPort == Port!PortSpec
=============================================================================
