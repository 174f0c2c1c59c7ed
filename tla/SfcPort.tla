------------------------------- MODULE SfcPort -------------------------------
(***************************************************************************)
(* The port life cycle of the sfc net PMD                                  *)
(* (src/dpdk-17.02/drivers/net/sfc/sfc_port.c): sfc_port_init and          *)
(* sfc_port_fini allocate and free the MAC statistics buffer and its DMA   *)
(* memory; sfc_port_start takes the NIC through ten steps, any of which    *)
(* can fail, and unwinds through its goto labels; sfc_port_stop undoes a   *)
(* start; sfc_port_update_mac_stats reads the statistics.  The NIC is      *)
(* abstracted to the resources the steps take: filters initialised, port   *)
(* initialised, periodic statistics DMA running, MAC drain disabled.       *)
(* The adapter (sfc.c, not in this tree) starts the port only when it is   *)
(* initialised and stopped, stops it only when started, and finis it only  *)
(* when stopped.                                                           *)
(***************************************************************************)
EXTENDS Naturals, Sequences, FiniteSets

\* The steps of sfc_port_start in order.
StartSteps == <<"filter_init", "port_init", "mac_fcntl_set", "phy_adv_cap_set",
                "mac_pdu_set", "mac_addr_set", "set_rx_mode",
                "mac_stats_periodic", "mac_drain", "init_dev_link">>
NSteps == Len(StartSteps)
NoFail == 0

\* The resource a successful step takes, if any.
Takes(i) ==
    CASE StartSteps[i] = "filter_init"        -> {"filter"}
      [] StartSteps[i] = "port_init"          -> {"port"}
      [] StartSteps[i] = "mac_stats_periodic" -> {"periodic"}
      [] StartSteps[i] = "mac_drain"          -> {"undrained"}
      [] OTHER                                -> {}

\* Resources taken by the steps before step k.
TakenBefore(k) == UNION {Takes(i) : i \in 1..(k - 1)}

\* Mutant: fail_mac_drain sits below the efx_mac_stats_periodic(.., 0, ..).
ReleasedFromNoStatsStop(k) ==
    CASE StartSteps[k] = "init_dev_link" -> {"undrained", "port", "filter"}
      [] StartSteps[k] = "mac_drain"     -> {"port", "filter"}
      [] StartSteps[k] = "port_init"     -> {"filter"}
      [] StartSteps[k] = "filter_init"   -> {}
      [] OTHER                           -> {"port", "filter"}

(* What the cleanup below the goto label of a failure at step k releases:  *)
(* fail_port_init_dev_link drains the MAC again, fail_mac_drain stops the  *)
(* periodic statistics, the labels from fail_mac_stats_periodic to         *)
(* fail_mac_fcntl_set fini the port, fail_port_init fini the filters.      *)
ReleasedFrom(k) ==
    CASE StartSteps[k] = "init_dev_link" -> {"undrained", "periodic", "port", "filter"}
      [] StartSteps[k] = "mac_drain"     -> {"periodic", "port", "filter"}
      [] StartSteps[k] = "port_init"     -> {"filter"}
      [] StartSteps[k] = "filter_init"   -> {}
      [] OTHER                           -> {"port", "filter"}

\* efx_link_mode_t values efx_port_poll can report.
LinkModes == {"UNKNOWN", "DOWN", "10HDX", "10FDX", "100HDX", "100FDX",
              "1000HDX", "1000FDX", "10000FDX", "40000FDX"}

(* sfc_port_link_mode_to_info: down for EFX_LINK_DOWN and                 *)
(* EFX_LINK_UNKNOWN, up otherwise; speed and duplex by the mode.  A link   *)
(* that is down gets ETH_SPEED_NUM_NONE and link_duplex = 0, which is      *)
(* ETH_LINK_HALF_DUPLEX.                                                   *)
SfcPortLinkModeToInfo(m) ==
    [link_status |-> IF m \in {"DOWN", "UNKNOWN"} THEN "down" ELSE "up",
     link_speed  |-> CASE m \in {"10HDX", "10FDX"}     -> 10
                       [] m \in {"100HDX", "100FDX"}   -> 100
                       [] m \in {"1000HDX", "1000FDX"} -> 1000
                       [] m = "10000FDX"               -> 10000
                       [] m = "40000FDX"               -> 40000
                       [] OTHER                        -> 0,
     link_duplex |-> IF m \in {"10FDX", "100FDX", "1000FDX", "10000FDX", "40000FDX"}
                     THEN "full" ELSE "half"]

\* Mutant: the start keeps the port's old flag instead of copying it.
SfcRxFlagCopyStale(devFlag, portFlag, copied) == portFlag

(* Before sfc_set_rx_mode, sfc_port_start copies promiscuous and           *)
(* all_multicast from the device data into port->promisc and               *)
(* port->allmulti ((x != 0) ? B_TRUE : B_FALSE); a start that fails        *)
(* earlier leaves them as they were.                                       *)
SfcRxFlagCopy(devFlag, portFlag, copied) == IF copied THEN devFlag ELSE portFlag

(* sfc_set_rx_mode: efx_mac_filter_set(nic, promisc, B_TRUE,             *)
(* promisc || allmulti, B_TRUE).                                          *)
SfcSetRxMode(promisc, allmulti) ==
    [allUnicast |-> promisc, allMulti |-> promisc \/ allmulti]

VARIABLES
    devPromisc,    \* eth_dev->data->promiscuous
    devAllMulti,   \* eth_dev->data->all_multicast
    portPromisc,   \* port->promisc
    portAllMulti,  \* port->allmulti
    nicFilter,     \* the MAC filter mode set on the NIC
    devLink,       \* eth_dev->data->dev_link
    statsBuf,      \* port->mac_stats_buf allocated
    statsDma,      \* port->mac_stats_dma_mem allocated
    nic,           \* NIC resources the port holds
    started,       \* the adapter's port is started (sfc_port_start returned 0)
    statsRead      \* ghost: statistics were read from DMA memory since start

vars == <<devPromisc, devAllMulti, portPromisc, portAllMulti, nicFilter,
          devLink, statsBuf, statsDma, nic, started, statsRead>>
portVars == <<devPromisc, devAllMulti, portPromisc, portAllMulti, nicFilter,
              devLink>>

Init ==
    /\ devPromisc = FALSE
    /\ devAllMulti = FALSE
    /\ portPromisc = FALSE
    /\ portAllMulti = FALSE
    /\ nicFilter = [allUnicast |-> FALSE, allMulti |-> FALSE]
    /\ devLink = SfcPortLinkModeToInfo("DOWN")
    /\ statsBuf = FALSE
    /\ statsDma = FALSE
    /\ nic = {}
    /\ started = FALSE
    /\ statsRead = FALSE

\* Mutant: a failed sfc_dma_alloc does not goto the cleanup.
SfcPortInitIgnoresDmaFail(failBuf, failDma) ==
    /\ ~statsBuf /\ ~statsDma
    /\ statsBuf' = ~failBuf
    /\ statsDma' = (~failBuf /\ ~failDma)
    /\ UNCHANGED <<nic, started, statsRead>>
    /\ UNCHANGED portVars

(* sfc_port_init: allocate the statistics buffer, then the DMA memory;    *)
(* when the DMA allocation fails the buffer is freed again.               *)
SfcPortInit(failBuf, failDma) ==
    /\ ~statsBuf /\ ~statsDma
    /\ statsBuf' = (~failBuf /\ ~failDma)
    /\ statsDma' = (~failBuf /\ ~failDma)
    /\ UNCHANGED <<nic, started, statsRead>>
    /\ UNCHANGED portVars

(* sfc_port_fini: free the DMA memory and the buffer.                     *)
SfcPortFini ==
    /\ statsBuf /\ ~started
    /\ statsBuf' = FALSE
    /\ statsDma' = FALSE
    /\ UNCHANGED <<nic, started, statsRead>>
    /\ UNCHANGED portVars

(* sfc_port_start with the step at index fail failing, or none: the steps *)
(* before it take their resources and the cleanup from its label runs.    *)
(* Before set_rx_mode, port->promisc and port->allmulti are copied from   *)
(* the device data; init_dev_link stores what efx_port_poll reports.      *)
SfcPortStart(fail, mode) ==
    /\ statsBuf /\ ~started
    /\ LET reached(i) == fail = NoFail \/ i < fail
           rxIdx == 7
           linkIdx == 10
           copied == reached(rxIdx) \/ fail = rxIdx
           p == SfcRxFlagCopy(devPromisc, portPromisc, copied)
           a == SfcRxFlagCopy(devAllMulti, portAllMulti, copied)
       IN  /\ portPromisc' = p
           /\ portAllMulti' = a
           /\ nicFilter' = IF reached(rxIdx) THEN SfcSetRxMode(p, a) ELSE nicFilter
           /\ devLink' = IF reached(linkIdx) THEN SfcPortLinkModeToInfo(mode) ELSE devLink
    /\ UNCHANGED <<devPromisc, devAllMulti>>
    /\ IF fail = NoFail
       THEN /\ nic' = nic \cup TakenBefore(NSteps + 1)
            /\ started' = TRUE
       ELSE /\ nic' = (nic \cup TakenBefore(fail)) \ ReleasedFrom(fail)
            /\ UNCHANGED started
    /\ statsRead' = FALSE
    /\ UNCHANGED <<statsBuf, statsDma>>

(* sfc_port_stop: drain the MAC, stop periodic statistics, fini the port  *)
(* and the filters.                                                       *)
SfcPortStop ==
    /\ started
    /\ nic' = nic \ {"undrained", "periodic", "port", "filter"}
    /\ started' = FALSE
    /\ UNCHANGED <<statsBuf, statsDma, statsRead>>
    /\ UNCHANGED portVars

(* sfc_port_update_mac_stats: EINVAL unless the adapter is started, else  *)
(* efx_mac_stats_update reads the DMA memory into the buffer.             *)
SfcPortUpdateMacStats ==
    /\ started
    /\ statsRead' = TRUE
    /\ UNCHANGED <<statsBuf, statsDma, nic, started>>
    /\ UNCHANGED portVars

(* The application turns promiscuous or all-multicast mode on or off in    *)
(* the device data (the ethdev layer, outside this file).                  *)
SetDevRxFlags(p, a) ==
    /\ devPromisc' = p
    /\ devAllMulti' = a
    /\ UNCHANGED <<portPromisc, portAllMulti, nicFilter, devLink, statsBuf,
                   statsDma, nic, started, statsRead>>

Next ==
    \/ \E fb, fd \in BOOLEAN : SfcPortInit(fb, fd)
    \/ SfcPortFini
    \/ \E f \in {NoFail} \cup 1..NSteps, m \in LinkModes : SfcPortStart(f, m)
    \/ SfcPortStop
    \/ SfcPortUpdateMacStats
    \/ \E p, a \in BOOLEAN : SetDevRxFlags(p, a)

Spec == Init /\ [][Next]_vars

-----------------------------------------------------------------------------
(* A port that is not started holds nothing on the NIC: every failure of  *)
(* sfc_port_start unwinds exactly what the steps before it took, and       *)
(* sfc_port_stop releases all of it, across any sequence of starts.        *)
StoppedHoldsNothing == ~started => nic = {}

(* The NIC only DMAs statistics into memory the port still owns, and a    *)
(* started port is fully brought up.                                      *)
DmaTargetsLiveMemory ==
    /\ "periodic" \in nic => statsDma
    /\ started => nic = {"filter", "port", "periodic", "undrained"}

(* A successful sfc_port_start pushes to the NIC the rx mode the device  *)
(* data asks for at that moment: all unicast when promiscuous, all         *)
(* multicast when promiscuous or all-multicast, although the application   *)
(* may have changed the flags while the port was stopped, after earlier    *)
(* starts copied them into port->promisc and port->allmulti.               *)
RxModeFollowsDevice ==
    [][ (~started /\ started') =>
            nicFilter' = [allUnicast |-> devPromisc,
                          allMulti |-> devPromisc \/ devAllMulti] ]_vars

=============================================================================
