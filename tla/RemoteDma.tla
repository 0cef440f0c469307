------------------------------ MODULE RemoteDma ------------------------------
(***************************************************************************)
(* What Morbo promises to the other nodes of the bus: after the link came  *)
(* up, the node's memory can be reached by remote DMA.  A bus reset takes  *)
(* that away for a while, and the driver always gives it back, unless the  *)
(* node stops being a Morbo node (it started the loaded modules, or it     *)
(* exited).  Ohci.tla is shown to implement this specification.            *)
(***************************************************************************)
VARIABLE dma

DmaTypeOK == dma \in {"off", "open", "closed", "stopped"}

Init == dma = "off"

LinkUp == dma = "off"    /\ dma' = "open"
Close  == dma = "open"   /\ dma' = "closed"
Reopen == dma = "closed" /\ dma' = "open"
Stop   == dma # "stopped" /\ dma' = "stopped"

Next == LinkUp \/ Close \/ Reopen \/ Stop

(* A closed node is never left closed.                                     *)
Spec == Init /\ [][Next]_dma /\ WF_dma(Reopen)
=============================================================================
