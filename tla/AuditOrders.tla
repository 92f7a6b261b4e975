---------------------------- MODULE AuditOrders ----------------------------
(***************************************************************************)
(* What the queue of site audits promises the owners of projects, without  *)
(* threads, attempts, leases, crashes or retries.                          *)
(*                                                                         *)
(* An audit of a site is ordered, one at a time for each site, and stays   *)
(* open until it is delivered or refused, once.  A site may be closed,     *)
(* which withdraws its open order, and nothing is ordered for it before it *)
(* is opened again.                                                        *)
(***************************************************************************)
CONSTANTS Sites, Orders

VARIABLES
    order,  \* of each order: the site and what came of it
    closed  \* sites that are closed

orderVars == <<order, closed>>

NoOrder == [status |-> "none"]
OrderOf(s, status) == [status |-> status, site |-> s]

OrderTypeOK ==
    /\ order \in [Orders -> {NoOrder} \cup
           [status : {"open", "delivered", "refused", "withdrawn"}, site : Sites]]
    /\ closed \subseteq Sites

OrdersInit ==
    /\ order = [o \in Orders |-> NoOrder]
    /\ closed = {}

IsOpen(o, s) == order[o] = OrderOf(s, "open")

Place(o, s) ==
    /\ order[o] = NoOrder
    /\ s \notin closed
    /\ \A i \in Orders : ~IsOpen(i, s)
    /\ order' = [order EXCEPT ![o] = OrderOf(s, "open")]
    /\ UNCHANGED closed

Settle(o, s, status) ==
    /\ IsOpen(o, s)
    /\ order' = [order EXCEPT ![o] = OrderOf(s, status)]
    /\ UNCHANGED closed

Close(s) ==
    /\ closed' = closed \cup {s}
    /\ order' = [o \in Orders |->
                   IF IsOpen(o, s) THEN OrderOf(s, "withdrawn") ELSE order[o]]

OpenAgain(s) ==
    /\ closed' = closed \ {s}
    /\ UNCHANGED order

OrdersNext ==
    \E s \in Sites :
        \/ \E o \in Orders : Place(o, s)
        \/ \E o \in Orders : Settle(o, s, "delivered") \/ Settle(o, s, "refused")
        \/ Close(s)
        \/ OpenAgain(s)

OrdersSpec == OrdersInit /\ [][OrdersNext]_orderVars
=============================================================================
