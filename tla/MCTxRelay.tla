----------------------------- MODULE MCTxRelay -----------------------------
(* TxRelay with up to two hosts and room for one transaction in a channel. *)
EXTENDS TxRelay

CONSTANTS p1, p2

\* Three topologies have hosts.  With p1 there are enough fills for the queue to
\* be full behind a full channel; with p2 its inbound connection closes after an
\* outbound one did; with both, one connection waits for the other.
MCTopologies == {{}, {p1}, {p2}, {p1, p2}}
FillBound ==
    [h \in MCTopologies |->
        CASE h = {} -> 3 [] h = {p1} -> 4 [] h = {p2} -> 2 [] OTHER -> 2]
CloseBound ==
    [h \in MCTopologies |-> CASE h = {} -> 0 [] h = {p2} -> 2 [] OTHER -> 1]
InboundBound == [h \in MCTopologies |-> IF h = {p2} THEN 1 ELSE 0]
=============================================================================
