------------------------- MODULE ReadoutRefinement -------------------------
(***************************************************************************)
(* Class Readout implements ReadoutStream: a batch is the body of a        *)
(* datagram, of which the abstract specification sees the calls.           *)
(***************************************************************************)
EXTENDS Readout

CallsOf(body) == [k \in DOMAIN body |-> body[k].call]

Stream == INSTANCE ReadoutStream WITH
    Events  <- 1 .. MaxAdds,
    pending <- CallsOf(tx.packet.body),
    batches <- [i \in DOMAIN tx.wire |-> CallsOf(tx.wire[i].body)],
    open    <- Enabled(tx)

(***************************************************************************)
(* Every readout that is packed reaches the wire, as often as it was       *)
(* packed and in the order of the calls, in spite of pulse updates, full   *)
(* packets and the packets that newPacket() begins a second time           *)
(* (ReadoutClass.cpp:33-54, 132-183).  A buffered readout is dropped only  *)
(* with the network disabled.  (The call readout_newPacket, which is there *)
(* to drop what is buffered, is not among the calls of this run.)          *)
(***************************************************************************)
ImplementsStream == Stream!Spec
=============================================================================
