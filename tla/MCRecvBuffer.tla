---------------------------- MODULE MCRecvBuffer ----------------------------
(***************************************************************************)
(* A small instance of RecvBuffer: packets as large as a BufferSize, and   *)
(* streams long enough to go through the buffer several times.             *)
(***************************************************************************)
EXTENDS RecvBuffer

\* Nine streams of packets of 2, 3 and 4 bytes.
MixedLayouts ==
  {[k \in 0 .. MaxBytes |-> HeaderSize + ((a * k + b) % (MaxPacketSize - HeaderSize + 1))] :
     a, b \in 0 .. 2}
=============================================================================
