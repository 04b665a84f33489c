----------------------- MODULE MCBookSnapshotPublisher -----------------------
(***************************************************************************)
(* One reader, one subscriber that may stall, and connections whose        *)
(* buffers hold one frame, so that a second frame nobody reads already     *)
(* blocks.  Two symbols make a torn copy possible; a stall needs only one. *)
(***************************************************************************)
EXTENDS BookSnapshotPublisher

CONSTANTS symA, symB, r1, x1

MCSymbols  == {symA, symB}
MCOneSymbol == {symA}
MCReaders  == {r1}
MCStalled  == {x1}
=============================================================================
