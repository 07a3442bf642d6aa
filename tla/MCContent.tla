------------------------------ MODULE MCContent ------------------------------
(* Content for TLC, on the sample worlds and a row of cells all of which the *)
(* layout seed draws.                                                        *)
EXTENDS Content, MCWorldSamples

MCDrawn == 1 .. Width
=============================================================================
