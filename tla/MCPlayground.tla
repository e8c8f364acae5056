---------------------------- MODULE MCPlayground ----------------------------
(* Instances of Playground for TLC.                                        *)
EXTENDS Playground

\* The calls an answer may make: none, or one that needs no approval.
Reading == {{}, {"read"}}

\* None, or one that needs approval and one the page does not know.
Writing == {{}, {"write", "unknown"}}
=============================================================================
