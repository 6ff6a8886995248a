----------------------------- MODULE MCLibManager -----------------------------
(* Two tasks and a library of each kind, for TLC.                            *)
EXTENDS LibManager

\* a name that vamos implements, two native ones, one made up
MixedModes == [vamos |-> "auto", native |-> "auto", other |-> "amiga", faked |-> "fake"]
\* two native libraries
NativeModes == [one |-> "amiga", two |-> "amiga"]
===============================================================================
