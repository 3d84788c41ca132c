----------------------------- MODULE MCSending -----------------------------
(***************************************************************************)
(* An instance of Sending: a response and the headers, two new paths of    *)
(* different delay, the faster one with less bandwidth.                    *)
(***************************************************************************)
EXTENDS Sending

MCWeight == [s \in Streams |-> IF s = 5 THEN 2 ELSE 1]
MCDelay == [p \in NewPaths |-> IF p = 1 THEN 1 ELSE 2]
MCBandwidth == [p \in NewPaths |-> IF p = 1 THEN 1 ELSE 2]
=============================================================================
