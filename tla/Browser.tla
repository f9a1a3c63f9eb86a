------------------------------ MODULE Browser ------------------------------
(* What every page of the web client shares: absent values and how often   *)
(* its requests may fail.                                                  *)
EXTENDS Integers, Sequences, FiniteSets

CONSTANTS
    None,     \* null, undefined or the empty string in React state
    MaxFaults  \* bound: how many requests of a page may fail

ASSUME BrowserAssumption == MaxFaults \in Nat
=============================================================================
