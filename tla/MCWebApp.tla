------------------------------ MODULE MCWebApp -----------------------------
(* Each page of the web client with a small server behind it.              *)
EXTENDS WebApp

CONSTANTS d1, d2, c1, c2, t1, t2, m1, k1, k2, b1, b2

\* Each device has one contact a broadcast can be sent to.
MCContactDevice == [c \in {c1, c2} |-> IF c = c1 THEN d1 ELSE d2]

\* A phone with two contacts, one of which is renamed, and one without any.
MCOnPhone == [d \in {d1, d2} |->
                {[e \in {1, 2} |-> IF d = d2 THEN "absent" ELSE IF e = 1 THEN name ELSE "found"] :
                    name \in {"found", "other"}}]

MCLowercase == [email \in {"ann", "Ann", "eve"} |-> IF email = "Ann" THEN "ann" ELSE email]
=============================================================================
