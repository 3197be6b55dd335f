----------------------------- MODULE ScalperDay -----------------------------
(***************************************************************************)
(* What one trading day of the put scalper promises about its records: a   *)
(* put is entered at most once, or skipped; a call may follow, once, and   *)
(* only after the put's record is closed; nothing closed is opened again.  *)
(***************************************************************************)
VARIABLES put, call      \* "none", "placed" or "exit"

Init == put = "none" /\ call = "none"

SkipPut   == put = "none" /\ put' = "exit" /\ call' = call
OpenPut   == put = "none" /\ put' = "placed" /\ call' = call
ClosePut  == put = "placed" /\ put' = "exit" /\ call' = call
OpenCall  == put = "exit" /\ call = "none" /\ call' = "placed" /\ put' = put
CloseCall == call = "placed" /\ call' = "exit" /\ put' = put

Next == SkipPut \/ OpenPut \/ ClosePut \/ OpenCall \/ CloseCall

Spec == Init /\ [][Next]_<<put, call>>
=============================================================================
