------------------------------ MODULE DpCall ------------------------------
(***************************************************************************)
(* What SendDpMessage promises its caller (dpclient.h): a call blocks, then *)
(* returns once, either with a failure or with a response; a response that  *)
(* has content is the answer to that very call.  A call is a number; calls  *)
(* start in the order of their numbers.                                     *)
(***************************************************************************)

CONSTANT Calls

VARIABLES state,  \* "new", "blocked" or "returned"
          ret,    \* "none" while the call runs, then "fail" or "ok"
          resp    \* the calls whose answers are in the response buffer

callVars == <<state, ret, resp>>

Init ==
  /\ state = [k \in Calls |-> "new"]
  /\ ret = [k \in Calls |-> "none"]
  /\ resp = [k \in Calls |-> {}]

Start(k) ==
  /\ state[k] = "new"
  /\ state' = [state EXCEPT ![k] = "blocked"]
  /\ UNCHANGED <<ret, resp>>

Fail(k) ==
  /\ state[k] = "blocked"
  /\ state' = [state EXCEPT ![k] = "returned"]
  /\ ret' = [ret EXCEPT ![k] = "fail"]
  /\ UNCHANGED resp

\* An empty response is the server's count of listeners.
Succeed(k) ==
  /\ state[k] = "blocked"
  /\ state' = [state EXCEPT ![k] = "returned"]
  /\ ret' = [ret EXCEPT ![k] = "ok"]
  /\ \E answer \in {{}, {k}} : resp' = [resp EXCEPT ![k] = answer]

Next == \E k \in Calls : Start(k) \/ Fail(k) \/ Succeed(k)

Spec == Init /\ [][Next]_callVars

\* Every call that blocks returns.
Returns == \A k \in Calls : state[k] = "blocked" ~> state[k] = "returned"
===========================================================================
