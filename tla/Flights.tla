-------------------------------- MODULE Flights --------------------------------
(***************************************************************************)
(* What a single flight promises the requests for one key, apart from how  *)
(* they find and leave it: the key has one flight at a time, a flight gets *)
(* one result, which stays, while the key has it, and once the key has     *)
(* lost it, it never comes back.                                           *)
(***************************************************************************)
CONSTANTS Requests, None

VARIABLES current,   \* the flight of the key, named after the request that opened it
          result     \* the result of each flight, once there is one

flightsVars == <<current, result>>

FlightsInit == current = None /\ result = [r \in Requests |-> "none"]

Open(r) ==
    /\ current = None /\ result[r] = "none"
    /\ current' = r
    /\ result' = [result EXCEPT ![r] = "pending"]

Land(r, v) ==
    /\ current = r /\ result[r] = "pending"
    /\ result' = [result EXCEPT ![r] = v]
    /\ current' \in {r, None}

Close(r) ==
    /\ current = r
    /\ current' = None
    /\ UNCHANGED result

FlightsNext ==
    \E r \in Requests :
        Open(r) \/ Close(r) \/ \E v \in {"value", "error", "fatal"} : Land(r, v)

FlightsSpec == FlightsInit /\ [][FlightsNext]_flightsVars
=============================================================================
