-------------------------------- MODULE MCPods --------------------------------
(* Pods on a small instance: the chart's limits, a redirect URL without a   *)
(* warning and one with.                                                    *)
EXTENDS Pods

Good == [scheme |-> "https", host |-> "public", port |-> TRUE, path |-> "/oauth2/callback",
         query |-> TRUE, malformed |-> FALSE, suffix |-> ""]

SomeRedirects == {Good, [Good EXCEPT !.path = "", !.query = FALSE]}

\* The chart's paths, and the ones the program has for the purpose.
SomeLayouts ==
  {[k \in Kinds |-> "/health"],
   [liveness |-> "/health/live", readiness |-> "/health/ready"]}

ChartTimeouts == [liveness |-> 10, readiness |-> 5]
===============================================================================
