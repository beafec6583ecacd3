-------------------------- MODULE MCServiceRequests --------------------------
EXTENDS ServiceRequests, TLC

Digits(n) == [kind |-> "digits", number |-> n]

\* Every number at its default, and NODE_ENV not set.
Deployed ==
  [v \in Variables |->
     IF v \in RequiredStrings THEN [kind |-> "text", number |-> 0]
     ELSE IF v = "JWT_ISSUER" THEN [kind |-> "url", number |-> 0]
     ELSE [kind |-> Unset, number |-> 0]]

\* The deployment, the same with its one field that selects the local keys
\* and small numbers, and every way to spoil one variable of it.
MCEnvironments ==
  {Deployed,
   [Deployed EXCEPT !["NODE_ENV"] = [kind |-> "development", number |-> 0],
                    !["THROTTLE_JWKS_LIMIT"] = Digits(1),
                    !["THROTTLE_COUNTER_SATURATION_FACTOR"] = Digits(1)]}
  \cup {[Deployed EXCEPT ![v] = raw] :
          v \in Numbers, raw \in {Digits(0), [kind |-> "text", number |-> 0]}}
  \cup {[Deployed EXCEPT ![v] = [kind |-> "blank", number |-> 0]] : v \in Variables}

MCPeers == {[v6 |-> TRUE, prefix |-> 1, host |-> 1]}
MCHeaders == {<<>>, <<[v6 |-> FALSE, prefix |-> 2, host |-> 1]>>}
InstanceSymmetry == Permutations(Instances)
=============================================================================
