---- MODULE RequestFlow ----
\* What the cluster promises about a request, whatever the engine, the pools
\* and the message queues do: it is in one place at a time, a worker gives
\* every request of a step one token, a prefill worker gives only the first
\* token and passes the request on to a worker that decodes, a decode worker
\* never gives the first one, and every request gets exactly its decode length.
EXTENDS Integers

CONSTANTS Reqs, Workers, Role, DecodeLen, Source, Engine, Done

VARIABLES place, tokens

flowVars == <<place, tokens>>

Prefillers == {w \in Workers : Role[w] \in {"hybrid", "prefill"}}
Decoders   == {w \in Workers : Role[w] \in {"hybrid", "decode"}}

FlowInit ==
  /\ place = [r \in Reqs |-> Source]
  /\ tokens = [r \in Reqs |-> 0]

\* A request arrives at the engine, or at a worker in a burst.
Arrives(r) ==
  /\ place[r] = Source
  /\ \E p \in {Engine} \cup Prefillers : place' = [place EXCEPT ![r] = p]
  /\ UNCHANGED tokens

\* The engine hands it to a worker that prefills.
IsRouted(r) ==
  /\ place[r] = Engine
  /\ \E w \in Prefillers : place' = [place EXCEPT ![r] = w]
  /\ UNCHANGED tokens

\* A worker's step: one token for each request of the batch R.
Generates(w, R) ==
  /\ R # {} /\ \A r \in R : place[r] = w
  /\ \A r \in R : Role[w] = "prefill" => tokens[r] = 0
  /\ \A r \in R : Role[w] = "decode" => tokens[r] > 0
  /\ tokens' = [r \in Reqs |-> tokens[r] + IF r \in R THEN 1 ELSE 0]
  /\ LET done == {r \in R : tokens'[r] = DecodeLen[r]}
         rest == {r \in R \ done : Role[w] = "prefill"}
     IN  \E target \in [rest -> Decoders] :
           place' = [r \in Reqs |-> IF r \in done THEN Done
                                    ELSE IF r \in rest THEN target[r]
                                    ELSE place[r]]

FlowNext ==
  \/ \E r \in Reqs : Arrives(r) \/ IsRouted(r)
  \/ \E w \in Workers : \E R \in SUBSET Reqs : Generates(w, R)

FlowSpec ==
  /\ FlowInit /\ [][FlowNext]_flowVars
  /\ \A r \in Reqs : <>(place[r] = Done)
====
