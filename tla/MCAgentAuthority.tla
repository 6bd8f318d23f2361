-------------------------- MODULE MCAgentAuthority --------------------------
(* AgentAuthority for TLC.  Agent rows and threads are interchangeable.      *)
EXTENDS AgentAuthority, FiniteSets, TLC

CONSTANTS a1, a2, r1, r2, d1, d2, none

MCAgent == {a1}
MCAgents == {a1, a2}
MCRequests == {r1, r2}
MCReader == {d1}
MCReaders == {d1, d2}

(* Behaviours with more than one kind of overlap are not extended.           *)
OneConflict == Cardinality(raced) <= 1

(* Either three permissions of one agent, or two agents and one permission.  *)
Met == {a \in Agents : status[a] # "ABSENT" \/ \E r \in Requests : a \in req[r].agents}
Small == Cardinality(Issued) <= 1 \/ Cardinality(Met) <= 1

Symmetry == Permutations(Agents) \cup Permutations(Requests)
            \cup Permutations(Readers)
=============================================================================
