----------------------------- MODULE GrantLedger -----------------------------
(***************************************************************************)
(* What the owner of a DreamLens smart account is promised about signed    *)
(* permissions, with the database, the request threads and the agent left  *)
(* out: a permission is issued once, may end in any way, and once it has    *)
(* ended no sequence of requests brings it back.                            *)
(*                                                                          *)
(* AgentAuthority.tla implements this module.                               *)
(***************************************************************************)
CONSTANT Perms      \* the permission rows that may ever be created

VARIABLES issued,   \* permissions the owner has signed so far
          live      \* permissions that still carry authority

vars == <<issued, live>>

Init == /\ issued = {}
        /\ live = {}

(* The owner signs a new permission; whatever was live may end with it.      *)
Issue(p) == /\ p \notin issued
            /\ issued' = issued \cup {p}
            /\ live' \in SUBSET (live \cup {p})

(* Authority ends: revoked by the owner, replaced or expired.                *)
End == /\ live' \in SUBSET live
       /\ UNCHANGED issued

Next == End \/ \E p \in Perms : Issue(p)

Spec == Init /\ [][Next]_vars
=============================================================================
