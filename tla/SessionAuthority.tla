-------------------------- MODULE SessionAuthority --------------------------
(***************************************************************************)
(* What the session store promises about the life of an identifier,        *)
(* whoever asks and through whichever replica: it is stored at most once,  *)
(* it ends at most once, and once its revocation has been reported it is   *)
(* over (core.ISessionStorage: a store "must refuse to recreate a session  *)
(* the store no longer has").                                              *)
(***************************************************************************)
CONSTANT Ids
VARIABLES
    status,       \* status[id]: "unborn", "live" or "ended"
    acknowledged  \* ids whose revocation was reported as done

Init ==
    /\ status = [id \in Ids |-> "unborn"]
    /\ acknowledged = {}

Open(id) ==
    /\ status[id] = "unborn"
    /\ status' = [status EXCEPT ![id] = "live"]
    /\ UNCHANGED acknowledged

\* Expiry may end many at once.
End(gone) ==
    /\ \A id \in gone : status[id] = "live"
    /\ status' = [id \in Ids |-> IF id \in gone THEN "ended" ELSE status[id]]
    /\ UNCHANGED acknowledged

Revoke(id) ==
    /\ status[id] \in {"live", "ended"}
    /\ status' = [status EXCEPT ![id] = "ended"]
    /\ acknowledged' = acknowledged \cup {id}

Next ==
    \/ \E id \in Ids : Open(id) \/ Revoke(id)
    \/ \E gone \in SUBSET Ids : End(gone)

Spec == Init /\ [][Next]_<<status, acknowledged>>
=============================================================================
