------------------------- MODULE ExecutionContract -------------------------
(***************************************************************************)
(* What a sandbox execution promises to the incident it belongs to, with   *)
(* workers, leases, queue and Docker left out.  An execution is decided    *)
(* once: by the policy when it is requested, or later, and then only with  *)
(* a cleanup proof on record, which must be a positive one unless the      *)
(* outcome itself reports the failure to clean up.  From then on neither   *)
(* the outcome nor the proofs change.                                      *)
(***************************************************************************)
CONSTANTS Outcomes,    \* what an execution can be decided as
          Unclean,     \* the outcomes that report a failed cleanup
          Blocked,     \* the outcomes of a request that policy refuses
          Undecided    \* the outcome of an execution that is still open

VARIABLES outcome, proofs

Init == outcome = Undecided /\ proofs = {}

Refuse ==
  /\ outcome = Undecided /\ proofs = {}
  /\ outcome' \in Blocked
  /\ UNCHANGED proofs

Prove(ok) ==
  /\ outcome = Undecided
  /\ proofs' = proofs \union {ok}
  /\ UNCHANGED outcome

Conclude ==
  /\ outcome = Undecided
  /\ proofs # {}
  /\ outcome' \in IF TRUE \in proofs THEN Outcomes ELSE Unclean
  /\ UNCHANGED proofs

Next == \/ Refuse
        \/ \E ok \in BOOLEAN : Prove(ok)
        \/ Conclude

Spec == Init /\ [][Next]_<<outcome, proofs>>
=============================================================================
