--------------------------- MODULE OpportunityLog ---------------------------
(***************************************************************************)
(* What the autonomous session promises about each opportunity, without    *)
(* processes, windows, crashes or lifecycles: it is claimed at most once,  *)
(* and a claim is answered at most once.  The only answer that is itself   *)
(* answered is ACTIVE, which may become TERMINAL_FLAT.                     *)
(***************************************************************************)
CONSTANTS Ids           \* opportunity identities of the session

VARIABLE decision       \* the recorded state of each opportunity

Answers ==
    {"ABSTAINED", "REJECTED_BEFORE_MUTATION", "ACTIVE", "TERMINAL_FLAT",
     "MANUAL_RECONCILIATION_REQUIRED"}

LogInit == decision = [i \in Ids |-> "NONE"]

Claim(i) == decision[i] = "NONE" /\ decision' = [decision EXCEPT ![i] = "CLAIMED"]

Answer(i) ==
    /\ decision[i] = "CLAIMED"
    /\ \E d \in Answers : decision' = [decision EXCEPT ![i] = d]

Flatten(i) ==
    decision[i] = "ACTIVE" /\ decision' = [decision EXCEPT ![i] = "TERMINAL_FLAT"]

LogNext == \E i \in Ids : Claim(i) \/ Answer(i) \/ Flatten(i)

LogSpec == LogInit /\ [][LogNext]_decision
=============================================================================
