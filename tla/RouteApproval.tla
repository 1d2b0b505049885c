---------------------------- MODULE RouteApproval ----------------------------
(***************************************************************************)
(* Reasoner route packages (contracts/reasoner_route.py): a descriptor, an  *)
(* owner approval receipt bound to the descriptor's bytes, the validator    *)
(* that reads both against the closed expectations of one version, the      *)
(* loader that keeps the object of the shipped pair, and the host adapters  *)
(* (strategy/host_route.py) that accept that object and no other.           *)
(*                                                                          *)
(* A document is a record of its checked fields; its digest is the record   *)
(* itself.  Fields that the validator compares with one frozen value and    *)
(* nothing else reads share a field here.                                   *)
(***************************************************************************)
EXTENDS Integers, Sequences, SequencesExt

CONSTANTS
    Versions,     \* packaged versions, 1 being the frozen V1 route
    Spec(_),      \* _RouteSpec of a version
    MaxEdits,     \* bound on edits to the documents a caller supplies
    MaxObjects,   \* bound on validated objects made in one process
    MaxDeploys,   \* bound on packages changed on disk
    Nil

VARIABLES
    packaged,     \* the document pair shipped for each version
    cache,        \* lru_cache of each version's loader
    supplied,     \* the pair a caller holds
    result,       \* the object, or the reason code, a validation returned last
    adapter,      \* the host adapter built last, or Nil
    objects,      \* objects made so far: object identity
    edits,
    deploys

vars == <<packaged, cache, supplied, result, adapter, objects, edits, deploys>>

States == {"PENDING", "APPROVED", "REVOKED"}

-----------------------------------------------------------------------------
(* The documents.                                                           *)

\* The descriptor a version's spec describes.
Descriptor(v) ==
    [wellformed |-> TRUE, version |-> v, route_id |-> Spec(v).route_id,
     identity |-> Spec(v).identity, policy |-> Spec(v).policy, decoding |-> Spec(v).caller,
     effective |-> Spec(v).effective, wire |-> Spec(v).wire, tokens |-> Spec(v).tokens,
     calls |-> 1, retries |-> 0, authority |-> FALSE, arguments |-> "EMPTY",
     ceiling |-> Spec(v).tokens, purchase |-> FALSE]

\* _direct_route_model_config_sha256: what the model digest covers.
model_config(d) == <<d.identity, d.decoding, d.effective, d.wire, d.tokens, d.version>>

\* The approval receipt for descriptor d in the given state.
Receipt(d, state) ==
    [wellformed |-> TRUE, version |-> d.version, approval |-> Spec(d.version).approval,
     ceiling |-> d.ceiling, route_sha256 |-> d, model_config_sha256 |-> model_config(d),
     identity |-> d.identity, state |-> state, approver |-> "owner"]

-----------------------------------------------------------------------------
(* The validator: its checks in order, each with the reason it rejects by.  *)

\* _provider_request_policy_from: every wire setting equals the frozen one.
_provider_request_policy_from(d, v) ==
    d.wire = Spec(v).wire /\ d.tokens = Spec(v).tokens /\ d.effective = Spec(v).effective

\* _decode and _strict_object: exactly the frozen fields, each of them once.
_strict_object(document) == document.wellformed

DescriptorChecks(d, v) ==
    << <<_strict_object(d), "INVALID_DOCUMENT">>,
       <<d.version = v, "UNSUPPORTED_SCHEMA">>,
       <<d.route_id = Spec(v).route_id /\ d.identity = Spec(v).identity, "IDENTITY_MISMATCH">>,
       <<d.policy = Spec(v).policy /\ d.decoding = Spec(v).caller, "POLICY_MISMATCH">>,
       <<_provider_request_policy_from(d, v), "POLICY_MISMATCH">>,
       <<d.calls = 1 /\ d.retries = 0, "POLICY_MISMATCH">>,
       <<~d.authority, "AUTHORITY_VIOLATION">>,
       <<d.arguments # "SECRET", "SECRET_ARGUMENT">>,
       <<d.arguments = "EMPTY", "AUTHORITY_VIOLATION">>,
       <<d.ceiling = d.tokens, "POLICY_MISMATCH">>,
       <<~d.purchase, "AUTHORITY_VIOLATION">> >>

ReceiptChecks(d, r, v) ==
    << <<_strict_object(r), "INVALID_DOCUMENT">>,
       <<r.version = v, "UNSUPPORTED_SCHEMA">>,
       <<r.approval = Spec(v).approval, "IDENTITY_MISMATCH">>,
       <<r.ceiling = d.ceiling, "IDENTITY_MISMATCH">>,
       <<r.route_sha256 = d, "HASH_MISMATCH">>,
       <<r.model_config_sha256 = model_config(d), "HASH_MISMATCH">>,
       <<r.identity = d.identity, "IDENTITY_MISMATCH">>,
       <<r.state # "REVOKED", "APPROVAL_REVOKED">>,
       <<r.state = "APPROVED" => r.approver # Nil, "APPROVAL_MISSING">> >>

\* _compatibility: the caller's decoding is what the provider will really use.
_compatibility(d) == d.decoding = d.effective

\* _validate_reasoner_route: the first check that fails, or an object.
Rejection(checks) ==
    LET failed == SelectInSeq(checks, LAMBDA c : ~c[1])
    IN  IF failed = 0 THEN Nil ELSE checks[failed][2]

_validate_reasoner_route(d, r, v) ==
    LET reason == Rejection(DescriptorChecks(d, v) \o ReceiptChecks(d, r, v))
    IN  IF reason # Nil THEN [ok |-> FALSE, reason |-> reason]
        ELSE [ok |-> TRUE, version |-> v, descriptor |-> d, receipt |-> r, object |-> objects + 1,
              rebuilt |-> FALSE, compatible |-> _compatibility(d),
              evaluation_eligible |-> r.state = "APPROVED" /\ _compatibility(d)]

-----------------------------------------------------------------------------
(* Loading.                                                                 *)

\* load_approved_reasoner_route_vN under lru_cache: validate the shipped pair
\* once, then hand out the same object; a rejection is raised and not kept.
Loaded(v) == IF cache[v] # Nil THEN cache[v]
             ELSE _validate_reasoner_route(packaged[v].descriptor, packaged[v].receipt, v)

Keep(v, obj) ==
    /\ cache' = IF obj.ok THEN [cache EXCEPT ![v] = obj] ELSE cache
    /\ objects' = IF obj.ok THEN objects + (IF cache[v] = Nil THEN 1 ELSE 0) ELSE objects

Load(v) ==
    /\ objects < MaxObjects
    /\ result' = Loaded(v)
    /\ Keep(v, Loaded(v))
    /\ UNCHANGED <<packaged, supplied, adapter, edits, deploys>>

\* validate_reasoner_route: V1 checks the supplied pair; the later versions
\* accept only the shipped bytes, and then return the loader's object.
Validate(v) ==
    /\ objects < MaxObjects
    /\ LET pair == supplied
           obj == IF v = 1 THEN _validate_reasoner_route(pair.descriptor, pair.receipt, 1)
                  ELSE IF pair # packaged[v] THEN [ok |-> FALSE, reason |-> "HASH_MISMATCH"]
                  ELSE Loaded(v)
       IN  /\ result' = obj
           /\ IF v = 1 THEN objects' = (IF obj.ok THEN objects + 1 ELSE objects) /\ UNCHANGED cache
              ELSE IF pair = packaged[v] THEN Keep(v, obj)
              ELSE UNCHANGED <<cache, objects>>
    /\ UNCHANGED <<packaged, supplied, adapter, edits, deploys>>

\* ValidatedRoute is public data: a caller can build one field by field.
Rebuild(v, state) ==
    /\ objects < MaxObjects
    /\ result' = [ok |-> TRUE, version |-> v, descriptor |-> Descriptor(v),
                  receipt |-> Receipt(Descriptor(v), state), object |-> objects + 1,
                  rebuilt |-> TRUE, compatible |-> TRUE, evaluation_eligible |-> TRUE]
    /\ objects' = objects + 1
    /\ UNCHANGED <<packaged, cache, supplied, adapter, edits, deploys>>

\* A slip: equal fields are enough.
RouteAcceptedByFields(route, v) ==
    /\ route.ok
    /\ route.evaluation_eligible
    /\ route.compatible
    /\ Loaded(v).ok
    /\ route.descriptor = Loaded(v).descriptor /\ route.receipt = Loaded(v).receipt

\* The constructors of the host adapters: an eligible, compatible route, and
\* the very object the lane's own loader returns (which may load it now).
\* V1 and V2 share the Kimi adapter.
RouteAccepted(route, v) ==
    /\ route.ok
    /\ route.evaluation_eligible
    /\ route.compatible
    /\ Loaded(v).ok
    /\ route = Loaded(v)

BuildAdapter(v) ==
    /\ result # Nil
    /\ objects < MaxObjects
    /\ result.ok
    /\ adapter' = IF RouteAccepted(result, v) THEN [lane |-> v, route |-> result] ELSE Nil
    /\ IF result.evaluation_eligible /\ result.compatible THEN Keep(v, Loaded(v))
                                                          ELSE UNCHANGED <<cache, objects>>
    /\ UNCHANGED <<packaged, supplied, result, edits, deploys>>

-----------------------------------------------------------------------------
(* Callers, deployments and restarts.                                       *)

\* A caller takes a shipped pair as its starting point.
Supply(v) ==
    /\ supplied' = packaged[v]
    /\ UNCHANGED <<packaged, cache, result, adapter, objects, edits, deploys>>

\* The values a field takes in some version's documents, and one in none.
Values(f) == {Descriptor(v)[f] : v \in Versions} \cup {Nil}
DescriptorFields == DOMAIN Descriptor(1) \ {"wellformed", "authority", "purchase"}

EditDescriptor ==
    /\ edits < MaxEdits
    /\ edits' = edits + 1
    /\ \/ \E f \in DescriptorFields : \E x \in Values(f) :
            supplied' = [supplied EXCEPT !.descriptor[f] = x]
       \/ \E f \in {"wellformed", "authority", "purchase"} :
            supplied' = [supplied EXCEPT !.descriptor[f] = ~@]
    /\ UNCHANGED <<packaged, cache, result, adapter, objects, deploys>>

\* An author who binds the receipt again to the edited descriptor.
RebindReceipt ==
    /\ LET d == supplied.descriptor IN
       supplied' = [supplied EXCEPT !.receipt.route_sha256 = d, !.receipt.ceiling = d.ceiling,
                                    !.receipt.identity = d.identity,
                                    !.receipt.model_config_sha256 = model_config(d)]
    /\ UNCHANGED <<packaged, cache, result, adapter, objects, edits, deploys>>

EditReceipt ==
    /\ edits < MaxEdits
    /\ edits' = edits + 1
    /\ \/ \E s \in States : supplied' = [supplied EXCEPT !.receipt.state = s]
       \/ supplied' = [supplied EXCEPT !.receipt.approver = Nil]
       \/ supplied' = [supplied EXCEPT !.receipt.approval = Nil]
       \/ supplied' = [supplied EXCEPT !.receipt.version = Nil]
       \/ supplied' = [supplied EXCEPT !.receipt.wellformed = FALSE]
    /\ UNCHANGED <<packaged, cache, result, adapter, objects, deploys>>

\* A release replaces one version's receipt on disk, under a live process.
Deploy(v, state) ==
    /\ deploys < MaxDeploys
    /\ deploys' = deploys + 1
    /\ packaged' = [packaged EXCEPT ![v].receipt.state = state]
    /\ UNCHANGED <<cache, supplied, result, adapter, objects, edits>>

Restart ==
    /\ cache' = [v \in Versions |-> Nil]
    /\ result' = Nil
    /\ adapter' = Nil
    /\ objects' = 0
    /\ UNCHANGED <<packaged, supplied, edits, deploys>>

-----------------------------------------------------------------------------
Init ==
    /\ packaged = [v \in Versions |-> [descriptor |-> Descriptor(v),
                                       receipt |-> Receipt(Descriptor(v), "APPROVED")]]
    /\ supplied = packaged[1]
    /\ cache = [v \in Versions |-> Nil]
    /\ result = Nil
    /\ adapter = Nil
    /\ objects = 0
    /\ edits = 0
    /\ deploys = 0

Next ==
    \/ \E v \in Versions : Load(v) \/ Validate(v) \/ BuildAdapter(v) \/ Supply(v)
    \/ \E v \in Versions, s \in States : Rebuild(v, s) \/ Deploy(v, s)
    \/ EditDescriptor
    \/ EditReceipt
    \/ RebindReceipt
    \/ Restart

RouteSpec == Init /\ [][Next]_vars

-----------------------------------------------------------------------------
(* Properties.                                                              *)

\* No edit of the V1 pair, its receipt bound again or not, ever validates to an
\* eligible route: the frozen caller decoding and the provider's effective one
\* are both pinned and differ.
V1NeverEligible ==
    \A route \in {cache[1], result} \ {Nil} :
        route.ok => \/ route.rebuilt
                    \/ route.version = 1 => ~route.evaluation_eligible

\* An adapter holds the object its own lane loaded from the shipped pair, so a
\* field-by-field copy, a look-alike pair and another lane's route are refused;
\* and the pair it was loaded from was approved, bound byte for byte, one call,
\* no retry and no authority.
AdapterIsShipped ==
    adapter # Nil =>
        LET d == adapter.route.descriptor
            r == adapter.route.receipt
        IN  /\ adapter.route = cache[adapter.lane]
            /\ adapter.lane # 1
            /\ r.route_sha256 = d /\ r.state = "APPROVED" /\ r.approver # Nil
            /\ d = Descriptor(adapter.lane)

\* Whatever pair a caller supplies, an object handed back for it was checked
\* against that version's spec: its receipt names its exact descriptor and the
\* provider settings are the frozen ones.
ValidatedIsBound ==
    result # Nil /\ result.ok =>
        /\ result.receipt.route_sha256 = result.descriptor
        /\ result.descriptor.wire = Spec(result.version).wire
=============================================================================
