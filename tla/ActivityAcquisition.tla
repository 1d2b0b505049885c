------------------------- MODULE ActivityAcquisition -------------------------
(***************************************************************************)
(* Paginated acquisition of account activities over one exact window, its  *)
(* durable cursor, and the normalization of what was acquired              *)
(* (sourcedata/alpaca_option_events.py).                                   *)
(*                                                                         *)
(* The cursor journal is a file: appending reads it, compares its length   *)
(* with the page index and then opens it for append, so the two are steps  *)
(* of their own and several workers may interleave them.  A crash during   *)
(* the write leaves the whole line, nothing, or (Tearing) a torn one.      *)
(*                                                                         *)
(* External: the activities tool.  It answers one page in ascending order  *)
(* after the token, and may be unavailable, may forget the token, and may  *)
(* answer something that is no page.                                       *)
(*                                                                         *)
(* A raw record is what the checks tell apart: identifier, type, the set   *)
(* of defects its fields have, contract, quantity and time.  Its digest is *)
(* the record.  An entry's digest is the prefix of entries it closes, so   *)
(* the chain is: the prior field of entry n equals entry n - 1.            *)
(***************************************************************************)
EXTENDS OptionEvents, Sequences, SequencesExt

CONSTANTS
    Workers,        \* callers of acquire_account_activities
    Feeds,          \* what the account may hold: sequences of raw records
    Window,         \* <<window_start, window_end>> of the journal
    Foreign,        \* another window a caller may ask for
    PageSize, MaxPages,
    Contracts,      \* OCC symbols: symbol -> [root, right, strike]
    ForeignFeed,    \* the activities of that window
    Tearing,        \* whether a crash may tear the line being written
    Forgetful,      \* whether the tool may answer from the start
    NoToken, Torn

AcquisitionConstants ==
    /\ PageSize \in Nat \ {0} /\ MaxPages \in Nat \ {0}
    /\ Window[1] <= Window[2] /\ Foreign[1] <= Foreign[2] /\ Foreign # Window

VARIABLES
    feed,           \* external: the account's activities in the window
    file,           \* the cursor journal's lines
    job             \* what each worker is executing

acquisition_vars == <<feed, file, job>>

last_id(page) == IF page = <<>> THEN NoToken ELSE Last(page).id
-----------------------------------------------------------------------------
(* The cursor journal                                                      *)

(* The digest of entry n binds the entries before it.                      *)
entry(window, index, page, complete, prior) ==
    [window |-> window, index |-> index, page |-> page, last |-> last_id(page),
     complete |-> complete, prior |-> prior]

prior_of(lines) == IF lines = <<>> THEN <<>> ELSE <<Last(lines)>>

(* _entries raises on a line that does not parse.                          *)
readable(lines) == \A n \in DOMAIN lines : lines[n] # Torn

chain_valid(lines, window) ==
    \A n \in DOMAIN lines :
        /\ lines[n].index = n - 1
        /\ lines[n].window = window
        /\ lines[n].prior = prior_of(SubSeq(lines, 1, n - 1))

Fresh == [pages |-> <<>>, token |-> NoToken, complete |-> FALSE]

(* What a restart takes from the journal: every page, the last identifier  *)
(* any page ended with, and whether some page completed the window.        *)
resume_state(lines) ==
    LET ended == {n \in DOMAIN lines : lines[n].last # NoToken}
        done == \E n \in DOMAIN lines : lines[n].complete
    IN  [pages |-> [n \in DOMAIN lines |-> lines[n].page],
         token |-> IF done \/ ended = {} THEN NoToken ELSE lines[Max(ended)].last,
         complete |-> done]
-----------------------------------------------------------------------------
(* External: one page after a token, ascending; a source that lost the     *)
(* token answers from the start.                                           *)
activities(window) == IF window = Window THEN feed ELSE ForeignFeed

page_after(window, token) ==
    LET all == activities(window)
        from == IF \E r \in Range(all) : r.id = token
                THEN Min({n \in DOMAIN all : all[n].id = token}) ELSE 0
    IN  SubSeq(all, from + 1, Min({from + PageSize, Len(all)}))

fetch_activity_page(window, token) ==
    {page_after(window, token)} \cup (IF Forgetful THEN {page_after(window, NoToken)} ELSE {})

(* _validate_page_items and the identifier every record must carry.        *)
page_valid(page) == \A n \in DOMAIN page : "id" \notin page[n].defects

page_complete(page) == Len(page) < PageSize

budget_exhausted(fetched) == fetched >= MaxPages

Idle == [pc |-> "idle"]
at(w, pc) == job[w].pc = pc
become(w, locals) == job' = [job EXCEPT ![w] = locals]
reject(w, reason) == become(w, [pc |-> "rejected", reason |-> reason])

AcquisitionInit ==
    /\ feed \in Feeds
    /\ file = <<>>
    /\ job = [w \in Workers |-> Idle]

(* acquire_account_activities up to the loop: the journal is read once.    *)
resume(w, window) ==
    /\ job[w].pc \in {"idle", "rejected", "returned"}
    /\ IF ~readable(file) THEN reject(w, "CURSOR_CHAIN_BROKEN")
       ELSE IF ~chain_valid(file, window) THEN reject(w, "CURSOR_CHAIN_BROKEN")
       ELSE LET s == IF file = <<>> THEN Fresh ELSE resume_state(file)
            IN  become(w, [pc |-> "loop", window |-> window, pages |-> s.pages,
                           token |-> s.token, complete |-> s.complete, seen |-> {}])
    /\ UNCHANGED <<feed, file>>

(* One turn of the loop up to the append: budget, cycle, fetch.            *)
fetch(w) ==
    /\ at(w, "loop") /\ ~job[w].complete
    /\ IF budget_exhausted(Len(job[w].pages)) THEN reject(w, "PAGINATION_BUDGET_EXHAUSTED")
       ELSE IF job[w].token \in job[w].seen THEN reject(w, "PAGINATION_CYCLE")
       ELSE \/ \E page \in fetch_activity_page(job[w].window, job[w].token) :
                  IF ~page_valid(page) THEN reject(w, "INVALID_PAGE")
                  ELSE become(w, [job[w] EXCEPT !.pc = "append",
                          !.pages = Append(@, page),
                          !.seen = IF job[w].token = NoToken THEN @ ELSE @ \cup {job[w].token}])
            \/ reject(w, "SOURCE_UNAVAILABLE")
    /\ UNCHANGED <<feed, file>>

(* append_page: the journal is read again; its length must be the index.   *)
append_check(w) ==
    /\ at(w, "append")
    /\ IF ~readable(file) THEN reject(w, "CURSOR_CHAIN_BROKEN")
       ELSE IF Len(file) # Len(job[w].pages) - 1 THEN reject(w, "CURSOR_CONFLICT")
       ELSE become(w, [pc |-> "write", window |-> job[w].window, pages |-> job[w].pages,
                       token |-> job[w].token, complete |-> page_complete(Last(job[w].pages)),
                       seen |-> job[w].seen, prior |-> prior_of(file)])
    /\ UNCHANGED <<feed, file>>

written(w) ==
    entry(job[w].window, Len(job[w].pages) - 1, Last(job[w].pages), job[w].complete, job[w].prior)

(* ... and the line is appended and synced; the loop goes on from the last *)
(* identifier of the page.                                                 *)
append_write(w) ==
    /\ at(w, "write")
    /\ file' = Append(file, written(w))
    /\ become(w, [pc |-> "loop", window |-> job[w].window, pages |-> job[w].pages,
                  token |-> IF job[w].complete THEN job[w].token
                            ELSE last_id(Last(job[w].pages)),
                  complete |-> job[w].complete, seen |-> job[w].seen])
    /\ UNCHANGED feed

finish(w) ==
    /\ at(w, "loop") /\ job[w].complete
    /\ become(w, [pc |-> "returned", window |-> job[w].window, pages |-> job[w].pages])
    /\ UNCHANGED <<feed, file>>

(* A process dies; a line being written is there, absent or torn.          *)
crash(w) ==
    /\ job[w].pc \in {"loop", "append", "write"}
    /\ become(w, Idle)
    /\ \/ UNCHANGED file
       \/ at(w, "write") /\ file' = Append(file, written(w))
       \/ at(w, "write") /\ Tearing /\ file' = Append(file, Torn)
    /\ UNCHANGED feed

AcquisitionNext ==
    \E w \in Workers :
        \/ \E window \in {Window, Foreign} : resume(w, window)
        \/ fetch(w) \/ append_check(w) \/ append_write(w) \/ finish(w) \/ crash(w)

AcquisitionSpec == AcquisitionInit /\ [][AcquisitionNext]_acquisition_vars

(* A single host restarts the acquisition of its own window until it       *)
(* returns; it may be interrupted by its own death or by an outage.        *)
restarted(w) ==
    \/ resume(w, Window) /\ ~at(w, "returned")
    \/ fetch(w) \/ append_check(w) \/ append_write(w) \/ finish(w)

outage(w) == fetch(w) /\ job'[w] = [pc |-> "rejected", reason |-> "SOURCE_UNAVAILABLE"]
interrupted(w) == crash(w) \/ outage(w)

RestartedNext == \E w \in Workers : restarted(w) \/ crash(w)
-----------------------------------------------------------------------------
(* normalize_account_activities                                            *)

(* The first check a record fails.                                         *)
mapped_type(r) == r.type \in {"OPASN", "OPEXC", "OPEXP"}

defect(r, window) ==
    CASE "id" \in r.defects            -> "MALFORMED_ACTIVITY_ID"
      [] "type" \in r.defects          -> "UNKNOWN_ACTIVITY_TYPE"
      [] "unknown_field" \in r.defects -> "UNKNOWN_ACTIVITY_FIELD"
      [] "missing_field" \in r.defects -> "MISSING_ACTIVITY_FIELD"
      [] r.type = "UNKNOWN"            -> "UNKNOWN_ACTIVITY_TYPE"
      [] r.type = "OPCA"               -> "UNMAPPABLE_ACTIVITY_TYPE"
      [] r.type = "FILL"               -> "NONE"
      [] "mapped_field" \in r.defects  -> "MISSING_ACTIVITY_FIELD"
      [] "time" \in r.defects          -> "MALFORMED_TIMESTAMP"
      [] ~(window[1] <= r.at /\ r.at <= window[2]) -> "OUT_OF_WINDOW"
      [] "date" \in r.defects          -> "MALFORMED_EFFECTIVE_DATE"
      [] "symbol" \in r.defects        -> "SYMBOL_NOT_OCC"
      [] "qty" \in r.defects           -> "MALFORMED_QTY"
      [] OTHER                         -> "NONE"

kind_of(r) == CASE r.type = "OPASN" -> "ASSIGNMENT"
                [] r.type = "OPEXC" -> "EXERCISE"
                [] r.type = "OPEXP" -> "EXPIRY"

(* Shares, in lots: a long holder exercises, a short writer is assigned;   *)
(* a put flips the sign.                                                   *)
shares_of(r) ==
    LET lots == CASE r.type = "OPEXP" -> 0 [] r.type = "OPEXC" -> r.qty [] r.type = "OPASN" -> -r.qty
    IN  IF Contracts[r.symbol].right = "PUT" THEN -lots ELSE lots

normalized_event(authority, r) ==
    [id |-> r.id, kind |-> kind_of(r), status |-> "EXECUTED", symbol |-> r.symbol,
     contracts |-> r.qty, effective |-> r.date, at |-> r.at, authority |-> authority,
     underlying |-> Contracts[r.symbol].root, shares |-> shares_of(r),
     cash |-> -(shares_of(r) * Contracts[r.symbol].strike), replacement |-> NoArtifact]

NothingSeen == [events |-> {}, skipped |-> {}, manual |-> <<>>, duplicates |-> 0, seen |-> {}]

(* A slip: a record with a defect is passed over.                          *)
take_drops(authority, window, r, n) ==
    LET known == \E s \in n.seen : s.id = r.id
    IN  IF defect(r, window) # "NONE" THEN n
        ELSE IF known /\ r \notin n.seen
        THEN [n EXCEPT !.manual = Append(@, <<"DUPLICATE_ACTIVITY_CONFLICT", r>>)]
        ELSE IF known THEN [n EXCEPT !.duplicates = @ + 1]
        ELSE IF mapped_type(r)
        THEN [n EXCEPT !.seen = @ \cup {r}, !.events = @ \cup {normalized_event(authority, r)}]
        ELSE [n EXCEPT !.seen = @ \cup {r}, !.skipped = @ \cup {r.id}]

(* One record: a manual route, a conflicting or an exact duplicate, an     *)
(* event, or a known code with nothing to reconcile.                       *)
take(authority, window, r, n) ==
    LET known == \E s \in n.seen : s.id = r.id
    IN  IF defect(r, window) # "NONE"
        THEN [n EXCEPT !.manual = Append(@, <<defect(r, window), r>>)]
        ELSE IF known /\ r \notin n.seen
        THEN [n EXCEPT !.manual = Append(@, <<"DUPLICATE_ACTIVITY_CONFLICT", r>>)]
        ELSE IF known THEN [n EXCEPT !.duplicates = @ + 1]
        ELSE IF mapped_type(r)
        THEN [n EXCEPT !.seen = @ \cup {r}, !.events = @ \cup {normalized_event(authority, r)}]
        ELSE [n EXCEPT !.seen = @ \cup {r}, !.skipped = @ \cup {r.id}]

normalize_account_activities(authority, window, pages) ==
    FoldLeft(LAMBDA n, r : take(authority, window, r, n), NothingSeen, FlattenSeq(pages))

(* The coverage a complete acquisition is bound into.                      *)
build_activity_coverage(authority, window, n, observed) ==
    coverage(authority, window[1], window[2], observed, TRUE, n.events)
-----------------------------------------------------------------------------
(* Properties                                                              *)

(* Whatever was interrupted, raced or forgotten by the source, an          *)
(* acquisition that returns holds every activity of the account and        *)
(* nothing else: a complete window is never a partial one.                 *)
ReturnedIsWhole ==
    \A w \in Workers :
        at(w, "returned") => Range(FlattenSeq(job[w].pages)) = Range(activities(job[w].window))

Done(w) == at(w, "returned") /\ job[w].window = Window

(* "Nothing is ever dropped without a record": every raw record of a       *)
(* returned acquisition is an event, a skipped code, a counted duplicate   *)
(* or a manual route.                                                      *)
NothingDropped ==
    \A w \in Workers : Done(w) =>
        LET n == normalize_account_activities("A", Window, job[w].pages)
        IN  /\ Cardinality(n.events) + Cardinality(n.skipped) + Len(n.manual) + n.duplicates
                 = Len(FlattenSeq(job[w].pages))
            /\ \A r \in Range(feed) :
                  \/ \E e \in n.events : e.id = r.id
                  \/ r.id \in n.skipped
                  \/ \E m \in Range(n.manual) : m[2] = r

(* Two accounts of one activity never pass as one: as soon as records with *)
(* one identifier differ, somebody must look at it.                        *)
ConflictsAreManual ==
    \A w \in Workers : Done(w) =>
        \A r, s \in Range(feed) :
            r.id = s.id /\ r # s
            => normalize_account_activities("A", Window, job[w].pages).manual # <<>>

(* What the adapter computes for an assignment or exercise is what the     *)
(* reducer of option_events demands of the leg it names: a long vertical   *)
(* reconciled from these events is never contradictory by its economics.   *)
spread(long, short) ==
    [quantity |-> 1, long |-> long, short |-> short, right |-> Contracts[long].right,
     long_strike |-> Contracts[long].strike, short_strike |-> Contracts[short].strike]

EconomicsAgree ==
    \A w \in Workers : Done(w) =>
        \A e \in normalize_account_activities("A", Window, job[w].pages).events :
        \A long, short \in DOMAIN Contracts :
            /\ event_valid(e)
            /\ (/\ long # short /\ Contracts[long].right = Contracts[short].right
                /\ e.contracts = 1
                /\ \/ e.kind = "EXERCISE" /\ e.symbol = long
                   \/ e.kind = "ASSIGNMENT" /\ e.symbol = short)
               => event_economics_valid(spread(long, short), e)

(* Every worker's acquisition has returned.  One that is restarted after   *)
(* every crash and every outage comes to this once they cease, when the    *)
(* source keeps its tokens and no write is torn.                           *)
Returned == \A w \in Workers : at(w, "returned")
=============================================================================
