-------------------------- MODULE ProspectiveLedger --------------------------
(***************************************************************************)
(* alpha/prospective_ledger.py: a hash-chained JSONL file that freezes a   *)
(* universe of events, takes one signal per event and records when an      *)
(* outcome was looked at.  An entry's hash covers its body and its         *)
(* predecessor's hash, so a hash is modelled by the sequence of bodies it  *)
(* covers (genesis is the empty one).  All that an open instance remembers *)
(* follows from the entries it has replayed or appended: its view.         *)
(***************************************************************************)
EXTENDS Integers, Sequences, FiniteSets, SequencesExt

CONSTANTS
    Instances,      \* processes that open the file
    Universes,      \* sets of registrations [event, sector, cutoff, close]
    Events, Times,
    Damages,        \* of "cut", "torn", "truncate", "reorder", "edit"
    MaxLines        \* bound on the length of the file

VARIABLES
    file,       \* the lines: [prior, body, digest, ended], ended: has its newline
    view,       \* instance -> the bodies it knows of, or Closed
    damaged     \* what happened to the file other than an append

ledger_vars == <<file, view, damaged>>

Closed == <<[kind |-> "CLOSED"]>>
Malformed == [kind |-> "MALFORMED"]
-----------------------------------------------------------------------------
freeze_body(universe, time) == [kind |-> "FREEZE", events |-> universe, at |-> time]
signal_body(e, direction, time) ==
    [kind |-> "SIGNAL", event |-> e, direction |-> direction, at |-> time]
inspection_body(e, time) == [kind |-> "OUTCOME_INSPECTION", event |-> e, at |-> time]

ledger_entry_sha256(prior, body) == Append(prior, body)
ledger_line(prior, body) ==
    [prior |-> prior, body |-> body, digest |-> ledger_entry_sha256(prior, body), ended |-> TRUE]

verify_ledger_bytes(lines) ==
    \A n \in DOMAIN lines :
        /\ lines[n].body # Malformed
        /\ lines[n].digest = ledger_entry_sha256(lines[n].prior, lines[n].body)
        /\ lines[n].prior = IF n = 1 THEN <<>> ELSE lines[n - 1].digest
        /\ n = 1 => lines[n].body.kind = "FREEZE"

bodies(lines) == [n \in DOMAIN lines |-> lines[n].body]
of_kind(entries, kind) == {entries[n] : n \in {m \in DOMAIN entries : entries[m].kind = kind}}
frozen(entries) == UNION {b.events : b \in of_kind(entries, "FREEZE")}
-----------------------------------------------------------------------------
ProspectiveInit ==
    file = <<>> /\ view = [p \in Instances |-> Closed] /\ damaged = {}

(* __init__ and _replay: a file that fails verification is not opened.     *)
open(p) ==
    /\ view[p] = Closed /\ verify_ledger_bytes(file)
    /\ view' = [view EXCEPT ![p] = bodies(file)]
    /\ UNCHANGED <<file, damaged>>

close(p) ==
    /\ view[p] # Closed /\ view' = [view EXCEPT ![p] = Closed]
    /\ UNCHANGED <<file, damaged>>

(* A line written behind one that has no newline makes one unparseable     *)
(* line of the two.                                                        *)
written(line) ==
    IF file # <<>> /\ ~Last(file).ended
    THEN Append(Front(file), [Last(file) EXCEPT !.body = Malformed, !.ended = TRUE])
    ELSE Append(file, line)

(* _append: the line over the instance's head, then the instance's state.  *)
append(p, body) ==
    /\ Len(file) < MaxLines
    /\ file' = written(ledger_line(view[p], body))
    /\ view' = [view EXCEPT ![p] = Append(@, body)]
    /\ UNCHANGED damaged

(* The process dies in the write: the line lost its newline, or its end.   *)
die_in_append(p, body) ==
    /\ Len(file) < MaxLines /\ view' = [view EXCEPT ![p] = Closed]
    /\ \E d \in Damages \cap {"cut", "torn"} :
          LET line == ledger_line(view[p], body)
          IN  /\ file' = written([line EXCEPT !.ended = FALSE,
                                     !.body = IF d = "torn" THEN Malformed ELSE @])
              /\ damaged' = damaged \cup {d}

records(p, body) == append(p, body) \/ die_in_append(p, body)

(* A frozen universe admits only its own replay, which appends nothing.    *)
create_freeze_entry(p) ==
    \E universe \in Universes, time \in Times :
        /\ view[p] # Closed /\ of_kind(view[p], "FREEZE") = {}
        /\ records(p, freeze_body(universe, time))

admits_signal(p, e, time) ==
    /\ \E r \in frozen(view[p]) : r.event = e /\ time <= r.close
    /\ \A b \in of_kind(view[p], "SIGNAL") \cup of_kind(view[p], "OUTCOME_INSPECTION") :
          b.event # e

append_signal(p) ==
    \E e \in Events, direction \in {"UP", "DOWN"}, time \in Times :
        view[p] # Closed /\ admits_signal(p, e, time) /\ records(p, signal_body(e, direction, time))

inspect_outcome(p) ==
    \E e \in Events, time \in Times :
        /\ view[p] # Closed /\ \E r \in frozen(view[p]) : r.event = e
        /\ records(p, inspection_body(e, time))

(* What may happen to the stored file: its end is lost, two lines change   *)
(* places, a body is altered.                                              *)
truncate ==
    /\ "truncate" \in Damages \ damaged /\ Len(file) > 1
    /\ file' = Front(file) /\ damaged' = damaged \cup {"truncate"} /\ UNCHANGED view
reorder ==
    \E n \in DOMAIN file :
        /\ "reorder" \in Damages /\ damaged = {} /\ n > 1
        /\ file' = [file EXCEPT ![n] = file[n - 1], ![n - 1] = file[n]]
        /\ damaged' = {"reorder"} /\ UNCHANGED view
edit ==
    \E n \in DOMAIN file, time \in Times :
        /\ "edit" \in Damages /\ damaged = {} /\ file[n].body.at # time
        /\ file' = [file EXCEPT ![n].body.at = time]
        /\ damaged' = {"edit"} /\ UNCHANGED view

ProspectiveNext ==
    \/ \E p \in Instances :
          \/ open(p) \/ close(p)
          \/ create_freeze_entry(p) \/ append_signal(p) \/ inspect_outcome(p)
    \/ truncate \/ reorder \/ edit

ProspectiveSpec == ProspectiveInit /\ [][ProspectiveNext]_ledger_vars
-----------------------------------------------------------------------------
entry(n) == file[n].body

(* In the file a signal for an event comes at most once, before any        *)
(* inspection of the event's outcome and inside the event's window, over   *)
(* restarts and deaths in the middle of a write (append_signal).           *)
SignalsComeFirst ==
    damaged \cap {"reorder", "edit"} = {} => \A m, n \in DOMAIN file : entry(n).kind = "SIGNAL" =>
        /\ m < n /\ entry(m).kind \in {"SIGNAL", "OUTCOME_INSPECTION"} =>
              entry(m).event # entry(n).event
        /\ entry(1).kind = "FREEZE" =>
              \E r \in entry(1).events : r.event = entry(n).event /\ entry(n).at <= r.close

(* The universe in the first line is the one every later entry and every   *)
(* instance refers to.  No operation replaces it; a death in the middle of *)
(* its write can only leave a line that no instance opens.                 *)
UniverseKept ==
    file # <<>> /\ damaged' \subseteq {"cut", "torn"} => entry(1)' \in {entry(1), Malformed}

(* An instance open alone on an undamaged file knows exactly what a        *)
(* restart would replay (_append against _replay).                         *)
RestartReplays ==
    damaged = {} => \A p \in Instances : view[p] # Closed =>
        verify_ledger_bytes(file) /\ view[p] = bodies(file)

(* Every damage but the loss of whole lines, or of the last newline, fails *)
(* verification, however many entries follow it.                           *)
DamageIsFound ==
    damaged \cap {"torn", "reorder", "edit"} # {} /\ "truncate" \notin damaged
        => ~verify_ledger_bytes(file)
=============================================================================
