---------------------------- MODULE SchemaMigration ----------------------------
(***************************************************************************)
(* How the four SQLite stores are opened: RiskLedger.migrate,              *)
(* OptionEventJournal._migrate, AutonomousSessionStore._migrate and        *)
(* ReleaseLog.__init__.  A store is a set of schema objects (tables,       *)
(* columns, indexes, triggers) and a set of recorded versions.  An open    *)
(* reads the versions, then runs its statements; statements between which  *)
(* no other process and no crash can come form one transaction.            *)
(*                                                                         *)
(* External: SQLite.  Outside a transaction every statement commits alone, *)
(* and the sqlite3 driver's executescript commits the transaction it is    *)
(* called in before it runs, so the journal's BEGIN IMMEDIATE covers none  *)
(* of its statements.  A CREATE of an object that exists, an ALTER that    *)
(* adds a column that exists and an INSERT of a version that exists fail,  *)
(* and the failed open raises.                                             *)
(***************************************************************************)
EXTENDS Integers, Sequences, FiniteSets, SequencesExt

CONSTANTS
    Stores,         \* of "ledger", "journal", "session", "release"
    Processes,
    LedgerVersions, \* the versions a ledger may be found at: 0 is no file
    MaxOpens        \* bound on opens in one behaviour

VARIABLES
    schema,     \* store -> objects present
    versions,   \* store -> versions recorded
    opening,    \* process -> its open in progress
    opens

migration_vars == <<schema, versions, opening, opens>>
-----------------------------------------------------------------------------
create(o) == [op |-> "create", object |-> o]
ensure(o) == [op |-> "ensure", object |-> o]        \* CREATE ... IF NOT EXISTS
insert(v) == [op |-> "insert", object |-> v]        \* into a primary key
pragma(v) == [op |-> "pragma", object |-> v]        \* user_version

(* _MIGRATIONS: one script for each version.                               *)
Migrations ==
    << <<ensure("v1_tables"), ensure("schema_migrations")>>,
       <<create("reservations.underlying"), ensure("submissions"), ensure("submissions_idx")>>,
       <<ensure("lifecycle_intents"), ensure("lifecycle_intents_idx")>>,
       <<ensure("decision_episodes"), ensure("outcome_episodes"), ensure("broker_truth_snapshots")>>,
       <<ensure("v2_reservations"), ensure("v2_reservations_idx")>> >>

JournalScript == <<create("tables"), create("no_update"), create("no_delete")>>
SessionScript == <<ensure("sessions"), ensure("opportunities"), ensure("active_lifecycles")>>
ReleaseScript == <<ensure("releases"), ensure("revocations"), ensure("no_update")>>

(* A slip: the version is recorded before its script has run.              *)
version_first(v) == <<insert(v)>> \o Migrations[v]

(* One migration of the ledger: the script, then the version's row.        *)
migration(v) == Append(Migrations[v], insert(v))

singly(statements) == [n \in DOMAIN statements |-> <<statements[n]>>]

(* BEGIN IMMEDIATE to COMMIT                                               *)
session_transaction == <<Append(SessionScript, pragma(1))>>

(* The transactions an open runs, by the versions it read.                 *)
plan(store, seen) ==
    CASE store = "ledger" ->
            singly(FlattenSeq([v \in DOMAIN Migrations |->
                                  IF v \in seen THEN <<>> ELSE migration(v)]))
      [] store = "journal" -> IF seen # {} THEN <<>> ELSE singly(Append(JournalScript, pragma(1)))
      [] store = "session" -> IF seen # {} THEN <<>> ELSE session_transaction
      [] store = "release" -> singly(ReleaseScript)
-----------------------------------------------------------------------------
Closed == [pc |-> "closed"]
objects(statements) ==
    {statements[n].object : n \in {m \in DOMAIN statements : statements[m].op \in {"create", "ensure"}}}
ledger_at(v) == UNION {objects(Migrations[n]) : n \in 1..v}
complete(store) ==
    CASE store = "ledger" -> ledger_at(Len(Migrations))
      [] store = "journal" -> objects(JournalScript)
      [] store = "session" -> objects(SessionScript)
      [] store = "release" -> objects(ReleaseScript)

(* A store does not exist yet, or is a ledger an earlier release left.     *)
MigrationInit ==
    /\ \E v \in LedgerVersions :
          /\ schema = [s \in Stores |-> IF s = "ledger" THEN ledger_at(v) ELSE {}]
          /\ versions = [s \in Stores |-> IF s = "ledger" THEN 1..v ELSE {}]
    /\ opening = [p \in Processes |-> Closed] /\ opens = 0

(* The connection is made and the versions are read.                       *)
connect(p, store) ==
    /\ opening[p] = Closed /\ opens < MaxOpens /\ opens' = opens + 1
    /\ opening' = [opening EXCEPT ![p] =
                      [pc |-> "migrate", store |-> store, todo |-> plan(store, versions[store])]]
    /\ UNCHANGED <<schema, versions>>

fails(statement, store) ==
    \/ statement.op = "create" /\ statement.object \in schema[store]
    \/ statement.op = "insert" /\ statement.object \in versions[store]

(* One transaction of the open: all of it, or an exception and none of it. *)
migrate(p) ==
    LET me == opening[p]
        step == Head(me.todo)
        new(ops) == {step[n].object : n \in {m \in DOMAIN step : step[m].op \in ops}}
    IN  /\ me.pc = "migrate" /\ me.todo # <<>>
        /\ IF \E n \in DOMAIN step : fails(step[n], me.store)
           THEN /\ opening' = [opening EXCEPT ![p] = [pc |-> "rejected", store |-> me.store]]
                /\ UNCHANGED <<schema, versions>>
           ELSE /\ schema' = [schema EXCEPT ![me.store] = @ \cup new({"create", "ensure"})]
                /\ versions' = [versions EXCEPT ![me.store] = @ \cup new({"insert", "pragma"})]
                /\ opening' = [opening EXCEPT ![p].todo = Tail(@)]
        /\ UNCHANGED opens

opened(p) ==
    /\ opening[p].pc = "migrate" /\ opening[p].todo = <<>>
    /\ opening' = [opening EXCEPT ![p] = [pc |-> "open", store |-> opening[p].store]]
    /\ UNCHANGED <<schema, versions, opens>>

(* External: the process closes its store, or dies at any point.           *)
close(p) ==
    /\ opening[p] # Closed /\ opening' = [opening EXCEPT ![p] = Closed]
    /\ UNCHANGED <<schema, versions, opens>>

MigrationNext ==
    \E p \in Processes :
        \/ \E store \in Stores : connect(p, store)
        \/ migrate(p) \/ opened(p) \/ close(p)

MigrationSpec == MigrationInit /\ [][MigrationNext]_migration_vars
-----------------------------------------------------------------------------
(* Whoever else is opening it and wherever an earlier open died, a store   *)
(* that opens has every object of its schema: no open trusts a version     *)
(* whose script did not finish (migrate, _migrate).                        *)
OpenedIsComplete ==
    \A p \in Processes : opening[p].pc = "open" =>
        schema[opening[p].store] = complete(opening[p].store)

(* The session store and the release log always open: no interleaving of   *)
(* first opens and no earlier death makes one fail (IF NOT EXISTS, and     *)
(* _migrate's one transaction).                                            *)
StoresReopen ==
    \A p \in Processes : opening[p].pc = "rejected" => opening[p].store \notin {"session", "release"}
=============================================================================
