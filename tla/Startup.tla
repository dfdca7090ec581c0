------------------------------ MODULE Startup ------------------------------
(***************************************************************************)
(* What a server process does to the database before it serves: it runs    *)
(* scripts/init-db.sql statement by statement, then compares the tables    *)
(* with the script and adds the columns they lack.  Several processes      *)
(* start at once, on a database that is empty or from an older release.    *)
(*                                                                         *)
(* A statement of the script commits on its own: it goes to the driver     *)
(* past SQLAlchemy's transaction, and its errors are logged.  The ALTERs   *)
(* are one transaction: the first that fails makes PostgreSQL refuse the   *)
(* rest and turn the COMMIT into a ROLLBACK, without an error.             *)
(*                                                                         *)
(* Of the columns those are kept that are treated differently.             *)
(***************************************************************************)
EXTENDS FiniteSets, Integers, SequencesExt

CONSTANTS
    Process,      \* server processes
    None,         \* no process
    MaxFaults     \* bound on crashes and database errors

ASSUME StartupAssumption == None \notin Process /\ MaxFaults \in Nat

-----------------------------------------------------------------------------
\* scripts/init-db.sql

Tables == <<"users", "diaries", "diary_analysis", "photos", "devices">>

ColumnsOf == [
    users |-> {"id", "provider", "email", "last_login_at"},
    diaries |-> {"id", "user_id", "time_type", "address_name", "send_cnt"},
    diary_analysis |-> {"diary_id", "result"},
    photos |-> {"id", "taken_at"},
    devices |-> {"id", "device_token"}]

Column == UNION {{t} \X ColumnsOf[t] : t \in Range(Tables)}

\* Columns with PRIMARY KEY or UNIQUE on their line.
Constrained == {c \in Column : c[2] \in {"id", "diary_id", "email"}}

\* The lines that end in a semicolon.  Of one: the object it creates or, in a
\* function body or a block, goes on creating; whether its statement has opened a
\* function or a DO block; whether the line has "$$;" and "END $$;" in it.
Line(name, open, closing) == [name |-> name, open |-> open, closing |-> closing]
Plain(name) == Line(name, "none", "none")

Lines ==
    <<Plain("pg_trgm"), Plain("users"), Plain("idx_users"), Plain("diaries"),
      Plain("unique_user_date_time_active"), Plain("comment_address_name"),
      Plain("diary_analysis"), Plain("photos"), Plain("idx_photos_taken_at"),
      Plain("devices"), Plain("fk_diaries_cover_photo"),
      Line("update_updated_at_column", "function", "none"),    \* NEW.updated_at = ...;
      Line("update_updated_at_column", "none", "none"),        \* RETURN NEW;
      Line("update_updated_at_column", "none", "none"),        \* END;
      Line("update_updated_at_column", "none", "none"),        \* $$ language 'plpgsql';
      Plain("update_users_updated_at"), Plain("update_diaries_updated_at"),
      Plain("update_photos_updated_at"), Plain("update_devices_updated_at"),
      Line("do_block", "do", "none"), Line("do_block", "none", "end")>>

Triggers == {"update_users_updated_at", "update_diaries_updated_at",
             "update_photos_updated_at", "update_devices_updated_at"}

\* What has to be there before a statement can run.
Needs(name) ==
    CASE name = "diaries" -> {<<"users", "id">>}
      [] name \in {"diary_analysis", "photos"} -> {<<"diaries", "id">>}
      [] name = "devices" -> {<<"users", "id">>}
      [] name = "idx_users" -> {<<"users", "provider">>}
      [] name = "unique_user_date_time_active" -> {<<"diaries", "user_id">>, <<"diaries", "time_type">>}
      [] name = "comment_address_name" -> {<<"diaries", "address_name">>}
      [] name = "idx_photos_taken_at" -> {<<"photos", "taken_at">>}
      [] name = "fk_diaries_cover_photo" -> {<<"diaries", "id">>, <<"photos", "id">>}
      [] OTHER -> {}

\* The table an index, a comment or a constraint must have to itself.
Locks(name) == {c[1] : c \in IF name \in Range(Tables) THEN {} ELSE Needs(name)}

\* A line of _parse_sql_statements.  A function is over at "$$;" alone, but the one
\* of the script ends in "$$ language": the first line with "$$;" is the end of the
\* DO block, where the elif leaves the block open.
ParseLine(parsed, line) ==
    LET opened == [parsed EXCEPT !.current = @ \cup {line.name},
                                 !.function = @ \/ line.open = "function",
                                 !.do = @ \/ line.open = "do"]
        closed == IF line.closing = "none" THEN opened
                  ELSE IF opened.function THEN [opened EXCEPT !.function = FALSE]
                  ELSE [opened EXCEPT !.do = FALSE]
    IN  IF closed.function \/ closed.do THEN closed
        ELSE [closed EXCEPT !.statements = Append(@, closed.current), !.current = {}]

NothingParsed == [statements |-> <<>>, current |-> {}, function |-> FALSE, do |-> FALSE]

\* _parse_sql_statements: the sets of objects its statements create.
ParseSqlStatements(lines) == FoldLeft(ParseLine, NothingParsed, lines).statements

Statements == ParseSqlStatements(Lines)

\* Faulty: lines with a constraint are not skipped.
Parsed_All == Column

\* Faulty: DEFAULT is among the words of a line that is skipped.
Parsed_NoDefault == {c \in Column \ Constrained : c[2] # "send_cnt"}

\* _parse_init_sql_tables: the columns the migration knows of.
Parsed == Column \ Constrained
-----------------------------------------------------------------------------
VARIABLES
    objects,      \* tables, indexes and so on that exist
    columns,      \* of each column: "absent", "as_written", or "bare": no NOT NULL, no DEFAULT
    locked,       \* who has altered a table and not committed
    pc,
    next,         \* the statement of the script at hand
    plan,         \* columns to add
    added,        \* columns added, not committed
    aborted,      \* an ALTER has failed
    errors,       \* errors a start has logged: "needs" for what is missing, "fault"
    outdated,     \* history: a start found a table without a column of the script
    faults

vars == <<objects, columns, locked, pc, next, plan, added, aborted, errors, outdated, faults>>

Steps == {"down", "init_sql", "read_schema", "migrate", "serving"}

TypeOK ==
    /\ objects \subseteq UNION Range(Statements)
    /\ columns \in [Column -> {"absent", "as_written", "bare"}]
    /\ locked \in [Range(Tables) -> Process \cup {None}]
    /\ pc \in [Process -> Steps]
    /\ next \in [Process -> 1 .. Len(Statements) + 1]
    /\ plan \in [Process -> SUBSET (Column \ Constrained)]
    /\ added \in [Process -> SUBSET (Column \ Constrained)]
    /\ aborted \in [Process -> BOOLEAN]
    /\ errors \in [Process -> SUBSET {"needs", "fault"}]
    /\ outdated \in [Process -> BOOLEAN]
    /\ faults \in 0 .. MaxFaults

Present(cols) == {c \in Column : cols[c] # "absent"}

\* An empty database, or one of a release without some columns, the indexes over
\* them, and perhaps the last table.
Init ==
    /\ \E missing \in SUBSET {<<"users", "email">>, <<"diaries", "user_id">>,
                              <<"diaries", "send_cnt">>, <<"devices", "device_token">>}
                      \cup {{c \in Column : c[1] = "devices"}, Column} :
          /\ columns = [c \in Column |-> IF c \in missing THEN "absent" ELSE "as_written"]
          /\ objects = {o \in UNION Range(Statements) :
                           IF o \in Range(Tables) THEN <<o, "id">> \notin missing /\ missing # Column
                           ELSE Needs(o) \cap missing = {} /\ missing # Column}
    /\ locked = [t \in Range(Tables) |-> None]
    /\ pc = [p \in Process |-> "down"]
    /\ next = [p \in Process |-> 1]
    /\ plan = [p \in Process |-> {}]
    /\ added = [p \in Process |-> {}]
    /\ aborted = [p \in Process |-> FALSE]
    /\ errors = [p \in Process |-> {}]
    /\ outdated = [p \in Process |-> FALSE]
    /\ faults = 0
-----------------------------------------------------------------------------
Go(p, step) == pc' = [pc EXCEPT ![p] = step]
Fault == faults < MaxFaults /\ faults' = faults + 1
Released(p) == [t \in Range(Tables) |-> IF locked[t] = p THEN None ELSE locked[t]]

Start(p) ==
    /\ pc[p] = "down" /\ Go(p, "init_sql")
    /\ next' = [next EXCEPT ![p] = 1]
    /\ plan' = [plan EXCEPT ![p] = {}]
    /\ added' = [added EXCEPT ![p] = {}]
    /\ aborted' = [aborted EXCEPT ![p] = FALSE]
    /\ errors' = [errors EXCEPT ![p] = {}]
    /\ outdated' = [outdated EXCEPT ![p] =
          \E c \in Column : c[1] \in objects /\ columns[c] = "absent"]
    /\ UNCHANGED <<objects, columns, locked, faults>>

NextStatement(p) ==
    /\ next' = [next EXCEPT ![p] = @ + 1]
    /\ UNCHANGED <<locked, pc, plan, added, aborted, outdated>>

\* Faulty: only duplicates are expected errors, not what exists already.
Logged_Strict(p, s) ==
    IF \A o \in s : Needs(o) \subseteq Present(columns) /\ (o \in objects => o \notin {"fk_diaries_cover_photo"} \cup Triggers)
    THEN {} ELSE {"needs"}

\* The error a statement logs.  That an object exists is no error: most say IF NOT
\* EXISTS, for the others _is_expected_error drops it.
Logged(p, s) == IF \A o \in s : Needs(o) \subseteq Present(columns) THEN {} ELSE {"needs"}

\* One statement of _execute_init_sql.  A table that exists is left as it is.
ExecuteStatement(p) ==
    /\ pc[p] = "init_sql" /\ next[p] <= Len(Statements)
    /\ LET s == Statements[next[p]]
           new == s \ objects
       IN  /\ \A o \in new : \A t \in Locks(o) : locked[t] \in {None, p}
           /\ errors' = [errors EXCEPT ![p] = @ \cup Logged(p, s)]
           /\ IF \A o \in s : Needs(o) \subseteq Present(columns)
              THEN /\ objects' = objects \cup s
                   /\ columns' = [c \in Column |-> IF c[1] \in new THEN "as_written" ELSE columns[c]]
              ELSE UNCHANGED <<objects, columns>>
    /\ NextStatement(p) /\ UNCHANGED faults

\* It fails for another reason, and the loop goes on.
StatementFails(p) ==
    /\ pc[p] = "init_sql" /\ next[p] <= Len(Statements)
    /\ Fault /\ errors' = [errors EXCEPT ![p] = @ \cup {"fault"}]
    /\ NextStatement(p) /\ UNCHANGED <<objects, columns>>

InitSqlDone(p) ==
    /\ pc[p] = "init_sql" /\ next[p] = Len(Statements) + 1 /\ Go(p, "read_schema")
    /\ UNCHANGED <<objects, columns, locked, next, plan, added, aborted, errors, outdated, faults>>

\* _get_current_schema: one query of the catalogue, which shows what is committed.
CurrentSchema == [t \in objects \cap Range(Tables) |-> {c \in Present(columns) : c[1] = t}]

\* generate_schema_diff: what the tables that exist lack.
ReadSchema(p) ==
    /\ pc[p] = "read_schema" /\ Go(p, "migrate")
    /\ plan' = [plan EXCEPT ![p] =
          UNION {{c \in Parsed : c[1] = t} \ CurrentSchema[t] : t \in DOMAIN CurrentSchema}]
    /\ UNCHANGED <<objects, columns, locked, next, added, aborted, errors, outdated, faults>>

\* Faulty: the tables are altered in any order.
NextColumns_AnyOrder(p) == plan[p]

\* The tables come in the order of the script, the columns of one as a set.
NextColumns(p) ==
    {c \in plan[p] : \A d \in plan[p] :
        \A i, j \in DOMAIN Tables : Tables[i] = c[1] /\ Tables[j] = d[1] => i <= j}

Tried(p, c) ==
    /\ plan' = [plan EXCEPT ![p] = @ \ {c}]
    /\ UNCHANGED <<objects, columns, pc, next, outdated>>

\* ALTER TABLE ... ADD COLUMN IF NOT EXISTS waits for other migrations of the
\* table.  In an aborted transaction it fails.
AddColumn(p, c) ==
    /\ pc[p] = "migrate" /\ c \in NextColumns(p)
    /\ IF aborted[p] THEN UNCHANGED <<locked, added>>
       ELSE /\ locked[c[1]] \in {None, p} /\ locked' = [locked EXCEPT ![c[1]] = p]
            /\ added' = [added EXCEPT ![p] = IF columns[c] = "absent" THEN @ \cup {c} ELSE @]
    /\ Tried(p, c) /\ UNCHANGED <<aborted, errors, faults>>

AddColumnFails(p, c) ==
    /\ pc[p] = "migrate" /\ c \in NextColumns(p) /\ ~aborted[p] /\ Fault
    /\ aborted' = [aborted EXCEPT ![p] = TRUE]
    /\ errors' = [errors EXCEPT ![p] = @ \cup {"fault"}]
    /\ locked' = Released(p) /\ added' = [added EXCEPT ![p] = {}]
    /\ Tried(p, c)

\* The end of create_tables: a COMMIT, which does nothing after an abort.  Only
\* name and type of a column were parsed: its NOT NULL and DEFAULT are lost.
Serve(p) ==
    /\ pc[p] = "migrate" /\ plan[p] = {} /\ Go(p, "serving")
    /\ columns' = [c \in Column |-> IF c \in added[p] THEN "bare" ELSE columns[c]]
    /\ added' = [added EXCEPT ![p] = {}]
    /\ locked' = Released(p)
    /\ UNCHANGED <<objects, next, plan, aborted, errors, outdated, faults>>

\* The process dies, or its commit raises and uvicorn gives up.
Crash(p) ==
    /\ pc[p] # "down" /\ Fault /\ Go(p, "down")
    /\ locked' = Released(p) /\ added' = [added EXCEPT ![p] = {}]
    /\ UNCHANGED <<objects, columns, next, plan, aborted, errors, outdated>>

Work(p) ==
    \/ Start(p) \/ ExecuteStatement(p) \/ InitSqlDone(p) \/ ReadSchema(p)
    \/ \E c \in plan[p] : AddColumn(p, c)
    \/ Serve(p)

Next == \E p \in Process :
    \/ Work(p) \/ StatementFails(p) \/ Crash(p)
    \/ \E c \in plan[p] : AddColumnFails(p, c)

\* Containers are restarted, and statements end.
Fairness == \A p \in Process : WF_vars(Work(p))

Spec == Init /\ [][Next]_vars /\ Fairness
-----------------------------------------------------------------------------
\* Properties.

\* A start that logged no error leaves every table, index and constraint of the
\* statements it was given, and every column but those with a constraint on
\* their line: whatever other processes did or failed to do in the meantime.
CleanStartComplete ==
    \A p \in Process : pc[p] = "serving" /\ errors[p] = {} =>
        /\ UNION Range(Statements) \subseteq objects
        /\ Column \ Constrained \subseteq Present(columns)

\* A restart on an up-to-date database logs nothing: a logged error means that
\* something failed or that a column was missing.
QuietRestart == \A p \in Process : "needs" \in errors[p] => outdated[p] \/ "fault" \in errors[p]

\* Every process serves in the end: migrations that wait for each other's tables
\* do not wait for ever.
EventuallyServing == \A p \in Process : <>[](pc[p] = "serving")

\* "The trigger that updates updated_at is put on each table" (init-db.sql).
TriggersInPlace ==
    \A p \in Process : pc[p] = "serving" /\ errors[p] = {} => Triggers \subseteq objects
=============================================================================
