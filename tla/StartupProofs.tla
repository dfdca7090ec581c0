--------------------------- MODULE StartupProofs ---------------------------
(***************************************************************************)
(* Safety theorems about Startup, for any processes and any number of      *)
(* crashes and database errors.  Of the script they use what the parser    *)
(* makes of it: a statement comes after the ones it needs.                 *)
(***************************************************************************)
EXTENDS Startup, FoldTheorems

\* An errorless start has executed the script up to next[p].
ScriptFact(p) ==
    /\ pc[p] \in {"read_schema", "migrate", "serving"} => next[p] = Len(Statements) + 1
    /\ pc[p] # "down" /\ errors[p] = {} =>
          \A j \in 1 .. next[p] - 1 : Statements[j] \subseteq objects

\* Every table that exists has all its columns.
Complete == \A c \in Column : c[1] \in objects => columns[c] # "absent"

\* A start that found a complete database goes on with one.  It may miss what it
\* needs only if it did not find one, or something failed.
QuietFact(p) ==
    /\ pc[p] # "down" /\ ~outdated[p] => Complete
    /\ "needs" \in errors[p] => outdated[p] \/ "fault" \in errors[p]

\* What an errorless migration still has to add.
PlanFact(p) ==
    /\ aborted[p] => "fault" \in errors[p]
    /\ pc[p] = "migrate" /\ errors[p] = {} => Parsed \subseteq Present(columns) \cup plan[p] \cup added[p]
    /\ pc[p] = "serving" /\ errors[p] = {} => Parsed \subseteq Present(columns)

\* Table t comes no later than table u in the script.
NotAfter(t, u) == \A i, j \in DOMAIN Tables : Tables[i] = t /\ Tables[j] = u => i <= j

\* A process has altered no table that comes after one it still has to alter.
OrderFact(p) ==
    \A t \in Range(Tables) : locked[t] = p =>
        pc[p] = "migrate" /\ \A c \in plan[p] : NotAfter(t, c[1])

Facts(p) == ScriptFact(p) /\ QuietFact(p) /\ PlanFact(p) /\ OrderFact(p)

\* The inductive invariant.
Inv == TypeOK /\ \A p \in Process : Facts(p)

\* The first k lines of the script are statements of their own.
Opening(k) == [i \in 1 .. k |-> {Lines[i].name}]

Names == {Lines[i].name : i \in 1 .. 21}

\* The states of the parser.
Parsing == [statements : Seq(SUBSET Names), current : SUBSET Names,
            function : BOOLEAN, do : BOOLEAN]

\* The lines, by what they do to the parser.
LEMMA ScriptLines ==
    /\ Len(Lines) = 21 /\ DOMAIN Lines = 1 .. 21
    /\ \A i \in 1 .. 11 : Lines[i].open = "none"
    /\ \A i \in 1 .. 20 : Lines[i].closing = "none"
    /\ Lines[12].open = "function" /\ Lines[20].open = "do" /\ Lines[21].closing = "end"
<1>1. Len(Lines) = 21 /\ DOMAIN Lines = 1 .. 21
  BY DEF Lines
<1>2. \A i \in 1 .. 11 : Lines[i].open = "none"
  BY SMTT(30) DEF Lines, Plain, Line
<1>3. \A i \in 1 .. 20 : Lines[i].closing = "none"
  BY SMTT(30) DEF Lines, Plain, Line
<1>4. Lines[12].open = "function" /\ Lines[20].open = "do" /\ Lines[21].closing = "end"
  BY DEF Lines, Plain, Line
<1>5. QED
  BY <1>1, <1>2, <1>3, <1>4

\* A line goes on from one state of the parser to the next.
LEMMA ParseLineType ==
    ASSUME NEW r \in Parsing, NEW i \in 1 .. 21
    PROVE  ParseLine(r, Lines[i]) \in Parsing
<1>1. PICK line : line = Lines[i]
  OBVIOUS
<1>2. line.name \in Names
  BY <1>1 DEF Names
<1> DEFINE opened == [r EXCEPT !.current = @ \cup {line.name},
                               !.function = @ \/ line.open = "function",
                               !.do = @ \/ line.open = "do"]
           closed == IF line.closing = "none" THEN opened
                     ELSE IF opened.function THEN [opened EXCEPT !.function = FALSE]
                     ELSE [opened EXCEPT !.do = FALSE]
<1>3. opened \in Parsing
  BY <1>2 DEF Parsing
<1>4. closed \in Parsing
  <2> HIDE DEF opened
  <2>1. QED
    BY <1>3 DEF Parsing
<1>5. [closed EXCEPT !.statements = Append(@, closed.current), !.current = {}] \in Parsing
  <2> HIDE DEF closed
  <2>1. Append(closed.statements, closed.current) \in Seq(SUBSET Names) /\ {} \in SUBSET Names
    BY <1>4 DEF Parsing
  <2>2. QED
    BY <1>4, <2>1 DEF Parsing
<1>6. ParseLine(r, line) \in Parsing
  BY <1>4, <1>5 DEF ParseLine
<1>7. QED
  BY <1>1, <1>6

\* The function of the script never ends for the parser: it makes statements of the
\* first eleven lines and of nothing else.
LEMMA ScriptParsed == Statements = Opening(11)
<1> DEFINE step == [x \in (1 .. 21) \X Parsing |-> ParseLine(x[2], Lines[x[1]])]
           At(g, w) == IF w = {} THEN NothingParsed
                       ELSE ParseLine(g[w \ {Max(w)}], Lines[Max(w)])
           it == CHOOSE g : g = [w \in SUBSET (1 .. 21) |-> At(g, w)]
<1>1. Statements = it[1 .. 21].statements
  BY ScriptLines DEF Statements, ParseSqlStatements, FoldLeft, MapThenFoldSet
<1>2. PICK g : IsFold(g, 21, Parsing, NothingParsed, step)
  <2>1. NothingParsed \in Parsing
    BY DEF NothingParsed, Parsing
  <2>2. ASSUME NEW x \in (1 .. 21) \X Parsing PROVE step[x] \in Parsing
    <3>1. x[1] \in 1 .. 21 /\ x[2] \in Parsing
      OBVIOUS
    <3>2. step[x] = ParseLine(x[2], Lines[x[1]])
      OBVIOUS
    <3>3. QED
      BY <3>1, <3>2, ParseLineType
  <2>3. step \in [(1 .. 21) \X Parsing -> Parsing]
    BY <2>2
  <2> HIDE DEF step
  <2>4. QED
    BY <2>1, <2>3, FoldExists
<1>3. g = [w \in SUBSET (1 .. 21) |-> At(g, w)]
  <2>1. ASSUME NEW w \in SUBSET (1 .. 21) PROVE g[w] = At(g, w)
    <3>1. CASE w = {}
      BY <3>1, <1>2 DEF IsFold
    <3>2. CASE w # {}
      <4>1. Max(w) \in 1 .. 21
        BY <3>2, GreatestIndex
      <4>2. g[w \ {Max(w)}] \in Parsing
        BY <1>2 DEF IsFold
      <4>3. g[w] = step[<<Max(w), g[w \ {Max(w)}]>>]
        BY <3>2, <1>2 DEF IsFold
      <4>4. QED
        BY <3>2, <4>1, <4>2, <4>3
    <3>3. QED
      BY <3>1, <3>2
  <2>2. g = [w \in SUBSET (1 .. 21) |-> g[w]]
    BY <1>2 DEF IsFold
  <2> HIDE DEF At
  <2>3. QED
    BY <2>1, <2>2
<1>4. it = [w \in SUBSET (1 .. 21) |-> At(it, w)]
  <2> HIDE DEF At
  <2>1. QED
    BY <1>3
<1> HIDE DEF it
<1>5. it[1 .. 0] = NothingParsed
  <2>1. 1 .. 0 = {}
    OBVIOUS
  <2>2. QED
    BY <2>1, <1>4
<1>6. ASSUME NEW k \in 1 .. 21 PROVE it[1 .. k] = ParseLine(it[1 .. k - 1], Lines[k])
  <2>1. /\ 1 .. k \in SUBSET (1 .. 21) /\ 1 .. k # {}
        /\ (1 .. k) \ {k} = 1 .. k - 1 /\ Max(1 .. k) = k
    BY PrefixLast
  <2>2. it[1 .. k] = At(it, 1 .. k)
    <3> HIDE DEF At
    <3>1. QED
      BY <1>4, <2>1
  <2>3. QED
    BY <2>1, <2>2
<1> DEFINE reached(k) == it[1 .. k]
           Good(k) ==
             /\ reached(k) \in Parsing
             /\ k \in 0 .. 11 => reached(k) = [statements |-> Opening(k), current |-> {},
                                               function |-> FALSE, do |-> FALSE]
             /\ k \in 12 .. 21 => reached(k).statements = Opening(11)
             /\ k \in 12 .. 20 => reached(k).function = TRUE
             /\ k = 20 => reached(k).do = TRUE
<1>7. Good(0)
  <2>1. Opening(0) = <<>>
    BY DEF Opening
  <2>2. NothingParsed \in Parsing
    BY DEF NothingParsed, Parsing
  <2>3. NothingParsed = [statements |-> Opening(0), current |-> {}, function |-> FALSE, do |-> FALSE]
    BY <2>1 DEF NothingParsed
  <2>4. QED
    BY <1>5, <2>2, <2>3
<1>8. ASSUME NEW k \in 1 .. 21, Good(k - 1) PROVE Good(k)
  <2> DEFINE r == it[1 .. k - 1]
             s == it[1 .. k]
  <2>1. r \in Parsing /\ s = ParseLine(r, Lines[k])
    BY <1>6, <1>8
  <2>2. s \in Parsing
    BY <2>1, ParseLineType
  <2>3. CASE k \in 1 .. 11
    <3>1. r = [statements |-> Opening(k - 1), current |-> {}, function |-> FALSE, do |-> FALSE]
      BY <2>3, <1>8
    <3>2. Append(Opening(k - 1), {Lines[k].name}) = Opening(k)
      BY <2>3 DEF Opening
    <3> HIDE DEF r, s
    <3>3. s = [statements |-> Append(Opening(k - 1), {Lines[k].name}), current |-> {},
               function |-> FALSE, do |-> FALSE]
      BY <2>1, <2>3, <3>1, ScriptLines DEF ParseLine
    <3>4. s = [statements |-> Opening(k), current |-> {}, function |-> FALSE, do |-> FALSE]
      BY <3>2, <3>3
    <3>5. QED
      BY <2>2, <2>3, <3>4 DEF s
  <2>4. CASE k \in 12 .. 20
    <3>1. r.statements = Opening(11)
      BY <2>4, <1>8
    <3>2. k = 12 \/ r.function = TRUE
      BY <2>4, <1>8
    <3> HIDE DEF r, s
    <3> DEFINE opened == [r EXCEPT !.current = @ \cup {Lines[k].name},
                                   !.function = @ \/ Lines[k].open = "function",
                                   !.do = @ \/ Lines[k].open = "do"]
    <3>3. /\ Lines[k].closing = "none"
          /\ k = 12 => Lines[k].open = "function"
          /\ k = 20 => Lines[k].open = "do"
      BY <2>4, ScriptLines
    <3>4. opened.function /\ opened.statements = r.statements /\ (k = 20 => opened.do)
      BY <2>1, <3>2, <3>3 DEF Parsing
    <3>5. s = opened
      BY <2>1, <3>3, <3>4 DEF ParseLine
    <3> HIDE DEF opened
    <3>6. s.function \in BOOLEAN /\ s.do \in BOOLEAN
      BY <2>2 DEF Parsing, s
    <3>7. s.function = TRUE /\ s.statements = r.statements /\ (k = 20 => s.do = TRUE)
      BY <3>4, <3>5, <3>6
    <3>8. QED
      BY <2>2, <2>4, <3>1, <3>7 DEF s
  <2>5. CASE k = 21
    <3>1. r.statements = Opening(11) /\ r.function = TRUE /\ r.do = TRUE
      BY <2>5, <1>8
    <3> HIDE DEF r, s
    <3>2. s.statements = r.statements
      BY <2>1, <2>5, <3>1, ScriptLines DEF ParseLine, Parsing
    <3>3. QED
      BY <2>2, <2>5, <3>1, <3>2 DEF s
  <2>6. k \in 1 .. 11 \/ k \in 12 .. 20 \/ k = 21
    OBVIOUS
  <2> HIDE DEF Good
  <2>7. QED
    BY <2>3, <2>4, <2>5, <2>6
<1>9. Good(21)
  <2> HIDE DEF Good
  <2> DEFINE G == {k \in 0 .. 21 : Good(k)}
  <2>1. 0 \in G /\ \A k \in 1 .. 21 : k - 1 \in G => k \in G
    BY <1>7, <1>8
  <2>2. 21 \in G
    <3> HIDE DEF G
    <3>1. QED
      BY <2>1, UpTo
  <2>3. QED
    BY <2>2
<1>10. QED
  BY <1>1, <1>9

\* The script makes every table, and what a statement needs in an earlier one.
LEMMA ScriptOrder ==
    /\ Statements \in Seq(SUBSET Names) /\ Len(Statements) = 11
    /\ Range(Tables) \subseteq UNION Range(Statements)
    /\ \A i \in DOMAIN Statements : \A o \in Statements[i] : \A c \in Needs(o) :
          c \in Column /\ \E j \in 1 .. i - 1 : c[1] \in Statements[j]
<1>1. Statements = <<{"pg_trgm"}, {"users"}, {"idx_users"}, {"diaries"},
                     {"unique_user_date_time_active"}, {"comment_address_name"},
                     {"diary_analysis"}, {"photos"}, {"idx_photos_taken_at"},
                     {"devices"}, {"fk_diaries_cover_photo"}>>
  BY ScriptParsed DEF Opening, Lines, Plain, Line
<1>2. Statements \in Seq(SUBSET Names) /\ Len(Statements) = 11
  <2>1. \A i \in 1 .. 11 : {Lines[i].name} \in SUBSET Names
    BY DEF Names
  <2>2. Opening(11) \in Seq(SUBSET Names) /\ Len(Opening(11)) = 11
    BY <2>1 DEF Opening
  <2>3. QED
    BY <2>2, ScriptParsed
<1>3. DOMAIN Statements = 1 .. 11
  BY <1>2
<1>4. Range(Tables) \subseteq UNION Range(Statements)
  <2>1. \A t \in Range(Tables) : t \in {"users", "diaries", "diary_analysis", "photos", "devices"}
    BY DEF Range, Tables
  <2>2. \A i \in 1 .. 11 : Statements[i] \in Range(Statements)
    BY <1>3 DEF Range
  <2>3. /\ "users" \in Statements[2] /\ "diaries" \in Statements[4]
        /\ "diary_analysis" \in Statements[7] /\ "photos" \in Statements[8]
        /\ "devices" \in Statements[10]
    BY <1>1
  <2>4. QED
    BY <2>1, <2>2, <2>3
<1>5. ASSUME NEW i \in 1 .. 11, NEW o \in Statements[i], NEW c \in Needs(o)
      PROVE  c \in Column /\ \E j \in 1 .. i - 1 : c[1] \in Statements[j]
  <2>1. /\ o = "diaries" => i = 4
        /\ o \in {"diary_analysis", "photos"} => i >= 7
        /\ o = "devices" => i = 10
        /\ o = "idx_users" => i = 3
        /\ o \in {"unique_user_date_time_active", "comment_address_name"} => i >= 5
        /\ o = "idx_photos_taken_at" => i = 9
        /\ o = "fk_diaries_cover_photo" => i = 11
    BY <1>1
  <2>2. \/ i >= 3 /\ c \in {<<"users", "id">>, <<"users", "provider">>}
        \/ i >= 5 /\ c \in {<<"diaries", "id">>, <<"diaries", "user_id">>,
                            <<"diaries", "time_type">>, <<"diaries", "address_name">>}
        \/ i >= 9 /\ c \in {<<"photos", "id">>, <<"photos", "taken_at">>}
    BY <2>1 DEF Needs
  <2>3. {"users", "diaries", "photos"} \subseteq Range(Tables)
    BY DEF Range, Tables
  <2>4. c \in Column
    BY <2>2, <2>3 DEF Column, ColumnsOf
  <2>5. "users" \in Statements[2] /\ "diaries" \in Statements[4] /\ "photos" \in Statements[8]
    BY <1>1
  <2>6. \/ i >= 3 /\ c[1] = "users"
        \/ i >= 5 /\ c[1] = "diaries"
        \/ i >= 9 /\ c[1] = "photos"
    <3>1. CASE i >= 3 /\ c \in {<<"users", "id">>, <<"users", "provider">>}
      BY <3>1
    <3>2. CASE i >= 5 /\ c \in {<<"diaries", "id">>, <<"diaries", "user_id">>,
                                 <<"diaries", "time_type">>, <<"diaries", "address_name">>}
      BY <3>2
    <3>3. CASE i >= 9 /\ c \in {<<"photos", "id">>, <<"photos", "taken_at">>}
      BY <3>3
    <3>4. QED
      BY <2>2, <3>1, <3>2, <3>3
  <2>7. QED
    BY <2>4, <2>5, <2>6
<1>6. QED
  BY <1>2, <1>3, <1>4, <1>5

\* The script is a sequence of sets of names.
LEMMA ScriptShape ==
    /\ Len(Statements) \in Nat /\ DOMAIN Statements = 1 .. Len(Statements)
    /\ \A i \in 1 .. Len(Statements) : Statements[i] \subseteq UNION Range(Statements)
<1>1. Statements \in Seq(SUBSET Names)
  BY ScriptOrder
<1>2. Len(Statements) \in Nat /\ DOMAIN Statements = 1 .. Len(Statements)
  BY <1>1
<1>3. ASSUME NEW i \in 1 .. Len(Statements)
      PROVE  Statements[i] \subseteq UNION Range(Statements)
  <2>1. Statements[i] \in Range(Statements)
    BY <1>2, <1>3 DEF Range
  <2>2. QED
    BY <2>1
<1>4. QED
  BY <1>2, <1>3

\* A column is of one of the tables.
LEMMA ColumnTable == \A c \in Column : c[1] \in Range(Tables)
BY DEF Column

\* What a step of p leaves as it was, of the other processes.
Others(p) ==
    /\ \A q \in Process : q # p =>
          /\ pc'[q] = pc[q] /\ next'[q] = next[q] /\ plan'[q] = plan[q]
          /\ added'[q] = added[q] /\ aborted'[q] = aborted[q]
          /\ errors'[q] = errors[q] /\ outdated'[q] = outdated[q]
    /\ \A t \in Range(Tables) : locked'[t] = locked[t] \/ locked'[t] \in {p, None}

\* The database only grows.
Grown ==
    /\ objects \subseteq objects'
    /\ Present(columns) \subseteq Present(columns')
    /\ Complete => Complete'

\* A database that grows, and locks that are only taken by p or released, leave the
\* facts of the others.
LEMMA OthersKeep ==
    ASSUME Inv, NEW p \in Process, Others(p), Grown, NEW q \in Process, q # p
    PROVE  Facts(q)'
<1>1. /\ pc'[q] = pc[q] /\ next'[q] = next[q] /\ plan'[q] = plan[q]
      /\ added'[q] = added[q] /\ aborted'[q] = aborted[q]
      /\ errors'[q] = errors[q] /\ outdated'[q] = outdated[q]
  BY DEF Others
<1>2. ScriptFact(q) /\ QuietFact(q) /\ PlanFact(q) /\ OrderFact(q)
  BY DEF Inv, Facts
<1>3. ScriptFact(q)'
  BY <1>1, <1>2 DEF ScriptFact, Grown
<1>4. QuietFact(q)'
  BY <1>1, <1>2 DEF QuietFact, Grown
<1>5. PlanFact(q)'
  <2>1. Present(columns) \subseteq Present(columns)'
    BY DEF Grown
  <2>2. QED
    BY <1>1, <1>2, <2>1 DEF PlanFact
<1>6. OrderFact(q)'
  <2>1. \A t \in Range(Tables) : locked'[t] = q => locked[t] = q
    BY StartupAssumption DEF Others
  <2>2. QED
    BY <1>1, <1>2, <2>1 DEF OrderFact
<1>7. QED
  BY <1>3, <1>4, <1>5, <1>6 DEF Facts

\* A database that did not change has not shrunk.
LEMMA SameGrown == UNCHANGED <<objects, columns>> => Grown
BY DEF Grown, Complete, Present

\* At first nothing runs, and nothing has an error.
LEMMA InvInit == Init => Inv
<1> SUFFICES ASSUME Init PROVE Inv
  OBVIOUS
<1>1. TypeOK
  <2>1. objects \subseteq UNION Range(Statements) /\ columns \in [Column -> {"absent", "as_written", "bare"}]
    BY DEF Init
  <2>2. 1 \in 1 .. Len(Statements) + 1
    BY ScriptShape
  <2>3. QED
    BY <2>1, <2>2, StartupAssumption DEF Init, TypeOK, Steps
<1>2. ASSUME NEW p \in Process PROVE Facts(p)
  BY StartupAssumption DEF Init, Facts, ScriptFact, QuietFact, PlanFact, OrderFact
<1>3. QED
  BY <1>1, <1>2 DEF Inv

\* The tables p has altered are free again.
LEMMA ReleasedType ==
    ASSUME TypeOK, NEW p \in Process
    PROVE  /\ Released(p) \in [Range(Tables) -> Process \cup {None}]
           /\ \A t \in Range(Tables) : Released(p)[t] # p
           /\ \A t \in Range(Tables) : Released(p)[t] \in {locked[t], None}
BY StartupAssumption DEF TypeOK, Released

\* A start looks whether the database is complete.
LEMMA StartKeeps == ASSUME Inv, NEW p \in Process, Start(p) PROVE Inv'
<1> USE DEF Start, Go
<1>1. TypeOK'
  <2>1. 1 \in 1 .. Len(Statements) + 1
    BY ScriptShape
  <2>2. QED
    BY <2>1 DEF Inv, TypeOK, Steps
<1>2. Others(p) /\ Grown
  BY SameGrown DEF Inv, TypeOK, Others
<1>3. Facts(p)'
  <2>1. /\ pc'[p] = "init_sql" /\ next'[p] = 1 /\ errors'[p] = {} /\ ~aborted'[p]
        /\ outdated'[p] = ~Complete
    BY DEF Inv, TypeOK, Complete
  <2>2. \A t \in Range(Tables) : locked'[t] # p
    BY DEF Inv, Facts, OrderFact
  <2>3. Complete' = Complete
    BY DEF Complete
  <2>4. QuietFact(p)'
    BY <2>1, <2>3 DEF QuietFact
  <2>5. ScriptFact(p)' /\ PlanFact(p)'
    BY <2>1 DEF ScriptFact, PlanFact
  <2>6. OrderFact(p)'
    BY <2>2 DEF OrderFact
  <2>7. QED
    BY <2>4, <2>5, <2>6 DEF Facts
<1>4. QED
  BY <1>1, <1>2, <1>3, OthersKeep DEF Inv

\* A statement whose needs are there adds what it creates; a table it creates has all
\* its columns.
LEMMA ExecuteGrows ==
    ASSUME Inv, NEW p \in Process, ExecuteStatement(p)
    PROVE  /\ Grown
           /\ objects' \subseteq UNION Range(Statements)
           /\ columns' \in [Column -> {"absent", "as_written", "bare"}]
           /\ next[p] \in 1 .. Len(Statements)
           /\ Logged(p, Statements[next[p]]) = {} => Statements[next[p]] \subseteq objects'
<1> DEFINE s == Statements[next[p]]
           new == s \ objects
<1>1. next[p] \in 1 .. Len(Statements)
  BY ScriptShape DEF ExecuteStatement, Inv, TypeOK
<1>2. s \subseteq UNION Range(Statements)
  BY <1>1, ScriptShape
<1>3. CASE /\ \A o \in s : Needs(o) \subseteq Present(columns)
           /\ objects' = objects \cup s
           /\ columns' = [c \in Column |-> IF c[1] \in new THEN "as_written" ELSE columns[c]]
  <2>1. \A c \in Column : columns'[c] = IF c[1] \in new THEN "as_written" ELSE columns[c]
    BY <1>3
  <2>2. Present(columns) \subseteq Present(columns')
    BY <2>1 DEF Present
  <2>3. Complete => Complete'
    BY <1>3, <2>1 DEF Complete
  <2>4. columns' \in [Column -> {"absent", "as_written", "bare"}]
    BY <1>3 DEF Inv, TypeOK
  <2>5. QED
    BY <1>1, <1>2, <1>3, <2>2, <2>3, <2>4 DEF Grown, Inv, TypeOK
<1>4. CASE /\ ~\A o \in s : Needs(o) \subseteq Present(columns)
           /\ UNCHANGED <<objects, columns>>
  <2>1. Logged(p, s) # {}
    BY <1>4 DEF Logged
  <2>2. QED
    BY <1>1, <1>4, <2>1, SameGrown DEF Inv, TypeOK
<1>5. QED
  BY <1>3, <1>4 DEF ExecuteStatement

\* In a complete database a start that has had no error misses nothing.
LEMMA NothingMissing ==
    ASSUME Inv, NEW p \in Process, pc[p] = "init_sql", next[p] \in 1 .. Len(Statements),
           errors[p] = {}, ~outdated[p]
    PROVE  Logged(p, Statements[next[p]]) = {}
<1>1. ASSUME NEW o \in Statements[next[p]], NEW c \in Needs(o)
      PROVE  c \in Present(columns)
  <2>1. c \in Column /\ \E j \in 1 .. next[p] - 1 : c[1] \in Statements[j]
    BY ScriptOrder, ScriptShape
  <2>2. \A j \in 1 .. next[p] - 1 : Statements[j] \subseteq objects
    BY DEF Inv, Facts, ScriptFact
  <2>3. Complete
    BY DEF Inv, Facts, QuietFact
  <2>4. QED
    BY <2>1, <2>2, <2>3 DEF Complete, Present
<1>2. QED
  BY <1>1 DEF Logged

LEMMA ExecuteKeeps == ASSUME Inv, NEW p \in Process, ExecuteStatement(p) PROVE Inv'
<1> DEFINE log == Logged(p, Statements[next[p]])
<1>1. /\ Grown
      /\ objects' \subseteq UNION Range(Statements)
      /\ columns' \in [Column -> {"absent", "as_written", "bare"}]
      /\ next[p] \in 1 .. Len(Statements)
      /\ log = {} => Statements[next[p]] \subseteq objects'
  BY ExecuteGrows
<1>2. /\ pc[p] = "init_sql" /\ next' = [next EXCEPT ![p] = @ + 1]
      /\ errors' = [errors EXCEPT ![p] = @ \cup log]
      /\ UNCHANGED <<locked, pc, plan, added, aborted, outdated, faults>>
  BY DEF ExecuteStatement, NextStatement
<1>3. log \subseteq {"needs"}
  BY DEF Logged
<1> HIDE DEF log
<1>4. TypeOK'
  <2>1. next[p] + 1 \in 1 .. Len(Statements) + 1
    BY <1>1, ScriptShape
  <2>2. QED
    BY <1>1, <1>2, <1>3, <2>1 DEF Inv, TypeOK
<1>5. Others(p)
  BY <1>2 DEF Inv, TypeOK, Others
<1>6. /\ errors'[p] = errors[p] \cup log /\ next'[p] = next[p] + 1
      /\ pc'[p] = "init_sql" /\ aborted'[p] = aborted[p] /\ outdated'[p] = outdated[p]
      /\ errors[p] \subseteq {"needs", "fault"}
  BY <1>2 DEF Inv, TypeOK
<1>7. ScriptFact(p) /\ QuietFact(p) /\ PlanFact(p) /\ OrderFact(p)
  BY DEF Inv, Facts
<1>8. ScriptFact(p)'
  <2> SUFFICES ASSUME errors'[p] = {}, NEW j \in 1 .. next[p]
               PROVE  Statements[j] \subseteq objects'
    BY <1>1, <1>6 DEF ScriptFact
  <2>1. CASE j = next[p]
    BY <1>1, <1>6, <2>1
  <2>2. CASE j # next[p]
    <3>1. j \in 1 .. next[p] - 1
      BY <1>1, <2>2
    <3>2. Statements[j] \subseteq objects
      BY <1>2, <1>6, <1>7, <3>1 DEF ScriptFact
    <3>3. QED
      BY <1>1, <3>2 DEF Grown
  <2>3. QED
    BY <2>1, <2>2
<1>9. QuietFact(p)'
  <2>1. ~outdated[p] => Complete'
    BY <1>1, <1>2, <1>7 DEF QuietFact, Grown
  <2>2. ASSUME "needs" \in errors'[p], ~outdated[p], "fault" \notin errors'[p] PROVE FALSE
    <3>1. errors[p] = {}
      BY <1>6, <1>7, <2>2 DEF QuietFact
    <3>2. log = {}
      BY <1>1, <1>2, <2>2, <3>1, NothingMissing DEF log
    <3>3. QED
      BY <1>6, <2>2, <3>1, <3>2
  <2>3. QED
    BY <1>6, <2>1, <2>2 DEF QuietFact
<1>10. PlanFact(p)'
  BY <1>6, <1>7 DEF PlanFact
<1>11. OrderFact(p)'
  BY <1>2, <1>7 DEF OrderFact
<1>12. QED
  BY <1>1, <1>4, <1>5, <1>8, <1>9, <1>10, <1>11, OthersKeep DEF Inv, Facts

LEMMA StatementFailsKeeps == ASSUME Inv, NEW p \in Process, StatementFails(p) PROVE Inv'
<1>1. /\ pc[p] = "init_sql" /\ next' = [next EXCEPT ![p] = @ + 1]
      /\ next[p] <= Len(Statements)
      /\ errors' = [errors EXCEPT ![p] = @ \cup {"fault"}]
      /\ UNCHANGED <<objects, columns, locked, pc, plan, added, aborted, outdated>>
      /\ faults < MaxFaults /\ faults' = faults + 1
  BY DEF StatementFails, NextStatement, Fault
<1>2. TypeOK'
  <2>1. next[p] + 1 \in 1 .. Len(Statements) + 1 /\ faults' \in 0 .. MaxFaults
    BY <1>1, ScriptShape, StartupAssumption DEF Inv, TypeOK
  <2>2. QED
    BY <1>1, <2>1 DEF Inv, TypeOK
<1>3. Others(p) /\ Grown
  BY <1>1, SameGrown DEF Inv, TypeOK, Others
<1>4. "fault" \in errors'[p] /\ pc'[p] = "init_sql"
  BY <1>1 DEF Inv, TypeOK
<1>5. Facts(p)'
  <2>1. QuietFact(p)'
    BY <1>1, <1>4, SameGrown DEF Inv, Facts, QuietFact, Grown, TypeOK
  <2>2. OrderFact(p)'
    BY <1>1 DEF Inv, Facts, OrderFact
  <2>3. QED
    BY <1>4, <2>1, <2>2 DEF Facts, ScriptFact, PlanFact
<1>6. QED
  BY <1>2, <1>3, <1>5, OthersKeep DEF Inv

LEMMA InitSqlDoneKeeps == ASSUME Inv, NEW p \in Process, InitSqlDone(p) PROVE Inv'
<1> USE DEF InitSqlDone, Go
<1>1. TypeOK'
  BY DEF Inv, TypeOK, Steps
<1>2. Others(p) /\ Grown
  BY SameGrown DEF Inv, TypeOK, Others
<1>3. Facts(p)'
  <2>1. pc'[p] = "read_schema" /\ pc[p] = "init_sql"
    BY DEF Inv, TypeOK
  <2>2. ScriptFact(p)'
    BY <2>1 DEF Inv, Facts, ScriptFact
  <2>3. QuietFact(p)'
    BY <2>1 DEF Inv, Facts, QuietFact, Complete
  <2>4. PlanFact(p)' /\ OrderFact(p)'
    BY <2>1 DEF Inv, Facts, PlanFact, OrderFact
  <2>5. QED
    BY <2>2, <2>3, <2>4 DEF Facts
<1>4. QED
  BY <1>1, <1>2, <1>3, OthersKeep DEF Inv

\* After an errorless script every table exists: what a table lacks gets into the plan.
LEMMA ReadSchemaKeeps == ASSUME Inv, NEW p \in Process, ReadSchema(p) PROVE Inv'
<1> DEFINE lacking == UNION {{c \in Parsed : c[1] = t} \ CurrentSchema[t] : t \in DOMAIN CurrentSchema}
<1>1. /\ pc[p] = "read_schema" /\ pc' = [pc EXCEPT ![p] = "migrate"]
      /\ plan' = [plan EXCEPT ![p] = lacking]
      /\ UNCHANGED <<objects, columns, locked, next, added, aborted, errors, outdated, faults>>
  BY DEF ReadSchema, Go
<1>2. lacking \subseteq Parsed
  OBVIOUS
<1>3. TypeOK'
  BY <1>1, <1>2 DEF Inv, TypeOK, Steps, Parsed
<1>4. Others(p) /\ Grown
  BY <1>1, SameGrown DEF Inv, TypeOK, Others
<1>5. pc'[p] = "migrate" /\ plan'[p] = lacking
  BY <1>1 DEF Inv, TypeOK
<1>6. ScriptFact(p)' /\ QuietFact(p)' /\ OrderFact(p)'
  <2>1. ScriptFact(p)'
    BY <1>1, <1>5 DEF Inv, Facts, ScriptFact
  <2>2. QuietFact(p)'
    BY <1>1, <1>5 DEF Inv, Facts, QuietFact, Complete
  <2>3. OrderFact(p)'
    BY <1>1 DEF Inv, Facts, OrderFact
  <2>4. QED
    BY <2>1, <2>2, <2>3
<1>7. PlanFact(p)'
  <2>1. ASSUME errors[p] = {}, NEW c \in Parsed, c \notin Present(columns)
        PROVE  c \in lacking
    <3>1. c[1] \in Range(Tables)
      BY ColumnTable DEF Parsed
    <3>2. PICK i \in 1 .. Len(Statements) : c[1] \in Statements[i]
      <4>1. c[1] \in UNION Range(Statements)
        BY <3>1, ScriptOrder
      <4>2. QED
        BY <4>1, ScriptShape DEF Range
    <3>3. c[1] \in objects
      <4>1. next[p] = Len(Statements) + 1 /\ \A j \in 1 .. next[p] - 1 : Statements[j] \subseteq objects
        BY <1>1, <2>1 DEF Inv, Facts, ScriptFact
      <4>2. i \in 1 .. next[p] - 1
        BY <4>1, ScriptShape
      <4>3. QED
        BY <3>2, <4>1, <4>2
    <3>4. c[1] \in DOMAIN CurrentSchema /\ c \notin CurrentSchema[c[1]]
      BY <2>1, <3>1, <3>3 DEF CurrentSchema
    <3>5. QED
      BY <2>1, <3>4
  <2> HIDE DEF lacking
  <2>2. aborted[p] => "fault" \in errors[p]
    BY DEF Inv, Facts, PlanFact
  <2>3. Present(columns)' = Present(columns)
    BY <1>1 DEF Present
  <2>4. QED
    BY <1>1, <1>5, <2>1, <2>2, <2>3 DEF PlanFact
<1>8. QED
  BY <1>3, <1>4, <1>6, <1>7, OthersKeep DEF Inv, Facts

\* A column of the plan is added or, if it exists by now, passed over; its table comes
\* before those of the rest of the plan.
LEMMA AddColumnKeeps ==
    ASSUME Inv, NEW p \in Process, NEW c \in plan[p], AddColumn(p, c)
    PROVE  Inv'
<1>1. /\ pc[p] = "migrate" /\ c \in NextColumns(p)
      /\ plan' = [plan EXCEPT ![p] = @ \ {c}]
      /\ UNCHANGED <<objects, columns, pc, next, outdated, aborted, errors, faults>>
  BY DEF AddColumn, Tried
<1>2. c \in Parsed /\ c \in Column /\ c[1] \in Range(Tables)
  BY ColumnTable DEF Inv, TypeOK, Parsed
<1>3. \/ aborted[p] /\ UNCHANGED <<locked, added>>
      \/ /\ ~aborted[p] /\ locked[c[1]] \in {None, p}
         /\ locked' = [locked EXCEPT ![c[1]] = p]
         /\ added' = [added EXCEPT ![p] = IF columns[c] = "absent" THEN @ \cup {c} ELSE @]
  BY DEF AddColumn
<1>4. TypeOK'
  <2>1. /\ locked' \in [Range(Tables) -> Process \cup {None}]
        /\ added' \in [Process -> SUBSET (Column \ Constrained)]
    <3>1. /\ locked \in [Range(Tables) -> Process \cup {None}]
          /\ added \in [Process -> SUBSET Parsed]
      BY DEF Inv, TypeOK, Parsed
    <3>2. locked' \in [Range(Tables) -> Process \cup {None}]
      BY <1>2, <1>3, <3>1
    <3>3. added' \in [Process -> SUBSET Parsed]
      BY <1>2, <1>3, <3>1
    <3>4. QED
      BY <3>2, <3>3 DEF Parsed
  <2>2. plan' \in [Process -> SUBSET (Column \ Constrained)]
    BY <1>1 DEF Inv, TypeOK
  <2>3. QED
    BY <1>1, <2>1, <2>2 DEF Inv, TypeOK
<1>5. Others(p) /\ Grown
  <2>1. \A q \in Process : q # p => plan'[q] = plan[q] /\ added'[q] = added[q]
    BY <1>1, <1>3 DEF Inv, TypeOK
  <2>2. \A t \in Range(Tables) : locked'[t] = locked[t] \/ locked'[t] = p
    BY <1>2, <1>3 DEF Inv, TypeOK
  <2>3. QED
    BY <1>1, <2>1, <2>2, SameGrown DEF Others
<1>6. plan'[p] = plan[p] \ {c}
  BY <1>1 DEF Inv, TypeOK
<1>7. ScriptFact(p)' /\ QuietFact(p)'
  BY <1>1 DEF Inv, Facts, ScriptFact, QuietFact, Complete
<1>8. PlanFact(p)'
  <2>1. PlanFact(p)
    BY DEF Inv, Facts
  <2>2. Present(columns)' = Present(columns)
    BY <1>1 DEF Present
  <2>3. errors[p] = {} => ~aborted[p]
    BY <2>1 DEF PlanFact
  <2>4. ~aborted[p] => added[p] \subseteq added'[p] /\ c \in Present(columns) \cup added'[p]
    BY <1>2, <1>3 DEF Inv, TypeOK, Present
  <2>5. QED
    BY <1>1, <1>6, <2>1, <2>2, <2>3, <2>4 DEF PlanFact
<1>9. OrderFact(p)'
  <2> SUFFICES ASSUME NEW t \in Range(Tables), locked'[t] = p, NEW d \in plan'[p]
               PROVE  NotAfter(t, d[1])
    BY <1>1 DEF OrderFact
  <2>1. d \in plan[p]
    BY <1>6
  <2>2. CASE locked[t] = p
    BY <2>1, <2>2 DEF Inv, Facts, OrderFact
  <2>3. CASE locked[t] # p
    <3>1. t = c[1]
      BY <1>2, <1>3, <2>3 DEF Inv, TypeOK
    <3>2. QED
      BY <1>1, <2>1, <3>1 DEF NextColumns, NotAfter
  <2>4. QED
    BY <2>2, <2>3
<1>10. QED
  BY <1>4, <1>5, <1>7, <1>8, <1>9, OthersKeep DEF Inv, Facts

\* The ALTER that fails undoes those before it.
LEMMA AddColumnFailsKeeps ==
    ASSUME Inv, NEW p \in Process, NEW c \in plan[p], AddColumnFails(p, c)
    PROVE  Inv'
<1>1. /\ pc[p] = "migrate" /\ aborted' = [aborted EXCEPT ![p] = TRUE]
      /\ errors' = [errors EXCEPT ![p] = @ \cup {"fault"}]
      /\ locked' = Released(p) /\ added' = [added EXCEPT ![p] = {}]
      /\ plan' = [plan EXCEPT ![p] = @ \ {c}]
      /\ faults < MaxFaults /\ faults' = faults + 1
      /\ UNCHANGED <<objects, columns, pc, next, outdated>>
  BY DEF AddColumnFails, Tried, Fault
<1>2. /\ locked' \in [Range(Tables) -> Process \cup {None}]
      /\ \A t \in Range(Tables) : locked'[t] # p /\ locked'[t] \in {locked[t], None}
  BY <1>1, ReleasedType DEF Inv
<1>3. TypeOK'
  <2>1. faults' \in 0 .. MaxFaults
    BY <1>1, StartupAssumption DEF Inv, TypeOK
  <2>2. QED
    BY <1>1, <1>2, <2>1 DEF Inv, TypeOK
<1>4. Others(p) /\ Grown
  BY <1>1, <1>2, SameGrown DEF Inv, TypeOK, Others
<1>5. "fault" \in errors'[p]
  BY <1>1 DEF Inv, TypeOK
<1>6. Facts(p)'
  <2>1. ScriptFact(p)' /\ PlanFact(p)'
    BY <1>1, <1>5 DEF Inv, Facts, ScriptFact, PlanFact
  <2>2. QuietFact(p)'
    BY <1>1, <1>5 DEF Inv, Facts, QuietFact, Complete
  <2>3. OrderFact(p)'
    BY <1>2 DEF OrderFact
  <2>4. QED
    BY <2>1, <2>2, <2>3 DEF Facts
<1>7. QED
  BY <1>3, <1>4, <1>6, OthersKeep DEF Inv

\* The commit of a migration with nothing left to add.
LEMMA ServeKeeps == ASSUME Inv, NEW p \in Process, Serve(p) PROVE Inv'
<1>1. /\ pc[p] = "migrate" /\ plan[p] = {} /\ pc' = [pc EXCEPT ![p] = "serving"]
      /\ columns' = [c \in Column |-> IF c \in added[p] THEN "bare" ELSE columns[c]]
      /\ added' = [added EXCEPT ![p] = {}]
      /\ locked' = Released(p)
      /\ UNCHANGED <<objects, next, plan, aborted, errors, outdated, faults>>
  BY DEF Serve, Go
<1>2. /\ locked' \in [Range(Tables) -> Process \cup {None}]
      /\ \A t \in Range(Tables) : locked'[t] # p /\ locked'[t] \in {locked[t], None}
  BY <1>1, ReleasedType DEF Inv
<1>3. TypeOK'
  <2>1. columns' \in [Column -> {"absent", "as_written", "bare"}]
    BY <1>1 DEF Inv, TypeOK
  <2>2. QED
    BY <1>1, <1>2, <2>1 DEF Inv, TypeOK, Steps
<1>4. \A c \in Column : columns'[c] = IF c \in added[p] THEN "bare" ELSE columns[c]
  BY <1>1
<1>5. Grown /\ added[p] \subseteq Present(columns')
  <2>1. added[p] \subseteq Column
    BY DEF Inv, TypeOK
  <2>2. Present(columns) \subseteq Present(columns') /\ added[p] \subseteq Present(columns')
    BY <1>4, <2>1 DEF Present
  <2>3. Complete => Complete'
    BY <1>1, <1>4 DEF Complete
  <2>4. QED
    BY <1>1, <2>2, <2>3 DEF Grown
<1>6. Others(p)
  BY <1>1, <1>2 DEF Inv, TypeOK, Others
<1>7. pc'[p] = "serving"
  BY <1>1 DEF Inv, TypeOK
<1>8. ScriptFact(p)' /\ QuietFact(p)'
  <2>1. ScriptFact(p)'
    BY <1>1 DEF Inv, Facts, ScriptFact
  <2>2. QuietFact(p)'
    BY <1>1, <1>5 DEF Inv, Facts, QuietFact, Grown
  <2>3. QED
    BY <2>1, <2>2
<1>9. PlanFact(p)'
  <2>1. Present(columns)' = Present(columns')
    OBVIOUS
  <2>2. PlanFact(p)
    BY DEF Inv, Facts
  <2>3. QED
    BY <1>1, <1>5, <1>7, <2>1, <2>2 DEF PlanFact, Grown
<1>10. OrderFact(p)'
  BY <1>2 DEF OrderFact
<1>11. QED
  BY <1>3, <1>5, <1>6, <1>8, <1>9, <1>10, OthersKeep DEF Inv, Facts

\* A process that dies holds no table.
LEMMA CrashKeeps == ASSUME Inv, NEW p \in Process, Crash(p) PROVE Inv'
<1>1. /\ pc' = [pc EXCEPT ![p] = "down"]
      /\ locked' = Released(p) /\ added' = [added EXCEPT ![p] = {}]
      /\ faults < MaxFaults /\ faults' = faults + 1
      /\ UNCHANGED <<objects, columns, next, plan, aborted, errors, outdated>>
  BY DEF Crash, Go, Fault
<1>2. /\ locked' \in [Range(Tables) -> Process \cup {None}]
      /\ \A t \in Range(Tables) : locked'[t] # p /\ locked'[t] \in {locked[t], None}
  BY <1>1, ReleasedType DEF Inv
<1>3. TypeOK'
  <2>1. faults' \in 0 .. MaxFaults
    BY <1>1, StartupAssumption DEF Inv, TypeOK
  <2>2. QED
    BY <1>1, <1>2, <2>1 DEF Inv, TypeOK, Steps
<1>4. Others(p) /\ Grown
  BY <1>1, <1>2, SameGrown DEF Inv, TypeOK, Others
<1>5. pc'[p] = "down"
  BY <1>1 DEF Inv, TypeOK
<1>6. Facts(p)'
  <2>1. QuietFact(p)' /\ PlanFact(p)' /\ ScriptFact(p)'
    BY <1>1, <1>5 DEF Inv, Facts, QuietFact, PlanFact, ScriptFact
  <2>2. OrderFact(p)'
    BY <1>2 DEF OrderFact
  <2>3. QED
    BY <2>1, <2>2 DEF Facts
<1>7. QED
  BY <1>3, <1>4, <1>6, OthersKeep DEF Inv

\* Every step keeps the invariant.
LEMMA InvStep == Inv /\ [Next]_vars => Inv'
<1> SUFFICES ASSUME Inv, [Next]_vars PROVE Inv'
  OBVIOUS
<1>1. ASSUME NEW p \in Process, Work(p) PROVE Inv'
  BY <1>1, StartKeeps, ExecuteKeeps, InitSqlDoneKeeps, ReadSchemaKeeps, AddColumnKeeps, ServeKeeps DEF Work
<1>2. ASSUME NEW p \in Process, StatementFails(p) \/ Crash(p) PROVE Inv'
  BY <1>2, StatementFailsKeeps, CrashKeeps
<1>3. ASSUME NEW p \in Process, NEW c \in plan[p], AddColumnFails(p, c) PROVE Inv'
  BY <1>3, AddColumnFailsKeeps
<1>4. CASE UNCHANGED vars
  <2>1. TypeOK'
    BY <1>4 DEF vars, Inv, TypeOK
  <2>2. \A p \in Process : Facts(p)'
    BY <1>4 DEF vars, Inv, Facts, ScriptFact, QuietFact, PlanFact, OrderFact, Complete, Present
  <2>3. QED
    BY <2>1, <2>2 DEF Inv
<1>5. QED
  BY <1>1, <1>2, <1>3, <1>4 DEF Next

LEMMA InvAlways == Spec => []Inv
BY InvInit, InvStep, PTL DEF Spec

\* Type correctness: no more than the objects of the script, and a place in it for
\* every process.
THEOREM StartupTypeCorrect == Spec => []TypeOK
<1>1. Inv => TypeOK
  BY DEF Inv
<1>2. QED
  BY <1>1, InvAlways, PTL

\* A start that logged no error has left everything it was to leave, whatever other
\* processes did meanwhile: _execute_init_sql, run_auto_migrations.
THEOREM CleanStartCompleteAlways == Spec => []CleanStartComplete
<1>1. Inv => CleanStartComplete
  <2> SUFFICES ASSUME Inv, NEW p \in Process, pc[p] = "serving", errors[p] = {}
               PROVE  /\ UNION Range(Statements) \subseteq objects
                      /\ Column \ Constrained \subseteq Present(columns)
    BY DEF CleanStartComplete
  <2>1. \A j \in 1 .. Len(Statements) : Statements[j] \subseteq objects
    BY ScriptShape DEF Inv, Facts, ScriptFact
  <2>2. UNION Range(Statements) \subseteq objects
    BY <2>1, ScriptShape DEF Range
  <2>3. QED
    BY <2>2 DEF Inv, Facts, PlanFact, Parsed
<1>2. QED
  BY <1>1, InvAlways, PTL

\* A restart on a complete database logs nothing unless something fails: the order of
\* the script, and columns that are never taken away.
THEOREM QuietRestartAlways == Spec => []QuietRestart
<1>1. Inv => QuietRestart
  BY DEF Inv, Facts, QuietFact, QuietRestart
<1>2. QED
  BY <1>1, InvAlways, PTL

\* No start ever makes a trigger, whatever else happens: _parse_sql_statements never gets
\* out of the function before them.  TriggersInPlace fails in every database, not only in
\* the one of the run that shows it.
THEOREM NoTriggerIsMade == Spec => [](Triggers \cap objects = {})
<1>1. Triggers \cap UNION Range(Statements) = {}
  <2>1. ASSUME NEW o \in UNION Range(Statements) PROVE o \notin Triggers
    <3>1. PICK i \in 1 .. 11 : o \in Statements[i]
      BY ScriptOrder, ScriptShape DEF Range
    <3>2. Statements[i] = {Lines[i].name}
      BY ScriptParsed DEF Opening
    <3>3. Lines[i].name \notin Triggers
      BY DEF Lines, Plain, Line, Triggers
    <3>4. QED
      BY <3>1, <3>2, <3>3
  <2>2. QED
    BY <2>1
<1>2. TypeOK => Triggers \cap objects = {}
  BY <1>1 DEF TypeOK
<1>3. QED
  BY <1>2, StartupTypeCorrect, PTL

\* p can go on with its migration only when q has released the table of column c.
WaitsFor(p, c, q) ==
    /\ pc[p] = "migrate" /\ ~aborted[p] /\ c \in NextColumns(p)
    /\ q \in Process /\ q # p /\ locked[c[1]] = q

\* Whoever is waited for waits for later tables only, so that chains of migrations that
\* wait for each other are no longer than the script has tables, and none is a circle:
\* the loop of _generate_alter_statements goes over the tables in the order of the script.
THEOREM WaitsAscend ==
    Spec => [](\A p, q, r \in Process : \A c \in plan[p], d \in plan[q] :
                  WaitsFor(p, c, q) /\ WaitsFor(q, d, r) =>
                      \A i, j \in DOMAIN Tables : Tables[i] = c[1] /\ Tables[j] = d[1] => i < j)
<1> DEFINE Ascend == \A p, q, r \in Process : \A c \in plan[p], d \in plan[q] :
                  WaitsFor(p, c, q) /\ WaitsFor(q, d, r) =>
                      \A i, j \in DOMAIN Tables : Tables[i] = c[1] /\ Tables[j] = d[1] => i < j
<1>1. Inv => Ascend
  <2> SUFFICES ASSUME Inv, NEW p \in Process, NEW q \in Process, NEW r \in Process,
                      NEW c \in plan[p], NEW d \in plan[q],
                      WaitsFor(p, c, q), WaitsFor(q, d, r),
                      NEW i \in DOMAIN Tables, NEW j \in DOMAIN Tables,
                      Tables[i] = c[1], Tables[j] = d[1]
               PROVE  i < j
    OBVIOUS
  <2>1. c[1] \in Range(Tables) /\ locked[c[1]] = q
    BY DEF WaitsFor, Range
  <2>2. NotAfter(c[1], d[1])
    BY <2>1 DEF Inv, Facts, OrderFact
  <2>3. i <= j
    BY <2>2 DEF NotAfter
  <2>4. i # j
    <3>1. locked[d[1]] = r /\ r # q
      BY DEF WaitsFor
    <3>2. QED
      BY <2>1, <3>1
  <2>5. i \in Nat /\ j \in Nat
    BY DEF Tables
  <2>6. QED
    BY <2>3, <2>4, <2>5
<1> HIDE DEF Ascend
<1>2. Spec => []Ascend
  BY <1>1, InvAlways, PTL
<1>3. QED
  BY <1>2 DEF Ascend
=============================================================================
