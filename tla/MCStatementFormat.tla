------------------------- MODULE MCStatementFormat -------------------------
(***************************************************************************)
(* Small statements for StatementFormat: one of every form that a planner  *)
(* looks for, unbroken, with one break at every place, and with a break    *)
(* before every token.  Operands are 3 wide, function names 5, comments 4  *)
(* and 7; what follows a line comment always begins a line.                *)
(***************************************************************************)
EXTENDS StatementFormat

NormalWidth(k) == CASE k = "x" -> 3 [] k = "f" -> 5 [] k = "--" -> 4 [] k = "/*" -> 7 [] OTHER -> Len(k)
Token(k)  == [k |-> k, w |-> NormalWidth(k), lb |-> 0]
Broken(kinds, at, lines) == [i \in DOMAIN kinds |-> [Token(kinds[i]) EXCEPT !.lb = IF i \in at THEN lines ELSE 0]]

Layouts(kinds) ==
  LET inner == 2 .. Len(kinds)
      ended == {i \in inner : kinds[i - 1] = "--"}
  IN  {Broken(kinds, ended \cup at, lines) : at \in {{}, inner} \cup {{i} : i \in inner}, lines \in {1, 3}}

Queries == <<
  <<"SELECT", "f", "(", "x", "ORDER", "BY", "x", ")", ",", "f", "(", ")", "WITHIN", "GROUP", "(", "ORDER", "BY", "x", ")", "FROM", "x",
    ";">>,
  <<"SELECT", "x", ",", "x", "AS", "x", "FROM", "x", "JOIN", "x", "ON", "x", "=", "x", "WHERE", "x", "=", "x", "AND", "x", "ORDER", "BY", "x",
    ";">>,
  <<"SELECT", "x", "FROM", "(", "SELECT", "x", "FROM", "x", "WHERE", "x", "=", "x", ")", "AS", "x", "LEFT", "OUTER", "JOIN", "x", "USING",
    "(", "x", ",", "x", ")", ";">>,
  <<"SELECT", "x", "FROM", "x", "WHERE", "x", "IN", "(", "SELECT", "x", "FROM", "x", ")", "AND", "(", "x", "=", "x", "OR", "x", "=", "x", ")",
    ";">>,
  <<"SELECT", "x", "FROM", "x", "WHERE", "x", "NOT", "IN", "(", "x", ",", "x", ")", "AND", "EXISTS", "(", "SELECT", "x", "FROM", "x", ")",
    "FOR", "UPDATE", ";">>,
  <<"SELECT", "x", "FROM", "x", "WHERE", "x", "IN", "(", "SELECT", "x", "FROM", "x", "JOIN", "x", "ON", "x", "FOR", "UPDATE", ")", ";">>,
  <<"SELECT", "x", "FROM", "(", "x", "NATURAL", "JOIN", "x", ")", "CROSS", "JOIN", "x", ",", "x", "LEFT", "JOIN", "x", "ON", "x", "=", "x">>,
  <<"SELECT", "DISTINCT", "ON", "(", "x", ")", "x", "FROM", "x", ",", "x", "WHERE", "x", "IS", "NOT", "DISTINCT", "FROM", "x", "GROUP", "BY",
    "x", ",", "x", "HAVING", "x", ";">>,
  <<"SELECT", "x", "FROM", "x", "UNION", "ALL", "(", "SELECT", "x", "FROM", "x", "ORDER", "BY", "x", ")", "EXCEPT", "SELECT", "x", "ORDER",
    "BY", "x", ";">>,
  <<"SELECT", "x", "FROM", "(", "SELECT", "x", "FROM", "x", "INTERSECT", "(", "SELECT", "x", "EXCEPT", "SELECT", "x", ")", "LIMIT", "x", ")",
    "AS", "x", ";">>,
  <<"WITH", "x", "AS", "(", "SELECT", "x", "FROM", "x", ")", ",", "x", "AS", "(", "INSERT", "INTO", "x", "VALUES", "(", "x", ")", ")",
    "SELECT", "x", "FROM", "x", ";">>,
  <<"WITH", "x", "AS", "MATERIALIZED", "(", "VALUES", "(", "x", ")", ")", "SEARCH", "x", "SELECT", "x", "OFFSET", "x", "LIMIT", "x">>,
  <<"SELECT", "f", "(", "x", ")", "OVER", "(", "PARTITION", "BY", "x", "ORDER", "BY", "x", ")", ",", "x", "FROM", "x", "WINDOW", "x", "AS",
    "(", "ORDER", "BY", "x", ")">>,
  <<"VALUES", "(", "x", ",", "x", ")", ",", "(", "x", ",", "x", ")", "ORDER", "BY", "x", ",", "x", ";">>,
  <<"SELECT", "x", "FROM", "(", "VALUES", "(", "x", ")", ",", "(", "x", ")", ")", "AS", "x", "(", "x", ")", "WHERE", "x", "=", "x", ";">>,
  <<"(", "SELECT", "x", "FROM", "x", "ORDER", "BY", "x", ")", "UNION", "SELECT", "x", "FROM", "x", "FETCH", "x", ";">>,
  <<"SELECT", "x", "FROM", "x", "AS", "x", "(", "x", ",", "x", ")", "LEFT", "JOIN", "x", "ON", "x", "=", "x", "AND", "x", "=", "ANY", "(",
    "SELECT", "x", "FROM", "x", ")", ";">>>>

Expressions == <<
  <<"SELECT", "CASE", "WHEN", "x", "=", "x", "THEN", "x", "WHEN", "x", "AND", "x", "THEN", "x", "ELSE", "x", "END", "AS", "x", ",", "x", ";">>,
  <<"SELECT", "x", "FROM", "x", "WHERE", "CASE", "WHEN", "x", "THEN", "x", "AND", "x", "OR", "x", "ELSE", "x", "END", "AND", "NOT", "(", "x",
    "OR", "x", ")", ";">>,
  <<"SELECT", "json", "(", "x", ",", "x", ",", "x", ",", "f", "(", "x", ",", "x", ")", ")", ",", "f", "(", "ARRAY", "[", "x", ",", "x", "]",
    ")", "FROM", "x", ";">>,
  <<"SELECT", "ARRAY", "[", "[", "x", ",", "x", "]", ",", "[", "x", "]", "]", ",", "(", "SELECT", "x", "FROM", "x", ")", "AS", "x", "FROM",
    "x", ";">>,
  <<"SELECT", "x", "FROM", "f", "(", "x", ")", "AS", "definition", "(", "x", "x", ",", "x", "x", ")", "JOIN", "x", "ON", "x", "WHERE", "x",
    "=", "ANY", "(", "ARRAY", "[", "x", "]", ")", ";">>,
  <<"SELECT", "json", "(", "x", ",", "x", "ORDER", "BY", "x", ")", "FROM", "x", ",", "(", "SELECT", "x", "FROM", "x", ")", "AS", "x",
    "WHERE", "x", "OR", "x", "AND", "x", ";">>,
  <<"SELECT", "f", "(", "f", "(", "f", "(", "x", ",", "x", ")", ",", "x", ")", ")", "FROM", "x", "WHERE", "(", "x", "OR", "(", "x", "AND",
    "x", ")", ")", "AND", "x", ";">>>>

Changes == <<
  <<"INSERT", "INTO", "x", "(", "x", ",", "x", ")", "VALUES", "(", "x", ",", "x", ")", "ON", "CONFLICT", "(", "x", ")", "DO", "UPDATE", "SET",
    "x", "=", "x", "WHERE", "x", ";">>,
  <<"INSERT", "INTO", "x", "VALUES", "(", "x", ",", "x", ")", ",", "(", "x", ")", "ON", "CONFLICT", "DO", "NOTHING", "RETURNING", "x", ",",
    "x", ";">>,
  <<"INSERT", "INTO", "x", "(", "x", ")", "SELECT", "x", "FROM", "x", "WHERE", "x", "=", "x", "ON", "CONFLICT", "DO", "NOTHING", ";">>,
  <<"INSERT", "INTO", "x", "DEFAULT", "VALUES", "RETURNING", "x", ",", "x", ";">>,
  <<"UPDATE", "x", "SET", "x", "=", "x", ",", "x", "=", "f", "(", "x", ")", "FROM", "x", "JOIN", "x", "ON", "x", "=", "x", "WHERE", "x", "OR",
    "x", "RETURNING", "x", ";">>,
  <<"DELETE", "FROM", "x", "USING", "x", "JOIN", "x", "ON", "x", "=", "x", "WHERE", "x", "=", "x", "AND", "x", "RETURNING", "x", ",", "x",
    ";">>,
  <<"MERGE", "INTO", "x", "USING", "x", "ON", "x", "=", "x", "WHEN", "MATCHED", "THEN", "UPDATE", "SET", "x", "=", "x", "WHEN", "MATCHED",
    "THEN", "DELETE", ";">>,
  <<"MERGE", "INTO", "x", "USING", "x", "ON", "x", "=", "x", "WHEN", "NOT", "MATCHED", "AND", "x", "THEN", "INSERT", "(", "x", ")", "VALUES",
    "(", "x", ")", ";">>,
  <<"UPDATE", "x", "SET", "x", "=", "(", "SELECT", "x", "FROM", "x", ")", "WHERE", "x", "IN", "(", "SELECT", "x", "UNION", "SELECT", "x",
    "FROM", "x", ")", ";">>,
  <<"WITH", "x", "(", "x", ",", "x", ")", "AS", "(", "DELETE", "FROM", "x", "USING", "x", "RETURNING", "x", ")", "UPDATE", "x", "SET", "x",
    "=", "x", ";">>>>

Held == <<
  <<"UPDATE", "x", "SET", "x", "=", "CASE", "WHEN", "x", "THEN", "x", "WHEN", "x", "THEN", "x", "ELSE", "x", "END", "WHERE", "x", ";">>,
  <<"DELETE", "FROM", "x", "WHERE", "x", "IN", "(", "SELECT", "x", "UNION", "SELECT", "x", ")", "RETURNING", "x", ",", "(", "SELECT", "x",
    ")", ";">>,
  <<"SELECT", "x", "FROM", "x", "WHERE", "x", "IN", "(", "SELECT", "x", "UNION", "SELECT", "x", "FROM", "x", ")", ";">>,
  <<"INSERT", "INTO", "x", "(", "x", ")", "SELECT", "x", "UNION", "SELECT", "x", "FROM", "x", "RETURNING", "x", ";">>,
  <<"UPDATE", "x", "SET", "x", "=", "(", "x", "OR", "x", "AND", "x", ")", ",", "x", "=", "x", "WHERE", "x", ";">>,
  <<"INSERT", "INTO", "x", "VALUES", "(", "(", "SELECT", "x", "UNION", "SELECT", "x", ")", ")", "ON", "CONFLICT", "(", "x", ")", "DO",
    "UPDATE", "SET", "x", "=", "x", ";">>,
  <<"MERGE", "INTO", "x", "USING", "x", "ON", "x", "WHEN", "MATCHED", "THEN", "UPDATE", "SET", "x", "=", "(", "SELECT", "x", "UNION",
    "SELECT", "x", ")", ";">>,
  <<"UPDATE", "x", "SET", "x", "=", "f", "(", "(", "SELECT", "f", "(", "x", ")", "FROM", "x", ")", ",", "x", ")", "WHERE", "x", "=", "x",
    ";">>>>

Definitions == <<
  <<"CREATE", "VIEW", "x", "AS", "SELECT", "x", "FROM", "x", "WHERE", "x", "=", "x", "WITH", "CHECK", "OPTION", ";">>,
  <<"CREATE", "MATERIALIZED", "VIEW", "x", "TABLESPACE", "x", "AS", "WITH", "x", "AS", "(", "SELECT", "x", ")", "SELECT", "x", "WITH", "NO",
    "DATA", ";">>,
  <<"CREATE", "TABLE", "x", "(", "x", "x", "GENERATED", "ALWAYS", "AS", "IDENTITY", "(", "START", "WITH", "x", "CYCLE", ")", ",", "UNIQUE",
    "(", "x", ")", ")", "TABLESPACE", "x", ";">>,
  <<"CREATE", "TABLE", "x", "(", "x", "x", ",", "CHECK", "(", "x", "AND", "x", "OR", "x", ")", ")", "PARTITION", "BY", "x", "(", "x", ")",
    "WITH", "(", "x", "=", "x", ")", ";">>,
  <<"CREATE", "INDEX", "x", "ON", "x", "(", "x", ",", "f", "(", "x", ")", ")", "INCLUDE", "(", "x", ",", "x", ")", "WITH", "(", "x", "=", "x",
    ")", "WHERE", "x", "=", "x", ";">>,
  <<"ALTER", "TABLE", "x", "ADD", "COLUMN", "x", "x", ",", "ADD", "CONSTRAINT", "x", "FOREIGN", "KEY", "(", "x", ")", "REFERENCES", "x", "(",
    "x", ")", "ON", "DELETE", "x", ";">>,
  <<"ALTER", "TABLE", "x", "SET", "(", "x", "=", "x", ",", "x", "=", "x", ")", ",", "ADD", "CHECK", "(", "x", "AND", "x", ")", ";">>,
  <<"ALTER", "TABLE", "x", "RENAME", "TO", "x", ";">>,
  <<"ALTER", "TABLE", "x", "ALTER", "COLUMN", "x", "ADD", "GENERATED", "ALWAYS", "AS", "IDENTITY", "(", "START", "WITH", "x", "CACHE", "x",
    ")", ",", "ADD", "x", "x", ";">>,
  <<"CREATE", "TABLE", "x", "PARTITION", "OF", "x", "(", "x", "WITH", "x", ")", "FOR", "VALUES", "FROM", "(", "x", ")", "TO", "(", "x", ")",
    "PARTITION", "BY", "x", "(", "x", ")", ";">>,
  <<"CREATE", "TABLE", "x", "(", "x", "x", "REFERENCES", "x", "(", "x", ")", ",", "EXCLUDE", "USING", "x", "(", "x", "WITH", "x", ")", ",",
    "LIKE", "x", ")", ";">>>>

Utilities == <<
  <<"CREATE", "SEQUENCE", "x", "INCREMENT", "BY", "x", "NO", "MAXVALUE", "CYCLE", ";">>,
  <<"CREATE", "TRIGGER", "x", "BEFORE", "UPDATE", "ON", "x", "FOR", "EACH", "ROW", "WHEN", "(", "x", "=", "x", ")", "EXECUTE", "FUNCTION",
    "f", "(", "x", ")", ";">>,
  <<"CREATE", "POLICY", "x", "ON", "x", "USING", "(", "x", "=", "x", ")", "WITH", "CHECK", "(", "x", "AND", "x", ")", ";">>,
  <<"CREATE", "STATISTICS", "x", "(", "x", ")", "ON", "x", ",", "x", "FROM", "x", ";">>,
  <<"CREATE", "TYPE", "x", "AS", "ENUM", "(", "x", ",", "x", ")", ";">>,
  <<"CREATE", "RULE", "x", "AS", "ON", "INSERT", "TO", "x", "WHERE", "x", "DO", "INSTEAD", "NOTHING", ";">>,
  <<"LOCK", "TABLE", "x", ",", "x", "IN", "ACCESS", "SHARE", "MODE", "NOWAIT", ";">>,
  <<"LOCK", "TABLE", "x", ",", "x", "NOWAIT", ";">>,
  <<"EXPLAIN", "(", "x", ",", "x", ")", "SELECT", "x", "FROM", "x", ";">>,
  <<"COPY", "x", "(", "x", ",", "x", ")", "TO", "x", "WITH", "(", "x", ",", "x", ")", ";">>>>

Commented == <<
  <<"SELECT", "x", ",", "--", "x", "FROM", "x", "--", "WHERE", "x", "AND", "--", "x", ";">>,
  <<"INSERT", "INTO", "x", "(", "x", ",", "--", "x", ")", "/*", "VALUES", "(", "x", "/*", ",", "x", ")", "--", "RETURNING", "x", ";">>,
  <<"SELECT", "f", "(", "x", "--", ",", "x", ")", ",", "CASE", "--", "WHEN", "x", "THEN", "/*", "x", "END", "--", "FROM", "x", ";">>,
  <<"WITH", "x", "AS", "(", "--", "SELECT", "x", ")", "/*", "SELECT", "x", "FROM", "x", "--", "JOIN", "x", "ON", "--", "x", ";">>,
  <<"SELECT", "x", "UNION", "--", "SELECT", "x", "WHERE", "(", "x", "--", "OR", "x", ")", "AND", "/*", "x", ";">>,
  <<"MERGE", "INTO", "x", "USING", "x", "ON", "--", "x", "WHEN", "MATCHED", "--", "THEN", "UPDATE", "SET", "--", "x", "=", "x", ";">>,
  <<"CREATE", "TABLE", "x", "(", "--", "x", "x", ",", "--", "x", "x", "/*", ")", ";">>,
  <<"SELECT", "x", "FROM", "x", "WHERE", "x", "/*", "--">>,
  <<"UPDATE", "x", "SET", "x", "=", "x", "--", ";">>>>

Statements == Queries \o Changes \o Held \o Expressions \o Definitions \o Utilities \o Commented

MCTexts == [n \in DOMAIN Statements |-> Layouts(Statements[n])]

(* On one line: an UPDATE that holds a CASE of two branches and a set      *)
(* operation in a predicate; and an INSERT of two rows, RETURNING broken.  *)
UnsettledTexts ==
  LET cases  == <<"UPDATE", "x", "SET", "x", "=", "CASE", "WHEN", "x", "THEN", "x", "WHEN", "x", "THEN", "x", "END", "WHERE", "x", ";">>
      unions == <<"SELECT", "x", "FROM", "x", "WHERE", "x", "IN", "(", "SELECT", "x", "UNION", "SELECT", "x", ")", ";">>
      rows   == <<"INSERT", "INTO", "x", "VALUES", "(", "x", ")", ",", "(", "x", ")", "RETURNING", "x", ";">>
      Each1(kinds) == {Broken(kinds, at, 1) : at \in {{}} \cup {{i} : i \in 2 .. Len(kinds)}}
  IN  <<Each1(cases), Each1(unions), Each1(rows)>>

Layout(soft, hard, inline, semicolon) == [soft |-> soft, hard |-> hard, inline |-> inline, semicolon |-> semicolon]
MCOptions == {Layout(20, 120, TRUE, "preserve"), Layout(30, 40, FALSE, "require"), Layout(120, 120, TRUE, "omit")}
WideOptions == {Layout(100, 120, TRUE, "preserve")}
=============================================================================
