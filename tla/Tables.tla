---- MODULE Tables ----
(***************************************************************************)
(* The relational store behind the three database interfaces of            *)
(* src/pkg/gitus/db.  A table is the sequence of its rows in row-id order: *)
(* an INSERT appends, a DELETE keeps the order of the other rows, and      *)
(* duplicate rows are kept.  A database is a record with one field per     *)
(* table, the directories below GitRoot, and the identity counters that    *)
(* PostgreSQL and MySQL never hand out twice.  clock counts the writes     *)
(* whose time stamp a listing sorts by.                                    *)
(***************************************************************************)
EXTENDS Naturals, FiniteSets, Sequences, SequencesExt, TLC

CONSTANTS Like,       \* <<pattern, text>>: the texts a search pattern matches
          Collation   \* the names in the order ORDER BY puts them

\* SQL: SELECT, EXISTS, UPDATE and DELETE with a WHERE clause.
Has(t, P(_)) == \E i \in DOMAIN t : P(t[i])
Without(t, P(_)) == SelectSeq(t, LAMBDA r : ~P(r))
Update(t, P(_), F(_)) == [i \in DOMAIN t |-> IF P(t[i]) THEN F(t[i]) ELSE t[i]]
Rows(t) == {t[i] : i \in DOMAIN t}
Column(t, F(_)) == [i \in DOMAIN t |-> F(t[i])]

\* QueryRow: the first row that matches, or Null (ErrNoRows).
Null == [none |-> TRUE]
Lookup(t, P(_)) == IF Has(t, P) THEN SelectSeq(t, P)[1] ELSE Null

\* A keyword filter; the empty keyword adds no condition.
Matches(k, text) == k = "" \/ <<k, text>> \in Like

\* LIMIT pageSize OFFSET pageNum * pageSize.
Page(t, pageNum, pageSize) ==
    SubSeq(t, pageNum * pageSize + 1,
           IF (pageNum + 1) * pageSize > Len(t) THEN Len(t) ELSE (pageNum + 1) * pageSize)

\* ORDER BY repo_name, repo_namespace.
Place(n) == CHOOSE i \in DOMAIN Collation : Collation[i] = n
ByName(t) == SortSeq(t, LAMBDA a, b : \/ Place(a.name) < Place(b.name)
                                      \/ a.name = b.name /\ Place(a.ns) < Place(b.ns))

\* A row id of SQLite is one more than the largest in use: the id of the
\* newest row is handed out again once that row is deleted.
NextRowid(t) == IF t = <<>> THEN 1 ELSE Last(t).id + 1

\* os.RemoveAll on a path below GitRoot.
RemoveAll(dirs, p) == {q \in dirs : ~IsPrefix(p, q)}

\* What a database function hands back: the database, and nil or an error.
Ok(d) == [db |-> d, err |-> "nil"]
Fail(d, e) == [db |-> d, err |-> e]

EmptyDb == [user |-> <<>>, authkey |-> <<>>, signkey |-> <<>>, email |-> <<>>,
            req |-> <<>>, ns |-> <<>>, repo |-> <<>>, issue |-> <<>>, event |-> <<>>,
            pr |-> <<>>, prevent |-> <<>>, review |-> <<>>, counter |-> <<>>,
            snippet |-> <<>>, hook |-> <<>>, dirs |-> {}, seq |-> 0, clock |-> 0]
====
