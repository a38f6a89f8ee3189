---------------------------- MODULE KeyedRecords ----------------------------
(***************************************************************************)
(* The gateway keeps four tables keyed by CmdId: MemorySessionStore and    *)
(* MemoryPushSessionStore (a vector of records searched by cmdId), and the *)
(* two maps of open file handles; TimeoutWatchdog adds a fifth.  Each is a *)
(* set of records with a cmdId field, at most one record per CmdId.        *)
(***************************************************************************)

\* The keys present in a table.
Ids(S) == {r.cmdId : r \in S}

\* A table in which no CmdId occurs twice.
Keyed(S) == \A r, q \in S : r.cmdId = q.cmdId => r = q

\* remove / map::erase: drop the record of c, if there is one.
Without(S, c) == {r \in S : r.cmdId # c}

\* upsert / map[c] = r: overwrite the record of r.cmdId, or append it.
Put(S, r) == Without(S, r.cmdId) \cup {r}

\* map::emplace(c, r): inserts only when c has no entry; an entry that is
\* there keeps its old value.
Emplace(S, r) == IF r.cmdId \in Ids(S) THEN S ELSE S \cup {r}
=============================================================================
