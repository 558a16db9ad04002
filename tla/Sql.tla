-------------------------------- MODULE Sql --------------------------------
(***************************************************************************)
(* The idioms of SQL that the queries share.                               *)
(***************************************************************************)
EXTENDS Integers, Sequences, FiniteSets, FiniteSetsExt, SequencesExt

CONSTANT None  \* NULL

NotFound == [found |-> FALSE]
Found(x) == [found |-> TRUE, result |-> x]

-----------------------------------------------------------------------------
(* ORDER BY, LIMIT, OFFSET. *)

\* p comes before q in a descending order of their keys.
Above(p, q) ==
  \E i \in DOMAIN p : p[i] > q[i] /\ \A j \in 1 .. i - 1 : p[j] = q[j]

\* x goes behind the rows that come before it.
Insert(x, s, Key(_)) ==
  InsertAt(s, 1 + Cardinality({i \in DOMAIN s : Above(Key(s[i]), Key(x))}), x)

Descending(S, Key(_)) == FoldSet(LAMBDA x, s : Insert(x, s, Key), <<>>, S)

Ascending(S, Key(_)) == Reverse(Descending(S, Key))

Page(s, limit, offset) == SubSeq(s, offset + 1,
                                 IF offset + limit < Len(s) THEN offset + limit
                                                            ELSE Len(s))

\* ORDER BY ... DESC LIMIT 1.
First(S, Key(_)) ==
  IF S = {} THEN NotFound
  ELSE Found(CHOOSE x \in S : \A y \in S : ~Above(Key(y), Key(x)))

Map(s, Op(_)) == [i \in DOMAIN s |-> Op(s[i])]

Flag(b) == IF b THEN 1 ELSE 0

\* SUM of a column, 0 for no rows.
SumOf(S, Column(_)) == MapThenSumSet(Column, S)
=============================================================================
