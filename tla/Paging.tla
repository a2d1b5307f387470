------------------------------ MODULE Paging ------------------------------
(***************************************************************************)
(* The paging that every list of the engines shares: member.PageQuery, and *)
(* ORDER BY id DESC LIMIT size OFFSET (page-1)*size over the rows with an  *)
(* id in a set; and the order of the lists that show the oldest row first. *)
(***************************************************************************)
EXTENDS Integers, Sequences, FiniteSets, SequencesExt

DefaultPageSize == 20
MaxPageSize == 100

NormalizeQuery(q) ==
    [page |-> IF q.page < 1 THEN 1 ELSE q.page,
     size |-> CASE q.size < 1 -> DefaultPageSize
                [] q.size > MaxPageSize -> MaxPageSize
                [] OTHER -> q.size]

\* ORDER BY id DESC, and ORDER BY id ASC.
NewestFirst(ids) ==
    CHOOSE rows \in [1..Cardinality(ids) -> ids] :
        \A i, j \in 1..Cardinality(ids) : i < j => rows[i] > rows[j]
OldestFirst(ids) ==
    CHOOSE rows \in [1..Cardinality(ids) -> ids] :
        \A i, j \in 1..Cardinality(ids) : i < j => rows[i] < rows[j]

\* Mutant: the offset counts pages from zero.
OffsetFromZero(q) == q.page * q.size

Offset(q) == (q.page - 1) * q.size

PageOf(ids, query) ==
    LET q == NormalizeQuery(query)
        rows == NewestFirst(ids)
        last == IF Offset(q) + q.size < Len(rows) THEN Offset(q) + q.size ELSE Len(rows)
    IN  [items |-> SubSeq(rows, Offset(q) + 1, last), total |-> Len(rows)]

\* Every page of a list, one after the other, is the whole list, each row once:
\* the pages of member.NormalizeQuery overlap nowhere and leave nothing out.
PagesAreTheList(ids, size) ==
    LET pages == [n \in 0..(Cardinality(ids) \div size + 1) |->
                    PageOf(ids, [page |-> n, size |-> size])]
        all   == FlattenSeq([n \in 1..(Cardinality(ids) \div size + 1) |-> pages[n].items])
    IN  /\ Range(all) = ids /\ Len(all) = Cardinality(ids)
        /\ \A i, j \in DOMAIN all : i < j => all[i] > all[j]
        /\ pages[0] = pages[1]
=============================================================================
