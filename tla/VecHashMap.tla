------------------------------- MODULE VecHashMap ------------------------------
(***************************************************************************)
(* VecHashMap (vignette/src/output.rs): a list of unique items, and a hash *)
(* map from each item to its index in the list.  Indices count from 0.     *)
(***************************************************************************)
EXTENDS Naturals, Sequences

\* VecHashMap::new
EmptyTable == [vec |-> <<>>, map |-> [item \in {} |-> 0]]

Has(table, item) == item \in DOMAIN table.map

Insert_Always(table, item) ==
  [vec |-> Append(table.vec, item),
   map |-> [x \in DOMAIN table.map \cup {item} |->
              IF x = item THEN Len(table.vec) ELSE table.map[x]]]

Insert_AtFront(table, item) ==
  IF Has(table, item) THEN table
  ELSE [vec |-> <<item>> \o table.vec,
        map |-> [x \in DOMAIN table.map \cup {item} |->
                   IF x = item THEN 0 ELSE table.map[x] + 1]]

\* What get_or_insert(item) leaves behind.
Insert(table, item) ==
  IF Has(table, item) THEN table
  ELSE [vec |-> Append(table.vec, item),
        map |-> [x \in DOMAIN table.map \cup {item} |->
                   IF x = item THEN Len(table.vec) ELSE table.map[x]]]

\* What get_or_insert(item) returns, read in the table it leaves behind.
IndexOf(table, item) == table.map[item]

\* table.vec()[index]
ItemAt(table, index) == table.vec[index + 1]

-------------------------------------------------------------------------------

\* The map says where each item is, and the list holds nothing else, and
\* nothing twice.
Consistent(table) ==
  /\ \A i \in DOMAIN table.vec : Has(table, table.vec[i]) /\ table.map[table.vec[i]] = i - 1
  /\ \A item \in DOMAIN table.map :
       table.map[item] + 1 \in DOMAIN table.vec /\ ItemAt(table, table.map[item]) = item

\* No item of table has another index in later (output.rs:71-72, "This index
\* is guaranteed to never change").
SameIndices(table, later) ==
  /\ \A item \in DOMAIN table.map : Has(later, item) /\ later.map[item] = table.map[item]
  /\ \A i \in DOMAIN table.vec : i \in DOMAIN later.vec /\ later.vec[i] = table.vec[i]

===============================================================================
