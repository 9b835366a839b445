----------------------------- MODULE MCCatalogue -----------------------------
(* Threads under one or two tags, and a query of each shape: merge, filter,*)
(* both, with an exclusion, by staff and by others.                        *)
EXTENDS Catalogue

CONSTANTS all, admin, a, b

UserLists == {<<a>>, <<b>>}

Search(merge, filter, exclude, staff) ==
  [merge |-> merge, filter |-> filter, exclude |-> exclude, admin |-> staff]

SomeQueries == {
  Search(<<a, b>>, <<>>, <<>>, FALSE),
  Search(<<admin, a, b>>, <<>>, <<>>, TRUE),
  Search(<<all, admin>>, <<admin, a>>, <<>>, FALSE),
  Search(<<b>>, <<a, all>>, <<>>, FALSE),
  Search(<<all>>, <<>>, <<b>>, FALSE),
  Search(<<admin>>, <<b, a>>, <<all>>, TRUE)}
=============================================================================
