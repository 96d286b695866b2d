------------------------ MODULE MCSelectorCatalogue ------------------------
(* Model-checking instance of SelectorCatalogue: two accounts, two nodes     *)
(* that may move to another endpoint.                                       *)
EXTENDS SelectorCatalogue

MCNodes == [id : {"a", "b"}, endpoint : {1, 2}]
============================================================================
