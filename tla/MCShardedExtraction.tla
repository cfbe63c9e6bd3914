-------------------------- MODULE MCShardedExtraction --------------------------
(* Instances of ShardedExtraction for TLC: six documents, four of one row,  *)
(* one of three and one of four, and the launches made over them.           *)
EXTENDS ShardedExtraction

SixDocs == <<"a", "b", "c", "d", "e", "e", "e", "f", "f", "f", "f">>

Whole == [start |-> 0, limit |-> 11, devices |-> 2, batch |-> 2, align |-> "document_batch",
          resume |-> TRUE, overwrite |-> TRUE]

ModelRequests ==
    {\* the whole source on 2 and 3 devices: 4 and 7 rows; 2, 2 and 7
     Whole, [Whole EXCEPT !.devices = 3],
     \* the last document, whose 4 rows fit the first range of the whole
     [Whole EXCEPT !.start = 7, !.limit = 4, !.resume = FALSE],
     \* more devices than batches; one document at a time, no --overwrite
     [Whole EXCEPT !.start = 2, !.limit = 5, !.devices = 3],
     [Whole EXCEPT !.limit = 7, !.align = "document", !.overwrite = FALSE],
     \* ranges that cut a document
     [Whole EXCEPT !.start = 1, !.limit = 5, !.align = "row"],
     \* refused: a selection that ends inside a document, or past the source
     [Whole EXCEPT !.limit = 5], [Whole EXCEPT !.start = 7, !.limit = 5]}
=============================================================================
