--------------------------- MODULE MCClientData ---------------------------
(* Small instances of ClientData for TLC.                                  *)
EXTENDS ClientData, SequencesExt, TLC

CONSTANTS a, b, c, v1, v2, v3, v4

PeopleABC == <<a, b, c>>

\* All HTML files of up to five cells, and all CSV files of up to three rows,
\* with a header or without, of three videos.
SomeFiles ==
  [kind : {"html"}, cells : {f \in BoundedSeq(Cells \ {v4}, 5) : WellFormed(f)}]
    \cup [kind : {"csv"}, cells : BoundedSeq(Rows \ {v4}, 3) \cup
                                  {<<"header">> \o f : f \in BoundedSeq(Rows \ {v4}, 3)}]

\* a has nothing yet, or one video more than are enriched, all of them lacking
\* something; b's list is complete in part; c has one video.
SomeLists ==
  {(a :> own @@ b :> <<[id |-> v1, meta |-> 2], [id |-> v2, meta |-> 1]>>
             @@ c :> <<[id |-> v3, meta |-> 0]>>) :
     own \in {<<>>, <<[id |-> v2, meta |-> 1], [id |-> v1, meta |-> 0], [id |-> v3, meta |-> 1],
                  [id |-> v4, meta |-> 0]>>}}
=============================================================================
