--------------------------- MODULE AtomicDocument ---------------------------
(***************************************************************************)
(* What the state file promises: a document that is replaced whole or not  *)
(* at all.  After a power cut it is one of those the file system may not   *)
(* yet have left behind, and never anything else.                          *)
(***************************************************************************)
CONSTANTS Contents,   \* what the file may be found to hold at the start
          Documents   \* what is saved

VARIABLES doc,        \* what a reader of the file finds
          offered     \* what a power cut may leave there

Init == doc \in Contents /\ offered = {doc}

Replace == \E d \in Documents : doc' = d /\ offered' = offered \cup {d}

Settle == UNCHANGED doc /\ offered' = {doc}

PowerCut == doc' \in offered /\ offered' = {doc'}

Next == Replace \/ Settle \/ PowerCut

Spec == Init /\ [][Next]_<<doc, offered>>

=============================================================================
