--------------------------- MODULE MCMemoryIndex ---------------------------
(* A small instance: a phrase, and two edits of one proposal that begin alike  *)
(* and so share their queue key.                                                *)
EXTENDS MemoryIndex

MCEdits == {"edit1", "edit2"}
MCPayloads == MCEdits \cup {"phrase"}
MCKeyOf == [p \in MCPayloads |-> IF p \in MCEdits THEN "edit" ELSE p]
=============================================================================
