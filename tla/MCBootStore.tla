----------------------------- MODULE MCBootStore -----------------------------
(* Two clients, two body words, three replacements: enough for each page to *)
(* be rewritten over an older record, for a client to hold a stale snapshot *)
(* (also one whose page number has come round again), and for the sequence  *)
(* to run out.                                                              *)
EXTENDS BootStore, TLC

Interchangeable == Permutations(Client) \cup Permutations(Value)
=============================================================================
