------------------------------ MODULE MCFtpTcp ------------------------------
(* FtpTcp with a small reply ring and small files.                         *)
EXTENDS FtpTcp

(* Chains of one and of two chunks, such that a peer's stream is neither   *)
(* constant nor its own reverse, and streams differ between connections.   *)
Chains == {<<0>>, <<1, 0>>}
=============================================================================
