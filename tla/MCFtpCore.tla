----------------------------- MODULE MCFtpCore ------------------------------
(* FtpCore with a small reply ring and chunks that are all alike.          *)
EXTENDS FtpCore
=============================================================================
