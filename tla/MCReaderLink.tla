---------------------------- MODULE MCReaderLink ----------------------------
(* Small instances of ReaderLink for TLC. *)
EXTENDS ReaderLink
=============================================================================
