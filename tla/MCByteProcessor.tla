-------------------------- MODULE MCByteProcessor --------------------------
(***************************************************************************)
(* ByteProcessor for model checking: sockets and sizes.  The buffers hold  *)
(* 12 bytes where the code's hold 1024; a header has 4 bytes and a pointer *)
(* 8, as in the code.                                                      *)
(***************************************************************************)
EXTENDS ByteProcessor

\* Lengths read from bytes that are no header: negative, zero, one that fits
\* the bytes at hand and one larger than any buffer.
SomeGarbage == {-1, 0, 12, 100}
==============================================================================
