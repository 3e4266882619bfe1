---------------------------- MODULE MCByteBuffer ----------------------------
(* A small instance of ByteBuffer: a buffer of two byte values. *)
EXTENDS ByteBuffer

CONSTANT other
=============================================================================
