---------------------------- MODULE MCStartReply ----------------------------
(***************************************************************************)
(* Bytes of two bits, of which the line carries three values, a head of    *)
(* two bytes, replies of four, and one other thread that sends a command.  *)
(***************************************************************************)
EXTENDS StartReply

MCLineBytes == {{}, {"a"}, {"b"}}
MCHead == <<{"a"}, {"b"}>>
=============================================================================
