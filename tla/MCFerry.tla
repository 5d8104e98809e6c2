------------------------------ MODULE MCFerry ------------------------------
(* One file, above the cache threshold and larger than one recv(). *)
EXTENDS Ferry, MCVirusHandler

FileValues == <<12>>
FileStart == StartOf(FileValues, HeaderBytes)

(* A shorter one for the runs with failures. *)
ShortValues == <<5>>
ShortStart == StartOf(ShortValues, HeaderBytes)
=============================================================================
