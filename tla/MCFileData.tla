----------------------------- MODULE MCFileData -----------------------------
(* Instances of FileData for TLC. *)
EXTENDS FileData

\* Files of up to two pages and a byte that are read while a local user changes
\* them once; longer ones, which cross what an int and 32 bits hold; files of up
\* to two USB reads that are written.
ReadOrWritten ==
  {[uses |-> {"get", "partial"}, size |-> 9, local |-> 1],
   [uses |-> {"get"}, size |-> 14, local |-> 0],
   [uses |-> {"send", "send_partial", "truncate"}, size |-> 4, local |-> 0]}
=============================================================================
