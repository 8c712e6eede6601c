----------------------------- MODULE MCProcess -----------------------------
(* The initial thread and processes in two pages; there are more tids than  *)
(* pages, so a page is used again after a process has died.                 *)
EXTENDS Process

CONSTANTS main, p1, p2

TwoPages == {main, p1, p2}
OneStatus == {1}
=============================================================================
