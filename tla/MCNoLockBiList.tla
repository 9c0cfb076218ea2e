--------------------------- MODULE MCNoLockBiList ---------------------------
(* NoLockBiList for TLC.                                                    *)
EXTENDS NoLockBiList

\* What the properties say ends when calls have overlapped, and TLC goes no
\* further.
NotOverlapped == ~overlapped
=============================================================================
