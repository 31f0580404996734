------------------------------ MODULE Releases ------------------------------
(* The releases both halves of the updater speak of: a release is its code. *)
EXTENDS Naturals

CONSTANT MaxRelease  \* the newest release's code

\* 0 is no release.
Codes == 0 .. MaxRelease
=============================================================================
