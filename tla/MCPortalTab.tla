------------------------------ MODULE MCPortalTab ------------------------------
(***************************************************************************)
(* One account with two names and two passwords, for TLC, and a claim that *)
(* the code refutes.                                                       *)
(***************************************************************************)
EXTENDS PortalTab
CONSTANTS n1, n2, p1, p2

\* "Profile saved." (profile/page.tsx:91) names what is stored, if nobody else saves a
\* name.  A save that failed on the page may be stored after a later one was answered.
SavedStaysStored == screen = "profile" /\ page.said = "saved" => page.displayName = name
=============================================================================
