----------------------------- MODULE MCPortalPage -----------------------------
(***************************************************************************)
(* The browser's device and another one; a language the page speaks and    *)
(* one it does not.                                                        *)
(***************************************************************************)
EXTENDS PortalPage
CONSTANTS d1, d2
===============================================================================
