----------------------------- MODULE MCRunPage ------------------------------
(* A small instance of RunPage.                                            *)
EXTENDS RunPage
=============================================================================
