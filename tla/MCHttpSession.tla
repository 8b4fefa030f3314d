--------------------------- MODULE MCHttpSession ---------------------------
(* Two clients, one of which may stop for ever in the middle of a post.     *)
EXTENDS HttpSession

CONSTANTS quick, slow
=============================================================================
