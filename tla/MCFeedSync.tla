----------------------------- MODULE MCFeedSync -----------------------------
(* A small instance of FeedSync: one source, the worker and two requests. *)
EXTENDS FeedSync

Ecosystems == {"npm", "pypi"}
=============================================================================
