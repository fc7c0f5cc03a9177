-------------------------- MODULE MCArticleFactory --------------------------
(* Instance of ArticleFactory for model checking. *)
EXTENDS ArticleFactory
=============================================================================
